------------------------- MODULE PersistenceProofs -------------------------
(***************************************************************************)
(* Persistence is well typed; until something ends its promise no key has  *)
(* two nodes, no row of the file meets another, and a load has made of the *)
(* table what the rows read so far say.  With them, a load spoils only     *)
(* what LoadsUnlessMetOrTorn allows, and every step is one of Durable, or  *)
(* none: what SAVE, SIGINT or a crash left in the file is what a start     *)
(* reads.                                                                  *)
(***************************************************************************)
EXTENDS Persistence, Induction, FiniteSetTheorems, FunctionTheorems

-----------------------------------------------------------------------------
(* The operators on the nodes of the table                                 *)

LEMMA LeastIs ==
  ASSUME NEW S \in SUBSET Nat, S # {}
  PROVE  Min(S) \in S /\ \A k \in S : Min(S) <= k
<1>1. \E m \in S : \A k \in S : m <= k
  BY LeastNumber
<1> QED
  BY <1>1 DEF Min

LEMMA FindIs ==
  ASSUME NEW tbl \in Seq(Node), NEW k
  PROVE  LET i == Find(tbl, k)
         IN  /\ i \in 0..Len(tbl)
             /\ i = 0 => \A j \in 1..Len(tbl) : tbl[j].key # k
             /\ i # 0 => tbl[i].key = k /\ tbl[i] \in Node
<1> DEFINE I == {i \in 1..Len(tbl) : tbl[i].key = k}
<1>1. Find(tbl, k) = IF I # {} THEN Min(I) ELSE 0
  BY DEF Find, SelectInSeq
<1>2. I \in SUBSET Nat
  OBVIOUS
<1>3. I # {} => Min(I) \in I
  <2> HIDE DEF I
  <2> QED
    BY <1>2, LeastIs
<1>4. CASE I = {}
  BY <1>1, <1>4
<1>5. CASE I # {}
  <2>1. Find(tbl, k) \in I
    <3> HIDE DEF I
    <3> QED
      BY <1>1, <1>3, <1>5
  <2> QED
    BY <2>1
<1> QED
  BY <1>4, <1>5

(* new is tbl with n put in at position p.                                 *)
IsInserted(new, tbl, p, n) ==
  /\ p \in 1..(Len(tbl) + 1) /\ Len(new) = Len(tbl) + 1 /\ new[p] = n
  /\ \A i \in 1..(p - 1) : new[i] = tbl[i]
  /\ \A i \in p..Len(tbl) : new[i + 1] = tbl[i]

LEMMA InsertedIs ==
  ASSUME NEW D, NEW tbl \in Seq(D), NEW n \in D, NEW p \in 1..(Len(tbl) + 1)
  PROVE  InsertAt(tbl, p, n) \in Seq(D) /\ IsInserted(InsertAt(tbl, p, n), tbl, p, n)
<1>1. PICK new : new = InsertAt(tbl, p, n)
  OBVIOUS
<1>2. PICK L \in Nat : L = Len(tbl)
  OBVIOUS
<1>3. new = SubSeq(tbl, 1, p - 1) \o <<n>> \o SubSeq(tbl, p, L)
  BY <1>1, <1>2 DEF InsertAt
<1>4. PICK a, b, s, h : /\ a = SubSeq(tbl, 1, p - 1) /\ b = SubSeq(tbl, p, L) /\ s = <<n>>
                        /\ h = a \o s
  OBVIOUS
<1>5. /\ a \in Seq(D) /\ b \in Seq(D) /\ s \in Seq(D)
      /\ Len(a) = p - 1 /\ Len(b) = L - p + 1 /\ Len(s) = 1 /\ s[1] = n
      /\ \A i \in 1..(p - 1) : a[i] = tbl[i]
      /\ \A i \in 1..(L - p + 1) : b[i] = tbl[p + i - 1]
  BY <1>2, <1>4
<1>6. PICK m : m = p - 1
  OBVIOUS
<1>7. IsBehind(h, a, s, m, D)
  <2>1. Len(a) = m /\ h = a \o s /\ a \in Seq(D) /\ s \in Seq(D)
    BY ONLY <1>4, <1>5, <1>6
  <2> QED
    BY ONLY <2>1, Behind
<1>8. h \in Seq(D) /\ Len(h) = p /\ h[p] = n /\ \A i \in 1..(p - 1) : h[i] = tbl[i]
  <2>1. m + 1 = p /\ p \in 1..(L + 1)
    BY ONLY <1>2, <1>6, p \in 1..(Len(tbl) + 1)
  <2>2. h \in Seq(D) /\ Len(h) = m + 1 /\ h[m + 1] = s[1] /\ \A i \in 1..m : h[i] = a[i]
    BY ONLY <1>5, <1>7 DEF IsBehind
  <2> QED
    BY ONLY <1>5, <1>6, <2>1, <2>2
<1>9. IsBehind(new, h, b, p, D)
  <2>1. Len(h) = p /\ new = h \o b /\ h \in Seq(D) /\ b \in Seq(D)
    BY ONLY <1>3, <1>4, <1>5, <1>8
  <2> QED
    BY ONLY <2>1, Behind
<1>10. /\ new \in Seq(D) /\ Len(new) = p + (L - p + 1) /\ \A i \in 1..p : new[i] = h[i]
       /\ \A j \in 1..(L - p + 1) : new[p + j] = b[j]
  BY ONLY <1>5, <1>9 DEF IsBehind
<1>11. p \in 1..(L + 1) /\ L \in Nat
  BY ONLY <1>2, p \in 1..(Len(tbl) + 1)
<1>12. Len(new) = L + 1 /\ new[p] = n /\ \A i \in 1..(p - 1) : new[i] = tbl[i]
  BY ONLY <1>8, <1>10, <1>11
<1>13. \A i \in p..L : new[i + 1] = tbl[i]
  <2> TAKE i \in p..L
  <2>1. PICK j : j = i - p + 1
    OBVIOUS
  <2>2. j \in 1..(L - p + 1) /\ p + j = i + 1 /\ p + j - 1 = i
    BY ONLY <1>11, <2>1, i \in p..L
  <2>3. new[p + j] = b[j] /\ b[j] = tbl[p + j - 1]
    BY ONLY <1>5, <1>10, <2>2
  <2> QED
    BY ONLY <2>2, <2>3
<1> QED
  BY ONLY <1>1, <1>2, <1>10, <1>11, <1>12, <1>13 DEF IsInserted

(* new is tbl without position p.                                          *)
IsRemoved(new, tbl, p) ==
  /\ Len(new) = Len(tbl) - 1
  /\ \A i \in 1..(p - 1) : new[i] = tbl[i]
  /\ \A i \in (p + 1)..Len(tbl) : new[i - 1] = tbl[i]

LEMMA RemovedIs ==
  ASSUME NEW D, NEW tbl \in Seq(D), NEW p \in 1..Len(tbl)
  PROVE  RemoveAt(tbl, p) \in Seq(D) /\ IsRemoved(RemoveAt(tbl, p), tbl, p)
<1>1. PICK new : new = RemoveAt(tbl, p)
  OBVIOUS
<1>2. PICK L \in Nat : L = Len(tbl)
  OBVIOUS
<1>3. new = SubSeq(tbl, 1, p - 1) \o SubSeq(tbl, p + 1, L)
  BY <1>1, <1>2 DEF RemoveAt
<1>4. PICK a, b : a = SubSeq(tbl, 1, p - 1) /\ b = SubSeq(tbl, p + 1, L)
  OBVIOUS
<1>5. /\ a \in Seq(D) /\ b \in Seq(D) /\ Len(a) = p - 1 /\ Len(b) = L - p
      /\ \A i \in 1..(p - 1) : a[i] = tbl[i]
      /\ \A i \in 1..(L - p) : b[i] = tbl[p + i]
  BY <1>2, <1>4
<1>6. PICK m : m = p - 1
  OBVIOUS
<1>7. IsBehind(new, a, b, m, D)
  <2>1. Len(a) = m /\ new = a \o b /\ a \in Seq(D) /\ b \in Seq(D)
    BY ONLY <1>3, <1>4, <1>5, <1>6
  <2> QED
    BY ONLY <2>1, Behind
<1>8. /\ new \in Seq(D) /\ Len(new) = m + (L - p) /\ \A i \in 1..m : new[i] = a[i]
      /\ \A j \in 1..(L - p) : new[m + j] = b[j]
  BY ONLY <1>5, <1>7 DEF IsBehind
<1>9. p \in 1..L /\ L \in Nat
  BY ONLY <1>2, p \in 1..Len(tbl)
<1>10. Len(new) = L - 1 /\ \A i \in 1..(p - 1) : new[i] = tbl[i]
  BY ONLY <1>5, <1>6, <1>8, <1>9
<1>11. \A i \in (p + 1)..L : new[i - 1] = tbl[i]
  <2> TAKE i \in (p + 1)..L
  <2>1. PICK j : j = i - p
    OBVIOUS
  <2>2. j \in 1..(L - p) /\ m + j = i - 1 /\ p + j = i
    BY ONLY <1>6, <1>9, <2>1, i \in (p + 1)..L
  <2>3. new[m + j] = b[j] /\ b[j] = tbl[p + j]
    BY ONLY <1>5, <1>8, <2>2
  <2> QED
    BY ONLY <2>2, <2>3
<1> QED
  BY ONLY <1>1, <1>2, <1>8, <1>10, <1>11 DEF IsRemoved

LEMMA PlaceIs ==
  ASSUME NEW tbl \in Seq(Node), NEW k \in Keys
  PROVE  1 + Cardinality({i \in DOMAIN tbl : Hash[tbl[i].key] <= Hash[k]}) \in 1..(Len(tbl) + 1)
<1> DEFINE S == {i \in DOMAIN tbl : Hash[tbl[i].key] <= Hash[k]}
<1>1. PICK L \in Nat : L = Len(tbl)
  OBVIOUS
<1>2. IsFiniteSet(1..L) /\ Cardinality(1..L) = L
  <2>1. 1 \in Int /\ L \in Int
    OBVIOUS
  <2>2. IsFiniteSet(1..L) /\ Cardinality(1..L) = IF 1 > L THEN 0 ELSE L - 1 + 1
    BY ONLY <2>1, FS_Interval
  <2> QED
    BY <2>2
<1>3. S \in SUBSET (1..L)
  BY <1>1
<1> HIDE DEF S
<1>4. IsFiniteSet(S) /\ Cardinality(S) <= Cardinality(1..L)
  BY ONLY <1>2, <1>3, FS_Subset
<1>5. Cardinality(S) \in Nat
  BY ONLY <1>4, FS_CardinalityType
<1>6. 1 + Cardinality(S) \in 1..(L + 1)
  BY ONLY <1>2, <1>4, <1>5, L \in Nat
<1> QED
  BY <1>1, <1>6 DEF S

LEMMA AddedIs ==
  ASSUME NEW tbl \in Seq(Node), NEW k \in Keys, NEW o \in Object, NEW e \in Nat
  PROVE  /\ Added(tbl, k, o, e) \in Seq(Node)
         /\ \E p : IsInserted(Added(tbl, k, o, e), tbl, p, [key |-> k, obj |-> o, exp |-> e])
<1>1. PICK n : n = [key |-> k, obj |-> o, exp |-> e]
  OBVIOUS
<1>2. n \in Node
  BY <1>1 DEF Node
<1>3. PICK p : p = 1 + Cardinality({i \in DOMAIN tbl : Hash[tbl[i].key] <= Hash[k]})
  OBVIOUS
<1>4. p \in 1..(Len(tbl) + 1)
  BY <1>3, PlaceIs
<1>5. Added(tbl, k, o, e) = InsertAt(tbl, p, n)
  BY <1>1, <1>3 DEF Added
<1> QED
  BY <1>1, <1>2, <1>4, <1>5, InsertedIs

-----------------------------------------------------------------------------
(* The node of each key, when no two nodes have one                        *)

Distinct(tbl) == \A i, j \in 1..Len(tbl) : tbl[i].key = tbl[j].key => i = j

At(tbl) == [k \in Keys |-> IF Find(tbl, k) = 0 THEN NULL ELSE tbl[Find(tbl, k)]]

NoNode == [k \in Keys |-> NULL]

LEMMA NodesAre ==
  /\ \A n \in Node : n.key \in Keys /\ n.obj \in Object /\ n.exp \in Nat
  /\ \A tbl \in Seq(Node) : \A i \in 1..Len(tbl) : tbl[i] \in Node /\ tbl[i].key \in Keys
<1>1. \A n \in Node : n.key \in Keys /\ n.obj \in Object /\ n.exp \in Nat
  BY DEF Node
<1>2. \A tbl \in Seq(Node) : \A i \in 1..Len(tbl) : tbl[i] \in Node
  OBVIOUS
<1> QED
  BY <1>1, <1>2

LEMMA AtIs ==
  ASSUME NEW tbl \in Seq(Node), NEW k \in Keys
  PROVE  /\ At(tbl) \in [Keys -> Node \cup {NULL}]
         /\ At(tbl)[k] = NULL <=> Find(tbl, k) = 0
         /\ At(tbl)[k] = NULL => \A i \in 1..Len(tbl) : tbl[i].key # k
         /\ At(tbl)[k] # NULL =>
              /\ At(tbl)[k] = tbl[Find(tbl, k)] /\ Find(tbl, k) \in 1..Len(tbl)
              /\ At(tbl)[k] \in Node /\ At(tbl)[k].key = k
         /\ Distinct(tbl) => \A i \in 1..Len(tbl) : tbl[i].key = k => At(tbl)[k] = tbl[i]
<1>1. \A j \in Keys : LET i == Find(tbl, j)
                      IN  /\ i \in 0..Len(tbl)
                          /\ i = 0 => \A x \in 1..Len(tbl) : tbl[x].key # j
                          /\ i # 0 => tbl[i].key = j /\ tbl[i] \in Node
  BY FindIs
<1>2. NULL \notin Node
  BY PersistenceAssumption
<1>3. At(tbl) \in [Keys -> Node \cup {NULL}]
  BY <1>1 DEF At
<1>4. At(tbl)[k] = NULL <=> Find(tbl, k) = 0
  BY <1>1, <1>2 DEF At
<1>5. At(tbl)[k] # NULL =>
        /\ At(tbl)[k] = tbl[Find(tbl, k)] /\ Find(tbl, k) \in 1..Len(tbl)
        /\ At(tbl)[k] \in Node /\ At(tbl)[k].key = k
  BY <1>1, <1>4 DEF At
<1>6. ASSUME Distinct(tbl), NEW i \in 1..Len(tbl), tbl[i].key = k
      PROVE  At(tbl)[k] = tbl[i]
  BY <1>1, <1>4, <1>5, <1>6 DEF Distinct
<1> QED
  BY <1>1, <1>3, <1>4, <1>5, <1>6

(* A function that has every node at its key and nothing else is At.       *)
LEMMA AtWhen ==
  ASSUME NEW tbl \in Seq(Node), NEW F \in [Keys -> Node \cup {NULL}],
         \A i \in 1..Len(tbl) : F[tbl[i].key] = tbl[i],
         \A k \in Keys : F[k] # NULL => \E i \in 1..Len(tbl) : tbl[i] = F[k] /\ tbl[i].key = k
  PROVE  At(tbl) = F
<1>1. ASSUME NEW k \in Keys PROVE At(tbl)[k] = F[k]
  <2>1. /\ At(tbl)[k] = NULL => \A i \in 1..Len(tbl) : tbl[i].key # k
        /\ At(tbl)[k] # NULL =>
             /\ At(tbl)[k] = tbl[Find(tbl, k)] /\ Find(tbl, k) \in 1..Len(tbl)
             /\ At(tbl)[k] \in Node /\ At(tbl)[k].key = k
    BY AtIs
  <2>2. CASE At(tbl)[k] = NULL
    BY <2>1, <2>2
  <2>3. CASE At(tbl)[k] # NULL
    BY <2>1, <2>3
  <2> QED
    BY <2>2, <2>3
<1>2. At(tbl) \in [Keys -> Node \cup {NULL}]
  BY AtIs, PersistenceAssumption
<1> QED
  BY <1>1, <1>2

LEMMA EmptyTable ==
  <<>> \in Seq(Node) /\ Distinct(<<>>) /\ At(<<>>) = NoNode
<1>1. <<>> \in Seq(Node) /\ Distinct(<<>>)
  BY DEF Distinct
<1>2. NoNode \in [Keys -> Node \cup {NULL}] /\ \A k \in Keys : NoNode[k] = NULL
  BY DEF NoNode
<1>3. \A i \in 1..Len(<<>>) : NoNode[<<>>[i].key] = <<>>[i]
  OBVIOUS
<1>4. At(<<>>) = NoNode
  BY ONLY <1>1, <1>2, <1>3, AtWhen
<1> QED
  BY <1>1, <1>4

LEMMA AtInserted ==
  ASSUME NEW tbl \in Seq(Node), Distinct(tbl), NEW n \in Node, At(tbl)[n.key] = NULL,
         NEW new \in Seq(Node), NEW p, IsInserted(new, tbl, p, n)
  PROVE  Distinct(new) /\ At(new) = [At(tbl) EXCEPT ![n.key] = n]
<1>1. PICK L \in Nat : L = Len(tbl)
  OBVIOUS
<1>2. n.key \in Keys
  BY NodesAre
<1>3. \A i \in 1..L : tbl[i].key # n.key /\ tbl[i] \in Node /\ tbl[i].key \in Keys
  <2>1. \A i \in 1..L : tbl[i] \in Node /\ tbl[i].key \in Keys
    BY <1>1, NodesAre
  <2>2. \A i \in 1..L : tbl[i].key # n.key
    BY <1>1, <1>2, AtIs
  <2> QED
    BY <2>1, <2>2
<1>4. \A i, j \in 1..L : tbl[i].key = tbl[j].key => i = j
  BY <1>1 DEF Distinct
<1>5. /\ p \in 1..(L + 1) /\ Len(new) = L + 1 /\ new[p] = n
      /\ \A i \in 1..(p - 1) : new[i] = tbl[i]
      /\ \A i \in p..L : new[i + 1] = tbl[i]
  BY <1>1 DEF IsInserted
<1>6. PICK src : src = [i \in 1..(L + 1) |-> IF i < p THEN i ELSE i - 1]
  OBVIOUS
<1>7. ASSUME NEW i \in 1..(L + 1), i # p
      PROVE  src[i] \in 1..L /\ new[i] = tbl[src[i]]
  <2>1. CASE i < p
    BY <1>5, <1>6, <2>1
  <2>2. CASE i > p
    <3>1. PICK j : j = i - 1
      OBVIOUS
    <3>2. j \in p..L /\ j + 1 = i /\ src[i] = j
      BY <1>5, <1>6, <2>2, <3>1
    <3>3. new[j + 1] = tbl[j]
      BY <1>5, <3>2
    <3>4. new[i] = tbl[j] /\ j \in 1..L
      BY ONLY <1>5, <3>2, <3>3, L \in Nat
    <3> QED
      BY ONLY <3>2, <3>4
  <2> QED
    BY <1>5, <1>7, <2>1, <2>2
<1>8. \A i, j \in 1..(L + 1) : i # p /\ j # p /\ src[i] = src[j] => i = j
  BY <1>5, <1>6
<1>9. Distinct(new)
  <2>1. ASSUME NEW i \in 1..(L + 1), NEW j \in 1..(L + 1), new[i].key = new[j].key
        PROVE  i = j
    <3>1. CASE i = p /\ j = p
      BY <3>1
    <3>2. CASE i # p /\ j = p
      BY <1>3, <1>5, <1>7, <2>1, <3>2
    <3>3. CASE i = p /\ j # p
      BY <1>3, <1>5, <1>7, <2>1, <3>3
    <3>4. CASE i # p /\ j # p
      <4>1. src[i] \in 1..L /\ src[j] \in 1..L /\ tbl[src[i]].key = tbl[src[j]].key
        BY <1>7, <2>1, <3>4
      <4> QED
        BY <1>4, <1>8, <3>4, <4>1
    <3> QED
      BY <3>1, <3>2, <3>3, <3>4
  <2> QED
    BY <1>5, <2>1 DEF Distinct
<1>10. PICK F : F = [At(tbl) EXCEPT ![n.key] = n]
  OBVIOUS
<1>11. /\ At(tbl) \in [Keys -> Node \cup {NULL}]
       /\ F \in [Keys -> Node \cup {NULL}] /\ F[n.key] = n
       /\ \A k \in Keys : k # n.key => F[k] = At(tbl)[k]
  BY <1>2, <1>10, AtIs
<1>12. ASSUME NEW i \in 1..Len(new) PROVE F[new[i].key] = new[i]
  <2>1. CASE i = p
    BY <1>5, <1>11, <2>1
  <2>2. CASE i # p
    <3>1. src[i] \in 1..L /\ new[i] = tbl[src[i]]
      BY <1>5, <1>7, <2>2
    <3>2. At(tbl)[tbl[src[i]].key] = tbl[src[i]]
      BY <1>1, <1>3, <3>1, AtIs
    <3> QED
      BY <1>3, <1>11, <3>1, <3>2
  <2> QED
    BY <2>1, <2>2
<1>13. ASSUME NEW k \in Keys, F[k] # NULL
       PROVE  \E i \in 1..Len(new) : new[i] = F[k] /\ new[i].key = k
  <2>1. CASE k = n.key
    BY <1>5, <1>11, <2>1
  <2>2. CASE k # n.key
    <3>1. PICK x \in 1..L : tbl[x] = F[k] /\ tbl[x].key = k
      BY <1>1, <1>11, <1>13, <2>2, AtIs
    <3>2. CASE x < p
      <4>1. x \in 1..(p - 1) /\ x \in 1..Len(new)
        BY <1>5, <3>2
      <4> QED
        BY <1>5, <3>1, <4>1
    <3>3. CASE ~(x < p)
      <4>1. x \in p..L /\ x + 1 \in 1..Len(new)
        BY <1>5, <3>3
      <4> QED
        BY <1>5, <3>1, <4>1
    <3> QED
      BY <3>2, <3>3
  <2> QED
    BY <2>1, <2>2
<1>14. At(new) = F
  BY <1>11, <1>12, <1>13, AtWhen
<1> QED
  BY <1>9, <1>10, <1>14

LEMMA AtRemoved ==
  ASSUME NEW tbl \in Seq(Node), Distinct(tbl), NEW p \in 1..Len(tbl),
         NEW new \in Seq(Node), IsRemoved(new, tbl, p)
  PROVE  Distinct(new) /\ At(new) = [At(tbl) EXCEPT ![tbl[p].key] = NULL]
<1>1. PICK L \in Nat : L = Len(tbl)
  OBVIOUS
<1>2. \A i \in 1..L : tbl[i] \in Node /\ tbl[i].key \in Keys
  BY <1>1, NodesAre
<1>3. \A i, j \in 1..L : tbl[i].key = tbl[j].key => i = j
  BY <1>1 DEF Distinct
<1>4. /\ p \in 1..L /\ Len(new) = L - 1
      /\ \A i \in 1..(p - 1) : new[i] = tbl[i]
      /\ \A i \in (p + 1)..L : new[i - 1] = tbl[i]
  BY <1>1 DEF IsRemoved
<1>5. PICK src : src = [i \in 1..(L - 1) |-> IF i < p THEN i ELSE i + 1]
  OBVIOUS
<1>6. ASSUME NEW i \in 1..(L - 1)
      PROVE  src[i] \in 1..L /\ src[i] # p /\ new[i] = tbl[src[i]]
  <2>1. CASE i < p
    BY <1>4, <1>5, <2>1
  <2>2. CASE ~(i < p)
    <3>1. PICK j : j = i + 1
      OBVIOUS
    <3>2. j \in (p + 1)..L /\ j - 1 = i /\ src[i] = j
      BY <1>4, <1>5, <2>2, <3>1
    <3>3. new[j - 1] = tbl[j]
      BY <1>4, <3>2
    <3> QED
      BY <1>4, <3>2, <3>3
  <2> QED
    BY <2>1, <2>2
<1>7. \A i, j \in 1..(L - 1) : src[i] = src[j] => i = j
  BY <1>4, <1>5
<1>8. Distinct(new)
  <2>1. ASSUME NEW i \in 1..(L - 1), NEW j \in 1..(L - 1), new[i].key = new[j].key
        PROVE  i = j
    <3>1. src[i] \in 1..L /\ src[j] \in 1..L /\ tbl[src[i]].key = tbl[src[j]].key
      BY <1>6, <2>1
    <3> QED
      BY <1>3, <1>7, <3>1
  <2> QED
    BY <1>4, <2>1 DEF Distinct
<1>9. PICK q : q = tbl[p].key
  OBVIOUS
<1>10. PICK F : F = [At(tbl) EXCEPT ![q] = NULL]
  OBVIOUS
<1>11. /\ q \in Keys
       /\ F \in [Keys -> Node \cup {NULL}] /\ F[q] = NULL
       /\ \A k \in Keys : k # q => F[k] = At(tbl)[k]
  BY <1>2, <1>4, <1>9, <1>10, AtIs
<1>12. ASSUME NEW i \in 1..Len(new) PROVE F[new[i].key] = new[i]
  <2>1. src[i] \in 1..L /\ src[i] # p /\ new[i] = tbl[src[i]]
    BY <1>4, <1>6
  <2>2. tbl[src[i]].key # q
    BY <1>3, <1>4, <1>9, <2>1
  <2>3. At(tbl)[tbl[src[i]].key] = tbl[src[i]]
    BY <1>1, <1>2, <2>1, AtIs
  <2> QED
    BY <1>2, <1>11, <2>1, <2>2, <2>3
<1>13. ASSUME NEW k \in Keys, F[k] # NULL
       PROVE  \E i \in 1..Len(new) : new[i] = F[k] /\ new[i].key = k
  <2>1. k # q
    BY <1>11, <1>13
  <2>2. PICK x \in 1..L : tbl[x] = F[k] /\ tbl[x].key = k
    BY <1>1, <1>11, <1>13, <2>1, AtIs
  <2>3. x # p
    BY <1>9, <2>1, <2>2
  <2>4. CASE x < p
    <3>1. x \in 1..(p - 1) /\ x \in 1..Len(new)
      BY <1>4, <2>4
    <3> QED
      BY <1>4, <2>2, <3>1
  <2>5. CASE x > p
    <3>1. x \in (p + 1)..L /\ x - 1 \in 1..Len(new)
      BY <1>4, <2>5
    <3> QED
      BY <1>4, <2>2, <3>1
  <2> QED
    BY <1>4, <2>3, <2>4, <2>5
<1>14. At(new) = F
  BY <1>11, <1>12, <1>13, AtWhen
<1> QED
  BY <1>8, <1>9, <1>10, <1>14

LEMMA AtReplaced ==
  ASSUME NEW tbl \in Seq(Node), Distinct(tbl), NEW p \in 1..Len(tbl),
         NEW n \in Node, n.key = tbl[p].key
  PROVE  /\ [tbl EXCEPT ![p] = n] \in Seq(Node) /\ Distinct([tbl EXCEPT ![p] = n])
         /\ At([tbl EXCEPT ![p] = n]) = [At(tbl) EXCEPT ![n.key] = n]
<1>1. PICK L \in Nat : L = Len(tbl)
  OBVIOUS
<1>2. PICK new : new = [tbl EXCEPT ![p] = n]
  OBVIOUS
<1>3. /\ new \in Seq(Node) /\ Len(new) = L /\ p \in 1..L /\ new[p] = n
      /\ \A i \in 1..L : i # p => new[i] = tbl[i]
      /\ \A i \in 1..L : new[i].key = tbl[i].key /\ new[i].key \in Keys
  <2>1. new \in Seq(Node) /\ Len(new) = L /\ p \in 1..L /\ new[p] = n
    BY <1>1, <1>2
  <2>2. \A i \in 1..L : i # p => new[i] = tbl[i]
    BY <1>1, <1>2
  <2>3. \A i \in 1..L : tbl[i].key \in Keys
    BY <1>1, NodesAre
  <2> QED
    BY <2>1, <2>2, <2>3
<1>4. Distinct(new)
  BY <1>1, <1>3 DEF Distinct
<1>5. PICK F : F = [At(tbl) EXCEPT ![n.key] = n]
  OBVIOUS
<1>6. /\ n.key \in Keys
      /\ F \in [Keys -> Node \cup {NULL}] /\ F[n.key] = n
      /\ \A k \in Keys : k # n.key => F[k] = At(tbl)[k]
  BY <1>5, AtIs, NodesAre
<1>7. ASSUME NEW i \in 1..Len(new) PROVE F[new[i].key] = new[i]
  <2>1. CASE i = p
    BY <1>3, <1>6, <2>1
  <2>2. CASE i # p
    <3>1. At(tbl)[new[i].key] = tbl[i] /\ new[i].key # n.key
      BY <1>1, <1>3, <2>2, AtIs DEF Distinct
    <3> QED
      BY <1>3, <1>6, <2>2, <3>1
  <2> QED
    BY <2>1, <2>2
<1>8. ASSUME NEW k \in Keys, F[k] # NULL
      PROVE  \E i \in 1..Len(new) : new[i] = F[k] /\ new[i].key = k
  <2>1. CASE k = n.key
    BY <1>3, <1>6, <2>1
  <2>2. CASE k # n.key
    <3>1. PICK x \in 1..L : tbl[x] = F[k] /\ tbl[x].key = k
      BY <1>1, <1>6, <1>8, <2>2, AtIs
    <3>2. x # p
      BY <2>2, <3>1
    <3> QED
      BY <1>3, <3>1, <3>2
  <2> QED
    BY <2>1, <2>2
<1>9. At(new) = F
  BY <1>3, <1>6, <1>7, <1>8, AtWhen
<1> QED
  BY <1>2, <1>3, <1>4, <1>5, <1>9

-----------------------------------------------------------------------------
(* What the operations do to the node of each key                          *)

NodeOf(k, o, e) == [key |-> k, obj |-> o, exp |-> e]

(* tbl is typed, and when no two nodes of old had one key none of tbl have *)
(* and the nodes of tbl are those of F.                                    *)
Becomes(tbl, old, F) ==
  tbl \in Seq(Node) /\ (Distinct(old) => Distinct(tbl) /\ At(tbl) = F)

LEMMA ObjectsAre ==
  /\ \A v \in Strings \cup {Garbage} : String(v) \in Object
  /\ \A c \in Contents : Bitmap(c) \in Object
  /\ \A f \in [Members -> Scores \cup {NULL}] : Zset(f) \in Object
  /\ \A o \in Object : IsZset(o) => o.score \in [Members -> Scores \cup {NULL}] /\ o = Zset(o.score)
  /\ \A o \in Object : o.type = "string" => o.val \in Strings \cup {Garbage} /\ o = String(o.val)
  /\ \A o \in Object : o.type = "bitmap" => o.words \in Contents /\ o = Bitmap(o.words)
  /\ \A o \in Object : o.type \in {"string", "bitmap", "zset"}
  /\ NoMember \in [Members -> Scores \cup {NULL}]
BY DEF Object, String, Bitmap, Zset, IsZset, NoMember

LEMMA AddedBecomes ==
  ASSUME NEW tbl \in Seq(Node), NEW k \in Keys, NEW o \in Object, NEW e \in Nat
  PROVE  /\ Added(tbl, k, o, e) \in Seq(Node)
         /\ Find(tbl, k) = 0 =>
              Becomes(Added(tbl, k, o, e), tbl, [At(tbl) EXCEPT ![k] = NodeOf(k, o, e)])
<1>1. PICK new : new = Added(tbl, k, o, e)
  OBVIOUS
<1>2. PICK n : n = NodeOf(k, o, e)
  OBVIOUS
<1>3. n \in Node /\ n.key = k
  BY <1>2 DEF Node, NodeOf
<1>4. new \in Seq(Node) /\ \E p : IsInserted(new, tbl, p, n)
  BY <1>1, <1>2, AddedIs DEF NodeOf
<1>5. Find(tbl, k) = 0 => At(tbl)[k] = NULL
  BY AtIs
<1>6. ASSUME Find(tbl, k) = 0, Distinct(tbl)
      PROVE  Distinct(new) /\ At(new) = [At(tbl) EXCEPT ![k] = n]
  BY <1>3, <1>4, <1>5, <1>6, AtInserted
<1> QED
  BY <1>1, <1>2, <1>4, <1>6 DEF Becomes

LEMMA RemovedBecomes ==
  ASSUME NEW tbl \in Seq(Node), NEW k \in Keys, Find(tbl, k) # 0
  PROVE  Becomes(RemoveAt(tbl, Find(tbl, k)), tbl, [At(tbl) EXCEPT ![k] = NULL])
<1>1. PICK p : p = Find(tbl, k)
  OBVIOUS
<1>2. p \in 1..Len(tbl) /\ tbl[p].key = k
  BY <1>1, FindIs
<1>3. RemoveAt(tbl, p) \in Seq(Node) /\ IsRemoved(RemoveAt(tbl, p), tbl, p)
  BY <1>2, RemovedIs
<1>4. Distinct(tbl) => /\ Distinct(RemoveAt(tbl, p))
                       /\ At(RemoveAt(tbl, p)) = [At(tbl) EXCEPT ![k] = NULL]
  BY <1>2, <1>3, AtRemoved
<1> QED
  BY <1>1, <1>3, <1>4 DEF Becomes

LEMMA ReplacedBecomes ==
  ASSUME NEW tbl \in Seq(Node), NEW k \in Keys, Find(tbl, k) # 0, NEW n \in Node, n.key = k
  PROVE  Becomes([tbl EXCEPT ![Find(tbl, k)] = n], tbl, [At(tbl) EXCEPT ![k] = n])
<1>1. PICK p : p = Find(tbl, k)
  OBVIOUS
<1>2. p \in 1..Len(tbl) /\ tbl[p].key = k
  BY <1>1, FindIs
<1>3. [tbl EXCEPT ![p] = n] \in Seq(Node)
  BY <1>2
<1>4. Distinct(tbl) => /\ Distinct([tbl EXCEPT ![p] = n])
                       /\ At([tbl EXCEPT ![p] = n]) = [At(tbl) EXCEPT ![k] = n]
  <2> SUFFICES ASSUME Distinct(tbl)
               PROVE  /\ Distinct([tbl EXCEPT ![p] = n])
                      /\ At([tbl EXCEPT ![p] = n]) = [At(tbl) EXCEPT ![k] = n]
    OBVIOUS
  <2>1. n.key = tbl[p].key
    BY <1>2
  <2>2. /\ Distinct([tbl EXCEPT ![p] = n])
        /\ At([tbl EXCEPT ![p] = n]) = [At(tbl) EXCEPT ![n.key] = n]
    BY ONLY <1>2, <2>1, Distinct(tbl), tbl \in Seq(Node), n \in Node, AtReplaced
  <2> QED
    BY <2>2
<1> QED
  BY <1>1, <1>3, <1>4 DEF Becomes

LEMMA SetToBecomes ==
  ASSUME NEW tbl \in Seq(Node), NEW k \in Keys, NEW o \in Object
  PROVE  \E e \in Nat : Becomes(SetTo(tbl, k, o), tbl, [At(tbl) EXCEPT ![k] = NodeOf(k, o, e)])
<1>1. PICK i : i = Find(tbl, k)
  OBVIOUS
<1>2. CASE i = 0
  <2>1. SetTo(tbl, k, o) = Added(tbl, k, o, DefaultExpiry)
    BY <1>1, <1>2 DEF SetTo
  <2>2. DefaultExpiry \in Nat
    BY PersistenceAssumption
  <2> QED
    BY <1>1, <1>2, <2>1, <2>2, AddedBecomes
<1>3. CASE i # 0
  <2>1. i \in 1..Len(tbl) /\ tbl[i] \in Node /\ tbl[i].key = k
    BY <1>1, <1>3, FindIs
  <2>2. PICK e : e = tbl[i].exp
    OBVIOUS
  <2>3. NodeOf(k, o, e) \in Node /\ NodeOf(k, o, e).key = k /\ e \in Nat
    BY <2>1, <2>2 DEF Node, NodeOf
  <2>4. [tbl[i] EXCEPT !.obj = o] = NodeOf(k, o, e)
    BY <2>1, <2>2 DEF Node, NodeOf
  <2>5. SetTo(tbl, k, o) = [tbl EXCEPT ![i] = NodeOf(k, o, e)]
    BY <1>1, <1>3, <2>1, <2>4 DEF SetTo
  <2> QED
    BY <1>1, <1>3, <2>3, <2>5, ReplacedBecomes
<1> QED
  BY <1>2, <1>3

LEMMA SetUntilBecomes ==
  ASSUME NEW tbl \in Seq(Node), NEW k \in Keys, NEW o \in Object, NEW e \in Nat
  PROVE  Becomes(SetUntil(tbl, k, o, e), tbl, [At(tbl) EXCEPT ![k] = NodeOf(k, o, e)])
<1>1. PICK i : i = Find(tbl, k)
  OBVIOUS
<1>2. CASE i = 0
  <2>1. SetUntil(tbl, k, o, e) = Added(tbl, k, o, e)
    BY <1>1, <1>2 DEF SetUntil
  <2> QED
    BY <1>1, <1>2, <2>1, AddedBecomes
<1>3. CASE i # 0
  <2>1. i \in 1..Len(tbl) /\ tbl[i] \in Node /\ tbl[i].key = k
    BY <1>1, <1>3, FindIs
  <2>3. NodeOf(k, o, e) \in Node /\ NodeOf(k, o, e).key = k
    BY DEF Node, NodeOf
  <2>4. [[tbl[i] EXCEPT !.obj = o] EXCEPT !.exp = e] = NodeOf(k, o, e)
    <3>1. \A n \in Node : n = [key |-> n.key, obj |-> n.obj, exp |-> n.exp]
      BY DEF Node
    <3>2. PICK q, x : q = tbl[i].obj /\ x = tbl[i].exp
      OBVIOUS
    <3>3. tbl[i] = [key |-> k, obj |-> q, exp |-> x]
      BY <2>1, <3>1, <3>2
    <3>4. [tbl[i] EXCEPT !.obj = o] = [key |-> k, obj |-> o, exp |-> x]
      BY ONLY <3>3
    <3>5. PICK y : y = [tbl[i] EXCEPT !.obj = o]
      OBVIOUS
    <3>6. [y EXCEPT !.exp = e] = [key |-> k, obj |-> o, exp |-> e]
      <4>1. y = [key |-> k, obj |-> o, exp |-> x]
        BY ONLY <3>4, <3>5
      <4>2. y \in Node
        BY <2>1, <3>2, <4>1 DEF Node
      <4>3. [y EXCEPT !.exp = e] \in Node
        BY ONLY <4>2, e \in Nat DEF Node
      <4>4. [y EXCEPT !.exp = e].key = k /\ [y EXCEPT !.exp = e].obj = o /\ [y EXCEPT !.exp = e].exp = e
        BY ONLY <4>1
      <4> QED
        BY <3>1, <4>3, <4>4
    <3> QED
      BY ONLY <3>5, <3>6 DEF NodeOf
  <2>5. SetUntil(tbl, k, o, e) = [tbl EXCEPT ![i] = NodeOf(k, o, e)]
    BY <1>1, <1>3, <2>1, <2>4 DEF SetUntil
  <2> QED
    BY <1>1, <1>3, <2>3, <2>5, ReplacedBecomes
<1> QED
  BY <1>2, <1>3

(* An expired node is as good as none.                                     *)
Fresh(n) == IF n # NULL /\ Expired(n) THEN NULL ELSE n

LEMMA GotIs ==
  ASSUME NEW tbl \in Seq(Node), NEW k \in Keys
  PROVE  /\ Got(tbl, k) \in Object \cup {NULL}
         /\ Got(tbl, k) = IF Fresh(At(tbl)[k]) = NULL THEN NULL ELSE At(tbl)[k].obj
<1>1. /\ At(tbl)[k] = NULL <=> Find(tbl, k) = 0
      /\ At(tbl)[k] # NULL => At(tbl)[k] = tbl[Find(tbl, k)] /\ At(tbl)[k] \in Node
  BY AtIs
<1>2. Got(tbl, k) = IF Fresh(At(tbl)[k]) = NULL THEN NULL ELSE At(tbl)[k].obj
  BY <1>1 DEF Got, Fresh
<1>3. At(tbl)[k] # NULL => At(tbl)[k].obj \in Object
  BY <1>1, NodesAre
<1> QED
  BY <1>2, <1>3 DEF Fresh

LEMMA PurgedBecomes ==
  ASSUME NEW tbl \in Seq(Node), NEW k \in Keys
  PROVE  Becomes(Purged(tbl, k), tbl, [At(tbl) EXCEPT ![k] = Fresh(@)])
<1>1. /\ At(tbl)[k] = NULL <=> Find(tbl, k) = 0
      /\ At(tbl)[k] # NULL => At(tbl)[k] = tbl[Find(tbl, k)]
      /\ At(tbl) \in [Keys -> Node \cup {NULL}]
  BY AtIs
<1>2. CASE Find(tbl, k) # 0 /\ Expired(tbl[Find(tbl, k)])
  <2>1. Purged(tbl, k) = RemoveAt(tbl, Find(tbl, k))
    BY <1>2 DEF Purged
  <2>2. Fresh(At(tbl)[k]) = NULL
    BY <1>1, <1>2 DEF Fresh
  <2>3. [At(tbl) EXCEPT ![k] = Fresh(@)] = [At(tbl) EXCEPT ![k] = NULL]
    BY <2>2
  <2> QED
    BY <1>2, <2>1, <2>3, RemovedBecomes
<1>3. CASE ~(Find(tbl, k) # 0 /\ Expired(tbl[Find(tbl, k)]))
  <2>1. Purged(tbl, k) = tbl
    BY <1>3 DEF Purged
  <2>2. Fresh(At(tbl)[k]) = At(tbl)[k]
    BY <1>1, <1>3 DEF Fresh
  <2>3. [At(tbl) EXCEPT ![k] = Fresh(@)] = At(tbl)
    BY <1>1, <2>2
  <2> QED
    BY <2>1, <2>3 DEF Becomes
<1> QED
  BY <1>2, <1>3

(* The scores a ZADD leaves at k.                                          *)
Scored(tbl, k, m, s) ==
  [(IF Got(tbl, k) = NULL THEN NoMember ELSE Got(tbl, k).score) EXCEPT ![m] = s]

LEMMA WithScoreBecomes ==
  ASSUME NEW tbl \in Seq(Node), NEW k \in Keys, NEW m \in Members, NEW s \in Scores \cup {NULL},
         Got(tbl, k) = NULL \/ IsZset(Got(tbl, k))
  PROVE  /\ Scored(tbl, k, m, s) \in [Members -> Scores \cup {NULL}]
         /\ \E e \in Nat :
              Becomes(WithScore(tbl, k, m, s), tbl,
                      [At(tbl) EXCEPT ![k] = NodeOf(k, Zset(Scored(tbl, k, m, s)), e)])
<1>1. PICK f : f = Scored(tbl, k, m, s)
  OBVIOUS
<1>2. f \in [Members -> Scores \cup {NULL}]
  <2>1. Got(tbl, k) \in Object \cup {NULL}
    BY GotIs
  <2>2. PICK g : g = IF Got(tbl, k) = NULL THEN NoMember ELSE Got(tbl, k).score
    OBVIOUS
  <2>3. g \in [Members -> Scores \cup {NULL}]
    BY <2>1, <2>2, ObjectsAre
  <2> QED
    BY <1>1, <2>2, <2>3 DEF Scored
<1>3. Zset(f) \in Object
  BY <1>2, ObjectsAre
<1>4. WithScore(tbl, k, m, s) = SetTo(Purged(tbl, k), k, Zset(f))
  BY <1>1 DEF WithScore, Scored
<1>5. PICK p : p = Purged(tbl, k)
  OBVIOUS
<1>6. Becomes(p, tbl, [At(tbl) EXCEPT ![k] = Fresh(@)])
  BY <1>5, PurgedBecomes
<1>7. p \in Seq(Node)
  BY <1>6 DEF Becomes
<1>8. PICK e \in Nat : Becomes(SetTo(p, k, Zset(f)), p, [At(p) EXCEPT ![k] = NodeOf(k, Zset(f), e)])
  BY <1>3, <1>7, SetToBecomes
<1>9. At(tbl) \in [Keys -> Node \cup {NULL}]
  BY AtIs
<1>10. ASSUME Distinct(tbl)
       PROVE  [At(p) EXCEPT ![k] = NodeOf(k, Zset(f), e)] = [At(tbl) EXCEPT ![k] = NodeOf(k, Zset(f), e)]
  <2>1. At(p) = [At(tbl) EXCEPT ![k] = Fresh(@)]
    BY <1>6, <1>10 DEF Becomes
  <2> QED
    BY <1>9, <2>1
<1>11. Becomes(SetTo(p, k, Zset(f)), tbl, [At(tbl) EXCEPT ![k] = NodeOf(k, Zset(f), e)])
  BY <1>6, <1>8, <1>10 DEF Becomes
<1> QED
  BY <1>1, <1>2, <1>4, <1>5, <1>11

-----------------------------------------------------------------------------
(* The rows of a table                                                     *)

WithScores(f) == {m \in Members : f[m] # NULL}

LinesUp(s, S) ==
  /\ s \in Seq(S)
  /\ \A i, j \in 1..Len(s) : s[i] = s[j] => i = j
  /\ \A m \in S : \E i \in 1..Len(s) : s[i] = m

(* Every member with a score is linked, and once.                          *)
LEMMA LinkedIs ==
  ASSUME NEW f, NEW s \in Linked(f)
  PROVE  LinesUp(s, WithScores(f))
<1>0. PICK S : S = WithScores(f)
  OBVIOUS
<1>1. IsFiniteSet(S)
  <2>1. IsFiniteSet(Members) /\ S \in SUBSET Members
    BY <1>0, PersistenceAssumption DEF WithScores
  <2> QED
    BY ONLY <2>1, FS_Subset
<1>2. PICK N : N = Cardinality(S)
  OBVIOUS
<1>3. N \in Nat
  BY ONLY <1>1, <1>2, FS_CardinalityType
<1>4. s \in Bijection(1..N, S)
  BY <1>0, <1>2 DEF Linked, WithScores
<1>5. /\ s \in [1..N -> S]
      /\ \A i, j \in 1..N : s[i] = s[j] => i = j
      /\ \A m \in S : \E i \in 1..N : s[i] = m
  BY ONLY <1>4 DEF Bijection, Injection, IsInjective, Surjection
<1>6. s \in Seq(S) /\ Len(s) = N
  BY ONLY <1>3, <1>5
<1>7. LinesUp(s, S)
  BY ONLY <1>5, <1>6 DEF LinesUp
<1> QED
  BY <1>0, <1>7

(* What makes a row.                                                       *)
IsRowOf(r, n) ==
  \/ /\ n.obj.type = "string"
     /\ r = [key |-> n.key, type |-> "string", val |-> n.obj.val, exp |-> n.exp]
  \/ /\ n.obj.type = "bitmap"
     /\ r = [key |-> n.key, type |-> "bitmap", words |-> n.obj.words]
  \/ /\ n.obj.type = "zset"
     /\ \E m \in Members : n.obj.score[m] # NULL /\ r = MemberRow(n, m)

(* Two rows of one key are those of two members.                           *)
Apart(rows) ==
  \A i, j \in 1..Len(rows) :
    i # j /\ rows[i].key = rows[j].key =>
      rows[i].type = "zset" /\ rows[j].type = "zset" /\ rows[i].member # rows[j].member

LEMMA RowIs ==
  ASSUME NEW n \in Node, NEW r, IsRowOf(r, n)
  PROVE  r \in Row /\ r.key = n.key /\ r.type = n.obj.type
<1>1. n.key \in Keys /\ n.obj \in Object /\ n.exp \in Nat
  BY NodesAre
<1>2. CASE n.obj.type = "string"
  <2>1. n.obj.val \in Strings \cup {Garbage}
    BY <1>1, <1>2, ObjectsAre
  <2> QED
    BY <1>1, <1>2, <2>1 DEF Row, IsRowOf
<1>3. CASE n.obj.type = "bitmap"
  <2>1. n.obj.words \in Contents
    BY <1>1, <1>3, ObjectsAre
  <2> QED
    BY <1>1, <1>3, <2>1 DEF Row, IsRowOf
<1>4. CASE n.obj.type = "zset"
  <2>1. n.obj.score \in [Members -> Scores \cup {NULL}]
    BY <1>1, <1>4, ObjectsAre, PersistenceAssumption DEF IsZset
  <2>2. PICK m \in Members : n.obj.score[m] # NULL /\ r = MemberRow(n, m)
    BY <1>4 DEF IsRowOf
  <2> QED
    BY <1>1, <1>4, <2>1, <2>2 DEF Row, MemberRow
<1> QED
  BY <1>1, <1>2, <1>3, <1>4, ObjectsAre

LEMMA RowsOfIs ==
  ASSUME NEW n \in Node, NEW q \in RowsOf(n)
  PROVE  /\ q \in Seq(Row)
         /\ \A i \in 1..Len(q) : IsRowOf(q[i], n)
         /\ \A r : IsRowOf(r, n) => \E i \in 1..Len(q) : q[i] = r
         /\ Apart(q)
<1>1. n.key \in Keys /\ n.obj \in Object /\ n.exp \in Nat
  BY NodesAre
<1>3. CASE n.obj.type \in {"string", "bitmap"}
  <2>1. PICK r : q = <<r>> /\ IsRowOf(r, n) /\ \A x : IsRowOf(x, n) => x = r
    <3>1. CASE n.obj.type = "string"
      <4>1. PICK r : r = [key |-> n.key, type |-> "string", val |-> n.obj.val, exp |-> n.exp]
        OBVIOUS
      <4>2. q = <<r>>
        BY <3>1, <4>1 DEF RowsOf
      <4>3. \A x : IsRowOf(x, n) <=> x = r
        BY <3>1, <4>1 DEF IsRowOf
      <4> QED
        BY <4>2, <4>3
    <3>2. CASE n.obj.type = "bitmap"
      <4>1. PICK r : r = [key |-> n.key, type |-> "bitmap", words |-> n.obj.words]
        OBVIOUS
      <4>2. q = <<r>>
        BY <3>2, <4>1 DEF RowsOf
      <4>3. \A x : IsRowOf(x, n) <=> x = r
        BY <3>2, <4>1 DEF IsRowOf
      <4> QED
        BY <4>2, <4>3
    <3> QED
      BY <1>3, <3>1, <3>2
  <2>2. r \in Row
    BY <2>1, RowIs
  <2>3. q \in Seq(Row) /\ Len(q) = 1 /\ q[1] = r
    BY <2>1, <2>2
  <2>4. Apart(q)
    BY <2>3 DEF Apart
  <2>5. \A i \in 1..Len(q) : q[i] = r
    BY <2>3
  <2>6. \A i \in 1..Len(q) : IsRowOf(q[i], n)
    BY <2>1, <2>5
  <2>7. \A x : IsRowOf(x, n) => \E i \in 1..Len(q) : q[i] = x
    <3>1. 1 \in 1..Len(q)
      BY <2>3
    <3> QED
      BY <2>1, <2>3, <3>1
  <2> QED
    BY <2>3, <2>4, <2>6, <2>7
<1>4. CASE n.obj.type = "zset"
  <2>1. n.obj.score \in [Members -> Scores \cup {NULL}]
    BY <1>1, <1>4, ObjectsAre, PersistenceAssumption DEF IsZset
  <2>2. PICK f : f = n.obj.score
    OBVIOUS
  <2>3. PICK s \in Linked(f) : q = [i \in DOMAIN s |-> MemberRow(n, s[i])]
    BY <1>4, <2>2 DEF RowsOf, MemberRows
  <2>4. PICK S : S = WithScores(f)
    OBVIOUS
  <2>5. /\ s \in Seq(S)
        /\ \A i, j \in 1..Len(s) : s[i] = s[j] => i = j
        /\ \A m \in S : \E i \in 1..Len(s) : s[i] = m
    <3>1. LinesUp(s, S)
      BY <2>4, LinkedIs
    <3> QED
      BY <3>1 DEF LinesUp
  <2>6. q = [i \in 1..Len(s) |-> MemberRow(n, s[i])]
    BY <2>3, <2>5
  <2>7. \A i \in 1..Len(s) : s[i] \in S
    BY <2>5
  <2>8. \A m \in S : m \in Members /\ n.obj.score[m] # NULL
    BY <2>2, <2>4 DEF WithScores
  <2>9. \A m \in S : IsRowOf(MemberRow(n, m), n)
    BY <1>4, <2>8 DEF IsRowOf
  <2>10. \A i \in 1..Len(s) : IsRowOf(MemberRow(n, s[i]), n) /\ MemberRow(n, s[i]) \in Row
    <3> TAKE i \in 1..Len(s)
    <3>1. IsRowOf(MemberRow(n, s[i]), n)
      BY <2>7, <2>9
    <3> QED
      BY <3>1, RowIs
  <2>11. Len(s) \in Nat
    BY <2>5
  <2>12. q \in Seq(Row) /\ Len(q) = Len(s) /\ \A i \in 1..Len(q) : q[i] = MemberRow(n, s[i])
    <3>1. q \in [1..Len(s) -> Row]
      BY <2>6, <2>10
    <3>2. q \in Seq(Row) /\ Len(q) = Len(s)
      BY <2>6, <2>11, <3>1
    <3> QED
      BY <2>6, <3>2
  <2>13. ASSUME NEW r, IsRowOf(r, n)
         PROVE  \E i \in 1..Len(q) : q[i] = r
    <3>1. PICK m \in Members : n.obj.score[m] # NULL /\ r = MemberRow(n, m)
      BY <1>4, <2>13 DEF IsRowOf
    <3>2. m \in S
      BY <2>2, <2>4, <3>1 DEF WithScores
    <3>3. PICK i \in 1..Len(s) : s[i] = m
      BY <2>5, <3>2
    <3> QED
      BY <2>12, <3>1, <3>3
  <2>14. Apart(q)
    <3>1. \A m \in S : MemberRow(n, m).type = "zset" /\ MemberRow(n, m).member = m
      BY DEF MemberRow
    <3> QED
      BY <2>5, <2>7, <2>12, <3>1 DEF Apart
  <2> QED
    BY <2>10, <2>12, <2>13, <2>14
<1> QED
  BY <1>1, <1>3, <1>4, ObjectsAre

LEMMA FlattenIs ==
  ASSUME NEW D, NEW parts \in Seq(Seq(D))
  PROVE  \E at : IsLayout(at, parts) /\ IsJoined(FlattenSeq(parts), at, parts, D)
<1>1. PICK N \in Nat : N = Len(parts) /\ \A i \in 1..N : parts[i] \in Seq(D)
  OBVIOUS
<1>2. PICK f : IsChain(f, parts, D)
  BY ChainExists
<1>3. f \in [0..N -> Seq(D)] /\ f[0] = <<>> /\ \A i \in 1..N : f[i] = f[i - 1] \o parts[i]
  BY <1>1, <1>2 DEF IsChain
<1>4. FlattenSeq(parts) = f[N]
  <2>1. CASE N = 0
    <3>1. FlattenSeq(parts) = parts
      BY <1>1, <2>1 DEF FlattenSeq
    <3>2. parts = <<>>
      <4>1. parts \in Seq(Seq(D)) /\ Len(parts) = 0
        BY <1>1, <2>1
      <4> QED
        BY ONLY <4>1, EmptySeq
    <3> QED
      BY <1>3, <2>1, <3>1, <3>2
  <2>2. CASE N # 0
    <3> DEFINE cat(s, i) == s \o parts[i]
               all == CHOOSE g : g = [i \in 1..N |-> IF i = 1 THEN parts[i] ELSE cat(g[i - 1], i)]
    <3>1. FlattenSeq(parts) = all[N]
      BY <1>1, <2>2 DEF FlattenSeq, cat
    <3>2. f[1] = parts[1]
      <4>1. 1 \in 1..N
        BY <1>1, <2>2
      <4>2. parts[1] \in Seq(D)
        BY <1>1, <4>1
      <4>3. PICK i : i = 1
        OBVIOUS
      <4>4. f[i] = f[i - 1] \o parts[i] /\ i - 1 = 0
        <5>1. i \in 1..N /\ i - 1 = 0
          BY ONLY <4>1, <4>3
        <5>2. \A j \in 1..N : f[j] = f[j - 1] \o parts[j]
          BY ONLY <1>3
        <5>3. f[i] = f[i - 1] \o parts[i]
          BY ONLY <5>1, <5>2
        <5> QED
          BY ONLY <5>1, <5>3
      <4>5. f[1] = <<>> \o parts[1]
        BY <1>3, <4>3, <4>4
      <4> QED
        BY ONLY <4>2, <4>5
    <3>3. \A i \in 1..N : f[i] = cat(f[i - 1], i)
      BY <1>3
    <3> HIDE DEF cat
    <3>4. PICK h : h = [i \in 1..N |-> f[i]]
      OBVIOUS
    <3>5. h = [i \in 1..N |-> IF i = 1 THEN parts[i] ELSE cat(h[i - 1], i)]
      <4>1. ASSUME NEW i \in 1..N
            PROVE  f[i] = IF i = 1 THEN parts[i] ELSE cat(h[i - 1], i)
        <5>1. CASE i = 1
          BY <3>2, <5>1
        <5>2. CASE i # 1
          <6>1. i - 1 \in 1..N
            BY <5>2
          <6> QED
            BY <3>3, <3>4, <5>2, <6>1
        <5> QED
          BY <5>1, <5>2
      <4> QED
        BY <3>4, <4>1
    <3>6. all = [i \in 1..N |-> IF i = 1 THEN parts[i] ELSE cat(all[i - 1], i)]
      BY <3>5
    <3> HIDE DEF all
    <3> DEFINE T == {i \in 0..N : i = 0 \/ all[i] = f[i]}
    <3>7. 0 \in T
      BY <1>1
    <3>8. ASSUME NEW i \in 1..N, i - 1 \in T
          PROVE  i \in T
      <4>1. CASE i = 1
        BY <3>2, <3>6, <4>1
      <4>2. CASE i # 1
        <5>1. all[i - 1] = f[i - 1]
          BY <3>8, <4>2
        <5>2. all[i] = cat(all[i - 1], i)
          BY <3>6, <4>2
        <5> QED
          BY <3>3, <5>1, <5>2
      <4> QED
        BY <4>1, <4>2
    <3>9. \A i \in 0..N : i \in T
      <4> HIDE DEF T
      <4> QED
        BY <1>1, <3>7, <3>8, UpTo
    <3> QED
      BY <1>1, <2>2, <3>1, <3>9
  <2> QED
    BY <2>1, <2>2
<1>5. FlattenSeq(parts) = f[Len(parts)]
  BY <1>1, <1>4
<1> QED
  BY <1>2, <1>5, ChainIs

LEMMA RowsIs ==
  ASSUME NEW tbl \in Seq(Node), NEW q \in Rows(tbl)
  PROVE  /\ q \in Seq(Row)
         /\ Distinct(tbl) =>
              /\ \A x \in 1..Len(q) :
                   At(tbl)[q[x].key] # NULL /\ IsRowOf(q[x], At(tbl)[q[x].key])
              /\ \A k \in Keys : At(tbl)[k] # NULL =>
                   \A r : IsRowOf(r, At(tbl)[k]) => \E x \in 1..Len(q) : q[x] = r
              /\ Apart(q)
<1>1. PICK N \in Nat : N = Len(tbl) /\ DOMAIN tbl = 1..N /\ \A i \in 1..N : tbl[i] \in Node
  OBVIOUS
<1>2. PICK parts : /\ q = FlattenSeq(parts) /\ DOMAIN parts = 1..N
                   /\ parts = [i \in DOMAIN parts |-> parts[i]]
                   /\ \A i \in 1..N : parts[i] \in RowsOf(tbl[i])
  <2>1. PICK U : U = UNION {RowsOf(n) : n \in ToSet(tbl)}
    OBVIOUS
  <2>2. PICK parts \in [DOMAIN tbl -> U] :
          q = FlattenSeq(parts) /\ \A i \in DOMAIN tbl : parts[i] \in RowsOf(tbl[i])
    BY <2>1 DEF Rows
  <2> QED
    BY <1>1, <2>2
<1>4. \A i \in 1..N : /\ parts[i] \in Seq(Row) /\ Len(parts[i]) \in Nat
                      /\ \A j \in 1..Len(parts[i]) : IsRowOf(parts[i][j], tbl[i])
                      /\ \A r : IsRowOf(r, tbl[i]) => \E j \in 1..Len(parts[i]) : parts[i][j] = r
                      /\ Apart(parts[i])
  <2> TAKE i \in 1..N
  <2>1. PICK n \in Node : n = tbl[i]
    BY <1>1
  <2>2. PICK p \in RowsOf(n) : p = parts[i]
    BY <1>2, <2>1
  <2>3. /\ p \in Seq(Row) /\ Apart(p)
        /\ \A j \in 1..Len(p) : IsRowOf(p[j], n)
        /\ \A r : IsRowOf(r, n) => \E j \in 1..Len(p) : p[j] = r
    BY RowsOfIs
  <2>4. Len(p) \in Nat
    BY <2>3
  <2> QED
    BY ONLY <2>1, <2>2, <2>3, <2>4
<1>5. parts \in Seq(Seq(Row)) /\ Len(parts) = N
  <2>1. parts \in [1..N -> Seq(Row)]
    BY <1>2, <1>4
  <2> QED
    BY <2>1
<1>7. PICK at : IsLayout(at, parts) /\ IsJoined(q, at, parts, Row)
  BY <1>2, <1>5, FlattenIs
<1>8. /\ at \in [0..N -> Nat] /\ q \in Seq(Row) /\ Len(q) = at[N]
      /\ \A i \in 1..N : at[i] = at[i - 1] + Len(parts[i])
      /\ \A i \in 1..N : \A j \in 1..Len(parts[i]) : q[at[i - 1] + j] = parts[i][j]
  BY <1>5, <1>7 DEF IsLayout, IsJoined
<1>9. ASSUME NEW x \in 1..Len(q)
      PROVE  \E i \in 1..N : \E j \in 1..Len(parts[i]) : x = at[i - 1] + j /\ q[x] = parts[i][j]
  <2>1. Len(parts) \in Nat /\ \A i \in 1..Len(parts) : Len(parts[i]) \in Nat
    BY <1>4, <1>5
  <2>2. x \in 1..at[Len(parts)]
    BY <1>5, <1>8
  <2>3. IsInPart(x, at, parts)
    BY ONLY <1>7, <2>1, <2>2, InPart
  <2> QED
    BY <1>5, <1>8, <2>3 DEF IsInPart
<1>10. ASSUME NEW i \in 1..N, NEW j \in 1..Len(parts[i])
       PROVE  parts[i][j].key = tbl[i].key
  BY <1>1, <1>4, RowIs
<1>11. ASSUME Distinct(tbl)
       PROVE  /\ \A x \in 1..Len(q) : At(tbl)[q[x].key] # NULL /\ IsRowOf(q[x], At(tbl)[q[x].key])
              /\ \A k \in Keys : At(tbl)[k] # NULL =>
                   \A r : IsRowOf(r, At(tbl)[k]) => \E x \in 1..Len(q) : q[x] = r
              /\ Apart(q)
  <2>1. ASSUME NEW x \in 1..Len(q)
        PROVE  At(tbl)[q[x].key] # NULL /\ IsRowOf(q[x], At(tbl)[q[x].key])
    <3>1. PICK i \in 1..N : \E j \in 1..Len(parts[i]) : x = at[i - 1] + j /\ q[x] = parts[i][j]
      BY <1>9
    <3>2. IsRowOf(q[x], tbl[i]) /\ q[x].key = tbl[i].key
      BY <1>4, <1>10, <3>1
    <3>3. tbl[i].key \in Keys /\ tbl[i] \in Node
      BY <1>1, NodesAre
    <3>4. At(tbl)[tbl[i].key] = tbl[i]
      BY <1>1, <1>11, <3>3, AtIs
    <3> QED
      BY <3>2, <3>3, <3>4, PersistenceAssumption
  <2>2. ASSUME NEW k \in Keys, At(tbl)[k] # NULL, NEW r, IsRowOf(r, At(tbl)[k])
        PROVE  \E x \in 1..Len(q) : q[x] = r
    <3>1. PICK i \in 1..N : At(tbl)[k] = tbl[i]
      BY <1>1, <2>2, AtIs
    <3>2. PICK j \in 1..Len(parts[i]) : parts[i][j] = r
      BY <1>4, <2>2, <3>1
    <3>3. q[at[i - 1] + j] = r
      BY <1>8, <3>2
    <3>4. at[i] <= at[N]
      <4>1. i \in 0..Len(parts) /\ N \in 0..Len(parts) /\ i <= N /\ Len(parts) \in Nat
        BY <1>5
      <4>2. \A l \in 1..Len(parts) : Len(parts[l]) \in Nat
        BY <1>4, <1>5
      <4> QED
        BY ONLY <1>7, <4>1, <4>2, LayoutGrows
    <3>5. PICK a, b, l, x : a = at[i - 1] /\ b = at[i] /\ l = Len(parts[i]) /\ x = Len(q)
      OBVIOUS
    <3>6. a \in Nat /\ l \in Nat /\ b = a + l /\ x \in Nat /\ b <= x /\ j \in 1..l
      BY <1>4, <1>8, <3>4, <3>5
    <3>7. a + j \in 1..x
      BY ONLY <3>6
    <3> QED
      BY <3>3, <3>5, <3>7
  <2>3. ASSUME NEW x \in 1..Len(q), NEW y \in 1..Len(q), x # y, q[x].key = q[y].key
        PROVE  q[x].type = "zset" /\ q[y].type = "zset" /\ q[x].member # q[y].member
    <3>1. PICK i \in 1..N : \E j \in 1..Len(parts[i]) : x = at[i - 1] + j /\ q[x] = parts[i][j]
      BY <1>9
    <3>2. PICK h \in 1..N : \E j \in 1..Len(parts[h]) : y = at[h - 1] + j /\ q[y] = parts[h][j]
      BY <1>9
    <3>3. tbl[i].key = tbl[h].key
      BY <1>10, <2>3, <3>1, <3>2
    <3>4. i = h
      BY <1>1, <1>11, <3>3 DEF Distinct
    <3>5. PICK j \in 1..Len(parts[i]) : x = at[i - 1] + j /\ q[x] = parts[i][j]
      BY <3>1
    <3>6. PICK g \in 1..Len(parts[i]) : y = at[i - 1] + g /\ q[y] = parts[i][g]
      BY <3>2, <3>4
    <3>7. j # g
      BY <2>3, <3>5, <3>6
    <3>8. Apart(parts[i]) /\ parts[i][j].key = parts[i][g].key
      BY <1>4, <1>10
    <3> QED
      BY <3>5, <3>6, <3>7, <3>8 DEF Apart
  <2> QED
    BY <2>1, <2>2, <2>3 DEF Apart
<1> QED
  BY <1>8, <1>11

-----------------------------------------------------------------------------
(* What rows are read back as                                              *)

LEMMA RowFields ==
  \A r \in Row :
    /\ r.key \in Keys /\ r.type \in {"string", "bitmap", "zset"}
    /\ r.type = "string" => r.val \in Strings \cup {Garbage} /\ r.exp \in Nat
    /\ r.type = "bitmap" => r.words \in Contents
    /\ r.type = "zset" => r.member \in Members /\ r.score \in Scores
BY DEF Row

ReadScores(rows, k) ==
  LET S == {i \in DOMAIN rows : rows[i].key = k}
  IN [m \in Members |-> LET T == {i \in S : rows[i].member = m}
                        IN IF T = {} THEN NULL ELSE Reread[rows[CHOOSE i \in T : TRUE].score]]

Read(rows) ==
  [k \in Keys |->
     LET S == {i \in DOMAIN rows : rows[i].key = k}
         r == rows[CHOOSE i \in S : TRUE]
     IN IF S = {} THEN NULL
        ELSE IF r.type = "string" THEN [type |-> "string", val |-> r.val, exp |-> r.exp]
        ELSE IF r.type = "bitmap" THEN Bitmap(r.words)
        ELSE Zset(ReadScores(rows, k))]

LEMMA DiskIs == disk = Read(IF pc \in {"save", "exit"} THEN kept ELSE file)
BY DEF disk, Read, ReadScores

(* What a row says of its key.                                             *)
Says(r, rows) ==
  IF r.type = "string" THEN [type |-> "string", val |-> r.val, exp |-> r.exp]
  ELSE IF r.type = "bitmap" THEN Bitmap(r.words)
  ELSE Zset(ReadScores(rows, r.key))

LEMMA ReadIs ==
  ASSUME NEW rows \in Seq(Row), Apart(rows), NEW k \in Keys
  PROVE  /\ (\A i \in 1..Len(rows) : rows[i].key # k) => Read(rows)[k] = NULL
         /\ \A i \in 1..Len(rows) : rows[i].key = k => Read(rows)[k] = Says(rows[i], rows)
<1>1. PICK N \in Nat : N = Len(rows) /\ DOMAIN rows = 1..N /\ \A i \in 1..N : rows[i] \in Row
  OBVIOUS
<1> DEFINE S == {i \in 1..N : rows[i].key = k}
<1>2. PICK c : c = CHOOSE i \in S : TRUE
  OBVIOUS
<1>3. Read(rows)[k] = IF S = {} THEN NULL
                      ELSE IF rows[c].type = "string"
                      THEN [type |-> "string", val |-> rows[c].val, exp |-> rows[c].exp]
                      ELSE IF rows[c].type = "bitmap" THEN Bitmap(rows[c].words)
                      ELSE Zset(ReadScores(rows, k))
  BY <1>1, <1>2 DEF Read
<1>4. ASSUME NEW i \in 1..N, rows[i].key = k
      PROVE  Read(rows)[k] = Says(rows[i], rows)
  <2>1. c \in S /\ S # {}
    <3>1. S # {}
      BY <1>4
    <3> HIDE DEF S
    <3> QED
      BY <1>2, <3>1
  <2>2. CASE c = i
    BY <1>3, <1>4, <2>1, <2>2 DEF Says
  <2>3. CASE c # i
    <3>1. rows[c].type = "zset" /\ rows[i].type = "zset"
      BY <1>1, <1>4, <2>1, <2>3 DEF Apart
    <3> QED
      BY <1>3, <1>4, <2>1, <3>1 DEF Says
  <2> QED
    BY <2>2, <2>3
<1>5. (\A i \in 1..N : rows[i].key # k) => Read(rows)[k] = NULL
  BY <1>3
<1> QED
  BY <1>1, <1>4, <1>5

LEMMA ReadScoresIs ==
  ASSUME NEW rows \in Seq(Row), Apart(rows), NEW k \in Keys,
         NEW x \in 1..Len(rows), rows[x].key = k, rows[x].type = "zset"
  PROVE  /\ ReadScores(rows, k) \in [Members -> Scores \cup {NULL}]
         /\ \A i \in 1..Len(rows) : rows[i].key = k =>
              rows[i].type = "zset" /\ ReadScores(rows, k)[rows[i].member] = Reread[rows[i].score]
         /\ \A m \in Members :
              (\A i \in 1..Len(rows) : rows[i].key = k => rows[i].member # m) =>
                 ReadScores(rows, k)[m] = NULL
<1>1. PICK N \in Nat : N = Len(rows) /\ DOMAIN rows = 1..N /\ \A i \in 1..N : rows[i] \in Row
  OBVIOUS
<1>2. \A i \in 1..N : rows[i].key = k => rows[i].type = "zset"
  BY <1>1 DEF Apart
<1> DEFINE T(m) == {i \in {j \in 1..N : rows[j].key = k} : rows[i].member = m}
           c(m) == CHOOSE i \in T(m) : TRUE
<1>3. \A m \in Members :
        ReadScores(rows, k)[m] = IF T(m) = {} THEN NULL ELSE Reread[rows[c(m)].score]
  BY <1>1 DEF ReadScores
<1>4. \A i, j \in 1..N :
        rows[i].key = k /\ rows[j].key = k /\ rows[i].member = rows[j].member => i = j
  BY <1>1 DEF Apart
<1>5. \A m \in Members : T(m) # {} => c(m) \in T(m)
  <2> HIDE DEF T
  <2> QED
    OBVIOUS
<1>6. \A i \in 1..N : rows[i].key = k => rows[i].member \in Members /\ rows[i].score \in Scores
  BY <1>1, <1>2, RowFields
<1>7. ASSUME NEW i \in 1..N, rows[i].key = k
      PROVE  ReadScores(rows, k)[rows[i].member] = Reread[rows[i].score]
  <2>1. PICK m : m = rows[i].member
    OBVIOUS
  <2>2. m \in Members /\ T(m) # {}
    BY <1>6, <1>7, <2>1
  <2>3. c(m) \in T(m)
    BY <1>5, <2>2
  <2>4. c(m) = i
    <3>1. c(m) \in 1..N /\ rows[c(m)].key = k /\ rows[c(m)].member = m
      BY <2>3
    <3> HIDE DEF c
    <3> QED
      BY <1>4, <1>7, <2>1, <3>1
  <2> HIDE DEF c, T
  <2> QED
    BY <1>3, <2>1, <2>2, <2>4
<1>8. ASSUME NEW m \in Members, \A i \in 1..N : rows[i].key = k => rows[i].member # m
      PROVE  ReadScores(rows, k)[m] = NULL
  <2>1. T(m) = {}
    BY <1>8
  <2> HIDE DEF c, T
  <2> QED
    BY <1>3, <2>1
<1>9. Reread \in [Scores -> Scores \cup {NULL}]
  BY PersistenceAssumption
<1>10. \A m \in Members : ReadScores(rows, k)[m] \in Scores \cup {NULL}
  <2> TAKE m \in Members
  <2>1. CASE T(m) = {}
    <3> HIDE DEF c, T
    <3> QED
      BY <1>3, <2>1
  <2>2. CASE T(m) # {}
    <3>1. c(m) \in T(m)
      BY <1>5, <2>2
    <3>2. c(m) \in 1..N /\ rows[c(m)].key = k
      BY <3>1
    <3> HIDE DEF c, T
    <3>3. rows[c(m)].score \in Scores
      BY <1>6, <3>2
    <3> QED
      BY <1>3, <1>9, <2>2, <3>3
  <2> QED
    BY <2>1, <2>2
<1>11. ReadScores(rows, k) \in [Members -> Scores \cup {NULL}]
  BY <1>10 DEF ReadScores
<1> QED
  BY <1>1, <1>2, <1>7, <1>8, <1>11

-----------------------------------------------------------------------------
(* The inductive invariant                                                 *)

Mapped(n) ==
  IF n = NULL \/ n.obj = Zset(NoMember) THEN NULL
  ELSE IF n.obj.type = "string" THEN [type |-> "string", val |-> n.obj.val, exp |-> n.exp]
  ELSE n.obj

View(F) == [k \in Keys |-> Mapped(F[k])]

(* Outside of a load the next row is the first; the key of an update holds *)
(* a sorted set.                                                           *)
Typed ==
  /\ TypeOK
  /\ pc \notin {"boot", "load"} => pos = 1
  /\ pc = "update" => IsZset(Got(table, op.key))

(* Only an update leaves a sorted set without members, for SIGINT to save. *)
Full == \A k \in Keys : At(table)[k] # NULL => At(table)[k].obj # Zset(NoMember)

(* Within an update the map differs from before in the member that is out, *)
(* or, when the member was missed, in nothing.                             *)
Updating ==
  /\ \A k \in Keys : k # op.key /\ At(table)[k] # NULL => At(table)[k].obj # Zset(NoMember)
  /\ IsZset(before[op.key])
  /\ At(table)[op.key] # NULL
  /\ \/ At(table)[op.key].obj = Zset([before[op.key].score EXCEPT ![op.member] = NULL])
     \/ Map[op.key] = before[op.key]
  /\ \A k \in Keys : k # op.key => Map[k] = before[k]

(* f is what the first p rows of the file say of the members at k.         *)
ScoresAre(f, k, p) ==
  /\ f \in [Members -> Scores \cup {NULL}]
  /\ \A i \in 1..p : file[i].key = k =>
       Reread[file[i].score] # NULL /\ f[file[i].member] = Reread[file[i].score]
  /\ \A m \in Members : (\A i \in 1..p : file[i].key = k => file[i].member # m) => f[m] = NULL

Origin(k) == IF pc = "load" THEN before[k] ELSE NULL

(* What is at k when the first p rows have been read: what row i of k says *)
(* has become of what was there.                                           *)
LoadedRow(k, i, p) ==
  CASE file[i].type = "string" ->
         \/ Map[k] = Origin(k) /\ file[i].exp < clock
         \/ Map[k] = Says(file[i], file) /\ Origin(k) = NULL
    [] file[i].type = "bitmap" -> Map[k] = Says(file[i], file)
    [] file[i].type = "zset" ->
         /\ Origin(k) = NULL \/ Promise!Expired(Origin(k))
         /\ \E f \in [Members -> Scores \cup {NULL}] : ScoresAre(f, k, p) /\ Map[k] = Zset(f)

LoadedKey(k, p) ==
  /\ (\A i \in 1..p : file[i].key # k) => Map[k] = Origin(k)
  /\ \A i \in 1..p : file[i].key = k => LoadedRow(k, i, p)

Sound ==
  /\ Distinct(table) /\ Apart(file)
  /\ pc = "down" => table = <<>>
  /\ pc \notin {"update", "exit"} => Full
  /\ pc = "update" => Updating
  /\ pc \in {"boot", "load"} => \A k \in Keys : LoadedKey(k, pos - 1)

IInv == Typed /\ (~broken => Sound)

-----------------------------------------------------------------------------
(* Types                                                                   *)

LEMMA AddedHas ==
  ASSUME NEW tbl \in Seq(Node), NEW k \in Keys, NEW o \in Object, NEW e \in Nat, Find(tbl, k) = 0
  PROVE  At(Added(tbl, k, o, e))[k] = NodeOf(k, o, e)
<1>1. PICK new : new = Added(tbl, k, o, e)
  OBVIOUS
<1>2. PICK L \in Nat : L = Len(tbl)
  OBVIOUS
<1>3. new \in Seq(Node) /\ \E p : IsInserted(new, tbl, p, NodeOf(k, o, e))
  BY <1>1, AddedIs DEF NodeOf
<1>4. PICK p : IsInserted(new, tbl, p, NodeOf(k, o, e))
  BY <1>3
<1>5. /\ p \in 1..(L + 1) /\ Len(new) = L + 1 /\ new[p] = NodeOf(k, o, e)
      /\ \A i \in 1..(p - 1) : new[i] = tbl[i]
      /\ \A i \in p..L : new[i + 1] = tbl[i]
  BY <1>2, <1>4 DEF IsInserted
<1>6. \A i \in 1..L : tbl[i].key # k
  BY <1>2, FindIs
<1>7. ASSUME NEW i \in 1..(L + 1), new[i].key = k
      PROVE  i = p
  <2>1. CASE i < p
    BY <1>5, <1>6, <1>7, <2>1
  <2>2. CASE i > p
    <3>1. PICK j : j = i - 1
      OBVIOUS
    <3>2. j \in p..L /\ j + 1 = i
      BY <1>5, <2>2, <3>1
    <3>3. j \in 1..L
      BY ONLY <1>5, <3>2, L \in Nat
    <3>4. new[j + 1] = tbl[j]
      BY ONLY <1>5, <3>2
    <3> QED
      BY <1>6, <1>7, <3>2, <3>3, <3>4
  <2> QED
    BY <1>5, <2>1, <2>2
<1>8. /\ Find(new, k) \in 0..(L + 1)
      /\ Find(new, k) = 0 => \A i \in 1..(L + 1) : new[i].key # k
      /\ Find(new, k) # 0 => new[Find(new, k)].key = k
  <2>1. new \in Seq(Node) /\ Len(new) = L + 1
    BY <1>3, <1>5
  <2>2. /\ Find(new, k) \in 0..Len(new)
        /\ Find(new, k) = 0 => \A i \in 1..Len(new) : new[i].key # k
        /\ Find(new, k) # 0 => new[Find(new, k)].key = k
    BY <2>1, FindIs
  <2> QED
    BY ONLY <2>1, <2>2
<1>9. new[p].key = k
  BY <1>5 DEF NodeOf
<1>10. Find(new, k) = p
  <2>1. Find(new, k) # 0
    BY <1>5, <1>8, <1>9
  <2> QED
    BY <1>7, <1>8, <2>1
<1>11. p # 0
  BY <1>5
<1> QED
  BY <1>1, <1>5, <1>10, <1>11 DEF At

LEMMA SetToHas ==
  ASSUME NEW tbl \in Seq(Node), NEW k \in Keys, NEW o \in Object
  PROVE  \E e \in Nat : At(SetTo(tbl, k, o))[k] = NodeOf(k, o, e)
<1>1. PICK i : i = Find(tbl, k)
  OBVIOUS
<1>2. CASE i = 0
  <2>1. SetTo(tbl, k, o) = Added(tbl, k, o, DefaultExpiry)
    BY <1>1, <1>2 DEF SetTo
  <2>2. DefaultExpiry \in Nat
    BY PersistenceAssumption
  <2> QED
    BY <1>1, <1>2, <2>1, <2>2, AddedHas
<1>3. CASE i # 0
  <2>1. i \in 1..Len(tbl) /\ tbl[i] \in Node /\ tbl[i].key = k
    BY <1>1, <1>3, FindIs
  <2>2. PICK e : e = tbl[i].exp
    OBVIOUS
  <2>3. e \in Nat
    BY <2>1, <2>2, NodesAre
  <2>4. [tbl[i] EXCEPT !.obj = o] = NodeOf(k, o, e)
    BY <2>1, <2>2 DEF Node, NodeOf
  <2>5. PICK new : new = SetTo(tbl, k, o)
    OBVIOUS
  <2>6. new = [tbl EXCEPT ![i] = NodeOf(k, o, e)]
    BY <1>1, <1>3, <2>1, <2>4, <2>5 DEF SetTo
  <2>7. Len(new) = Len(tbl) /\ \A j \in 1..Len(tbl) : new[j].key = tbl[j].key
    BY <2>1, <2>6 DEF NodeOf
  <2>8. {j \in 1..Len(new) : new[j].key = k} = {j \in 1..Len(tbl) : tbl[j].key = k}
    BY <2>7
  <2>9. Find(new, k) = i
    BY <1>1, <2>8 DEF Find, SelectInSeq
  <2>10. new[i] = NodeOf(k, o, e)
    BY <2>1, <2>6
  <2> QED
    BY <1>3, <2>3, <2>5, <2>9, <2>10 DEF At
<1> QED
  BY <1>2, <1>3

LEMMA WithScoreHas ==
  ASSUME NEW tbl \in Seq(Node), NEW k \in Keys, NEW m \in Members, NEW s \in Scores \cup {NULL},
         Got(tbl, k) = NULL \/ IsZset(Got(tbl, k))
  PROVE  /\ WithScore(tbl, k, m, s) \in Seq(Node)
         /\ Got(WithScore(tbl, k, m, s), k) = Zset(Scored(tbl, k, m, s))
<1>1. PICK f : f = Scored(tbl, k, m, s)
  OBVIOUS
<1>2. Zset(f) \in Object /\ WithScore(tbl, k, m, s) \in Seq(Node)
  BY <1>1, WithScoreBecomes, ObjectsAre DEF Becomes
<1>3. PICK p : p = Purged(tbl, k)
  OBVIOUS
<1>4. p \in Seq(Node)
  BY <1>3, PurgedBecomes DEF Becomes
<1>5. PICK new : new = WithScore(tbl, k, m, s)
  OBVIOUS
<1>6. new = SetTo(p, k, Zset(f))
  BY <1>1, <1>3, <1>5 DEF WithScore, Scored
<1>7. PICK e \in Nat : At(new)[k] = NodeOf(k, Zset(f), e)
  BY <1>2, <1>4, <1>6, SetToHas
<1>8. NodeOf(k, Zset(f), e) \in Node /\ ~Expired(NodeOf(k, Zset(f), e)) /\ NodeOf(k, Zset(f), e).obj = Zset(f)
  BY <1>2 DEF NodeOf, Node, Expired, Zset
<1>9. Fresh(At(new)[k]) # NULL /\ At(new)[k].obj = Zset(f)
  BY <1>7, <1>8, PersistenceAssumption DEF Fresh
<1> QED
  BY <1>1, <1>2, <1>5, <1>9, GotIs

LEMMA MappedIs ==
  /\ \A n \in Node \cup {NULL} : Mapped(n) \in Stored \cup {NULL}
  /\ NULL \notin Stored
  /\ \A o \in Stored : o.type \in {"string", "bitmap", "zset"}
<1>1. \A n \in Node : n.obj \in Object /\ n.exp \in Nat
  BY NodesAre
<1>2. \A o \in Object : o.type = "string" => o.val \in Strings \cup {Garbage}
  BY ObjectsAre
<1>3. \A n \in Node \cup {NULL} : Mapped(n) \in Stored \cup {NULL}
  BY <1>1, <1>2 DEF Mapped, Stored
<1>4. \A o \in Stored : o.type \in {"string", "bitmap", "zset"}
  BY ObjectsAre DEF Stored
<1> QED
  BY <1>3, <1>4, PersistenceAssumption

LEMMA ViewIs ==
  ASSUME NEW tbl \in Seq(Node)
  PROVE  /\ [k \in Keys |->
               LET i == Find(tbl, k)
                   n == tbl[i]
               IN IF i = 0 \/ n.obj = Zset(NoMember) THEN NULL
                  ELSE IF n.obj.type = "string"
                       THEN [type |-> "string", val |-> n.obj.val, exp |-> n.exp]
                       ELSE n.obj] = View(At(tbl))
         /\ View(At(tbl)) \in [Keys -> Stored \cup {NULL}]
<1>1. ASSUME NEW k \in Keys
      PROVE  (IF Find(tbl, k) = 0 \/ tbl[Find(tbl, k)].obj = Zset(NoMember) THEN NULL
              ELSE IF tbl[Find(tbl, k)].obj.type = "string"
              THEN [type |-> "string", val |-> tbl[Find(tbl, k)].obj.val, exp |-> tbl[Find(tbl, k)].exp]
              ELSE tbl[Find(tbl, k)].obj) = Mapped(At(tbl)[k])
  BY AtIs DEF Mapped
<1>2. At(tbl) \in [Keys -> Node \cup {NULL}]
  <2>1. PICK k : k \in Keys
    BY PersistenceAssumption
  <2> QED
    BY <2>1, AtIs
<1>3. View(At(tbl)) \in [Keys -> Stored \cup {NULL}]
  BY <1>2, MappedIs DEF View
<1> QED
  BY <1>1, <1>3 DEF View

LEMMA MapIs ==
  ASSUME table \in Seq(Node)
  PROVE  Map = View(At(table)) /\ Map \in [Keys -> Stored \cup {NULL}] /\ Map # NULL
<1>1. Map = View(At(table)) /\ Map \in [Keys -> Stored \cup {NULL}]
  BY ViewIs DEF Map
<1> QED
  BY <1>1, PersistenceAssumption

LEMMA MapAfter == table' \in Seq(Node) => Map' = View(At(table'))
BY ViewIs DEF Map

LEMMA Nothing ==
  /\ <<>> \in Seq(Node) /\ <<>> \in Seq(Row) /\ Len(<<>>) = 0 /\ 1 \in 1..(Len(<<>>) + 1)
<1>1. <<>> \in Seq(Node) /\ <<>> \in Seq(Row) /\ Len(<<>>) = 0
  OBVIOUS
<1> QED
  BY <1>1

LEMMA TypedInit == Init => Typed
<1> SUFFICES ASSUME Init PROVE Typed
  OBVIOUS
<1>1. 0 \in 0..MaxClock
  BY PersistenceAssumption
<1>2. pos \in 1..(Len(file) + 1)
  BY Nothing DEF Init
<1>3. table \in Seq(Node) /\ file \in Seq(Row) /\ kept \in Seq(Row)
  BY Nothing DEF Init
<1> QED
  BY <1>1, <1>2, <1>3 DEF Init, Typed, TypeOK

LEMMA ChangesTyped ==
  ASSUME Typed, pc = "idle", NEW tbl \in Seq(Node), Changes(tbl), pc' = pc, op' = op, before' = before
  PROVE  Typed'
BY DEF Typed, TypeOK, Changes

LEMMA DiesTyped ==
  ASSUME Typed, Dies, clock' = clock, file' \in Seq(Row), torn' \in BOOLEAN, broken' \in BOOLEAN
  PROVE  Typed'
BY DEF Typed, TypeOK, Dies

LEMMA NextRowTyped ==
  ASSUME Typed, pc \in {"boot", "load"}, pos <= Len(file), table' \in Seq(Node),
         NEW b \in BOOLEAN, NextRow(b)
  PROVE  Typed'
<1>1. pos' \in 1..(Len(file) + 1)
  BY DEF Typed, TypeOK, NextRow
<1> QED
  BY <1>1 DEF Typed, TypeOK, NextRow

LEMMA LoadEndsTyped ==
  ASSUME Typed, pc \in {"boot", "load"}, LoadEnds, table' \in Seq(Node), broken' \in BOOLEAN,
         clock' = clock, file' = file, torn' = torn, op' = op, kept' = kept
  PROVE  Typed'
<1>1. 1 \in 1..(Len(file) + 1) /\ op = NULL
  BY DEF Typed, TypeOK
<1> QED
  BY <1>1 DEF Typed, TypeOK, LoadEnds

LEMMA CommandTyped == Typed /\ Command => Typed'
<1> SUFFICES ASSUME Typed, Command PROVE Typed'
  OBVIOUS
<1>1. /\ table \in Seq(Node) /\ clock \in Nat /\ DefaultExpiry \in Nat /\ Ttls \subseteq Nat
  BY PersistenceAssumption DEF Typed, TypeOK
<1>2. CASE setCommand
  <2>1. PICK k \in Keys, v \in Strings, t \in Ttls :
          Changes(SetUntil(table, k, String(v), IF t = 0 THEN DefaultExpiry ELSE t + clock))
    BY <1>2 DEF setCommand
  <2>2. (IF t = 0 THEN DefaultExpiry ELSE t + clock) \in Nat /\ String(v) \in Object
    BY <1>1, ObjectsAre
  <2>3. SetUntil(table, k, String(v), IF t = 0 THEN DefaultExpiry ELSE t + clock) \in Seq(Node)
    BY <1>1, <2>2, SetUntilBecomes DEF Becomes
  <2> QED
    BY <1>2, <2>1, <2>3, ChangesTyped DEF setCommand
<1>3. CASE setbitCommand
  <2>1. PICK k \in Keys, c \in Contents : Changes(SetTo(Purged(table, k), k, Bitmap(c)))
    BY <1>3 DEF setbitCommand
  <2>2. Purged(table, k) \in Seq(Node) /\ Bitmap(c) \in Object
    BY <1>1, ObjectsAre, PurgedBecomes DEF Becomes
  <2>3. SetTo(Purged(table, k), k, Bitmap(c)) \in Seq(Node)
    BY <2>2, SetToBecomes DEF Becomes
  <2> QED
    BY <1>3, <2>1, <2>3, ChangesTyped DEF setbitCommand
<1>4. CASE delCommand
  <2>1. PICK k \in Keys : Find(table, k) # 0 /\ Changes(RemoveAt(table, Find(table, k)))
    BY <1>4 DEF delCommand
  <2>2. RemoveAt(table, Find(table, k)) \in Seq(Node)
    BY <1>1, <2>1, RemovedBecomes DEF Becomes
  <2> QED
    BY <1>4, <2>1, <2>2, ChangesTyped DEF delCommand
<1>5. CASE zaddCommand
  <2>1. PICK k \in Keys, m \in Members, s \in Scores :
          LET o == Got(table, k)
          IN /\ o # NULL => IsZset(o)
             /\ IF IsZset(o) /\ o.score[m] # NULL
                THEN /\ pc' = "update"
                     /\ op' = [key |-> k, member |-> m, score |-> s]
                     /\ before' = Map
                     /\ Changes(WithScore(table, k, m, NULL)) \/ Changes(table)
                ELSE Changes(WithScore(table, k, m, s)) /\ UNCHANGED <<pc, op, before>>
    BY <1>5 DEF zaddCommand
  <2>2. Got(table, k) = NULL \/ IsZset(Got(table, k))
    BY <2>1
  <2>3. \A q \in Scores \cup {NULL} :
          /\ WithScore(table, k, m, q) \in Seq(Node)
          /\ Got(WithScore(table, k, m, q), k) = Zset(Scored(table, k, m, q))
          /\ Scored(table, k, m, q) \in [Members -> Scores \cup {NULL}]
    BY <1>1, <2>2, WithScoreHas, WithScoreBecomes
  <2>4. CASE IsZset(Got(table, k)) /\ Got(table, k).score[m] # NULL
    <3>1. PICK tbl : tbl \in {WithScore(table, k, m, NULL), table} /\ Changes(tbl)
      BY <2>1, <2>4
    <3>2. /\ pc' = "update" /\ op' = [key |-> k, member |-> m, score |-> s] /\ before' = Map
          /\ table' = tbl /\ tbl \in Seq(Node)
          /\ UNCHANGED <<clock, file, torn, pos, kept, broken>>
      BY <1>1, <2>1, <2>3, <2>4, <3>1 DEF Changes
    <3>3. op' \in Update /\ op' # NULL /\ op'.key = k
      BY <3>2, PersistenceAssumption DEF Update
    <3>4. before' \in [Keys -> Stored \cup {NULL}] /\ before' # NULL
      BY <1>1, <3>2, MapIs
    <3>5. IsZset(Got(tbl, k))'
      <4>1. clock' = clock /\ IsZset(Got(tbl, k))
        <5>1. CASE tbl = table
          BY <2>4, <3>2, <5>1
        <5>2. CASE tbl = WithScore(table, k, m, NULL)
          <6>1. /\ Got(tbl, k) = Zset(Scored(table, k, m, NULL))
                /\ Zset(Scored(table, k, m, NULL)) \in Object
            BY <2>3, <5>2, ObjectsAre
          <6>2. Zset(Scored(table, k, m, NULL)) # NULL
            BY <6>1, PersistenceAssumption
          <6> QED
            BY <3>2, <6>1, <6>2 DEF IsZset, Zset
        <5> QED
          BY <3>1, <5>1, <5>2
      <4>2. IsZset(Got(tbl, k))' <=> IsZset(Got(tbl, k))
        BY <4>1 DEF IsZset, Got, Expired
      <4> QED
        BY <4>1, <4>2
    <3>6. IsZset(Got(table, op.key))'
      BY <3>2, <3>3, <3>5
    <3> QED
      BY <1>5, <3>2, <3>3, <3>4, <3>6 DEF Typed, TypeOK, zaddCommand
  <2>5. CASE ~(IsZset(Got(table, k)) /\ Got(table, k).score[m] # NULL)
    <3>1. Changes(WithScore(table, k, m, s)) /\ UNCHANGED <<pc, op, before>>
      BY <2>1, <2>5
    <3> QED
      BY <1>5, <2>3, <3>1, ChangesTyped DEF zaddCommand
  <2> QED
    BY <2>4, <2>5
<1>6. CASE purge
  <2>1. PICK k \in Keys : Changes(Purged(table, k))
    BY <1>6 DEF purge
  <2>2. Purged(table, k) \in Seq(Node)
    BY <1>1, PurgedBecomes DEF Becomes
  <2> QED
    BY <1>6, <2>1, <2>2, ChangesTyped DEF purge
<1>7. CASE flushCommand
  BY <1>7 DEF Typed, TypeOK, flushCommand, Changes
<1>8. CASE saveCommand
  <2>1. pos = 1 /\ pos' = pos /\ file' = <<>>
    BY <1>8 DEF Typed, saveCommand
  <2>2. pos' \in 1..(Len(file') + 1) /\ file' \in Seq(Row)
    BY <2>1, Nothing
  <2> QED
    BY <1>8, <2>1, <2>2 DEF Typed, TypeOK, saveCommand
<1>9. CASE loadCommand
  <2>1. Map \in [Keys -> Stored \cup {NULL}] /\ Map # NULL
    BY <1>1, MapIs
  <2> QED
    BY <1>9, <2>1 DEF Typed, TypeOK, loadCommand
<1> QED
  BY <1>2, <1>3, <1>4, <1>5, <1>6, <1>7, <1>8, <1>9 DEF Command

(* What a row of a member makes of the table.                              *)
LEMMA RowOfMember ==
  ASSUME Typed, pc \in {"boot", "load"}, Loading("zset")
  PROVE  /\ file[pos] \in Row /\ file[pos].key \in Keys /\ file[pos].member \in Members
         /\ file[pos].score \in Scores /\ Reread[file[pos].score] \in Scores \cup {NULL}
<1>1. file[pos] \in Row /\ file[pos].type = "zset"
  BY DEF Typed, TypeOK, Loading
<1>2. Reread \in [Scores -> Scores \cup {NULL}]
  BY PersistenceAssumption
<1> QED
  BY <1>1, <1>2, RowFields

LEMMA ServeTyped == Typed /\ Serve => Typed'
<1> SUFFICES ASSUME Typed, Serve PROVE Typed'
  OBVIOUS
<1>1. /\ table \in Seq(Node) /\ file \in Seq(Row) /\ DefaultExpiry \in Nat /\ pos \in Nat /\ pos >= 1
  BY PersistenceAssumption DEF Typed, TypeOK
<1>2. Rows(table) \subseteq Seq(Row)
  BY <1>1, RowsIs
<1>3. CASE updated
  <2>1. op \in Update /\ IsZset(Got(table, op.key))
    BY <1>3 DEF Typed, TypeOK, updated
  <2>2. op.key \in Keys /\ op.member \in Members /\ op.score \in Scores \cup {NULL}
    BY <2>1 DEF Update
  <2>3. WithScore(table, op.key, op.member, op.score) \in Seq(Node)
    BY <1>1, <2>1, <2>2, WithScoreHas
  <2> QED
    BY <1>3, <2>3 DEF Typed, TypeOK, updated
<1>4. CASE flushed
  <2>1. <<>> \in Seq(Node)
    OBVIOUS
  <2> QED
    BY <1>4, <2>1 DEF Typed, TypeOK, flushed, Changes
<1>5. CASE saved
  <2>1. file' \in Seq(Row) /\ pos' = 1 /\ 1 \in 1..(Len(file') + 1)
    BY <1>2, <1>5 DEF Typed, saved
  <2> QED
    BY <1>2, <1>5, <2>1 DEF Typed, TypeOK, saved
<1>6. CASE exited
  <2>1. Dies /\ file' \in Seq(Row) /\ UNCHANGED <<clock, torn, broken>>
    BY <1>2, <1>6 DEF exited
  <2> QED
    BY <2>1, DiesTyped DEF Typed, TypeOK
<1>7. CASE loadHashMapEntry
  <2>1. pc \in {"boot", "load"} /\ pos <= Len(file) /\ file[pos].type = "string"
    BY <1>7 DEF loadHashMapEntry, Loading
  <2>2. file[pos] \in Row
    BY <1>1, <2>1
  <2>3. file[pos].key \in Keys /\ String(file[pos].val) \in Object /\ file[pos].exp \in Nat
    BY <2>1, <2>2, RowFields, ObjectsAre
  <2>4. Added(table, file[pos].key, String(file[pos].val), file[pos].exp) \in Seq(Node)
    BY <1>1, <2>3, AddedIs
  <2>5. table' \in Seq(Node) /\ \E b \in BOOLEAN : NextRow(b)
    BY <1>1, <1>7, <2>4 DEF loadHashMapEntry
  <2> QED
    BY <2>1, <2>5, NextRowTyped
<1>8. CASE loadSkiplistEntry
  <2>1. pc \in {"boot", "load"} /\ pos <= Len(file) /\ Loading("zset")
    BY <1>8 DEF loadSkiplistEntry, Loading
  <2>2. /\ file[pos].key \in Keys /\ file[pos].member \in Members
        /\ Reread[file[pos].score] \in Scores \cup {NULL}
    BY <2>1, RowOfMember
  <2>3. Got(table, file[pos].key) = NULL \/ IsZset(Got(table, file[pos].key))
    BY <1>8 DEF loadSkiplistEntry, AnswersOne
  <2>4. table' \in Seq(Node)
    BY <1>1, <1>8, <2>2, <2>3, WithScoreHas DEF loadSkiplistEntry
  <2>5. \E b \in BOOLEAN : NextRow(b)
    BY <1>8 DEF loadSkiplistEntry
  <2> QED
    BY <2>1, <2>4, <2>5, NextRowTyped
<1>9. CASE loadAbandoned
  <2>1. pc \in {"boot", "load"} /\ pos <= Len(file) /\ Loading("zset")
    BY <1>9 DEF loadAbandoned, Loading
  <2>2. /\ file[pos].key \in Keys /\ file[pos].member \in Members
        /\ Reread[file[pos].score] \in Scores \cup {NULL}
    BY <2>1, RowOfMember
  <2>3. Purged(table, file[pos].key) \in Seq(Node)
    BY <1>1, <2>2, PurgedBecomes DEF Becomes
  <2>4. IsZset(Got(table, file[pos].key)) =>
          WithScore(table, file[pos].key, file[pos].member, Reread[file[pos].score]) \in Seq(Node)
    BY <1>1, <2>2, WithScoreHas
  <2>5. table' \in Seq(Node)
    BY <1>9, <2>3, <2>4 DEF loadAbandoned
  <2> QED
    BY <1>9, <2>1, <2>5, LoadEndsTyped DEF loadAbandoned
<1>10. CASE loadBitmapEntry
  <2>1. pc \in {"boot", "load"} /\ pos <= Len(file) /\ file[pos].type = "bitmap"
    BY <1>10 DEF loadBitmapEntry, Loading
  <2>2. file[pos] \in Row
    BY <1>1, <2>1
  <2>3. file[pos].key \in Keys /\ Bitmap(file[pos].words) \in Object
    BY <2>1, <2>2, RowFields, ObjectsAre
  <2>4. table' \in Seq(Node)
    BY <1>1, <1>10, <2>3, SetToBecomes DEF loadBitmapEntry, Becomes
  <2> QED
    BY <1>10, <2>1, <2>4, NextRowTyped DEF loadBitmapEntry
<1>11. CASE loaded
  BY <1>1, <1>11, LoadEndsTyped DEF loaded, Typed, TypeOK
<1>12. CASE loadTorn
  <2>1. /\ pc \in {"boot", "load"} /\ UNCHANGED <<clock, file, torn, op, kept>>
        /\ broken \in BOOLEAN /\ torn \in BOOLEAN
    BY <1>12 DEF loadTorn, Typed, TypeOK
  <2>2. CASE LoadEnds /\ UNCHANGED <<table, broken>>
    BY <1>1, <2>1, <2>2, LoadEndsTyped
  <2>3. CASE /\ \E k \in Keys : table' = Added(table, k, String(Garbage), DefaultExpiry)
             /\ LoadEnds /\ broken' = TRUE
    <3>1. String(Garbage) \in Object
      BY ObjectsAre
    <3>2. table' \in Seq(Node)
      BY <1>1, <2>3, <3>1, AddedIs
    <3> QED
      BY <2>1, <2>3, <3>2, LoadEndsTyped
  <2>4. CASE Dies /\ UNCHANGED broken
    BY <1>1, <2>1, <2>4, DiesTyped
  <2> QED
    BY <1>12, <2>2, <2>3, <2>4 DEF loadTorn
<1> QED
  BY <1>3, <1>4, <1>5, <1>6, <1>7, <1>8, <1>9, <1>10, <1>11, <1>12 DEF Serve

LEMMA FaultTyped == Typed /\ Fault => Typed'
<1> SUFFICES ASSUME Typed, Fault PROVE Typed'
  OBVIOUS
<1>1. /\ table \in Seq(Node) /\ file \in Seq(Row) /\ torn \in BOOLEAN /\ broken \in BOOLEAN
      /\ <<>> \in Seq(Row)
  BY DEF Typed, TypeOK
<1>2. CASE sigHandler
  <2>1. pos' = 1 /\ file' = <<>>
    BY <1>2 DEF sigHandler
  <2>2. pos' \in 1..(Len(file') + 1) /\ file' \in Seq(Row)
    BY <2>1, Nothing
  <2> QED
    BY <1>1, <1>2, <2>1, <2>2 DEF Typed, TypeOK, sigHandler
<1>3. CASE sigHandlerUnsaved
  BY <1>1, <1>3, DiesTyped DEF sigHandlerUnsaved
<1>4. CASE sigHandlerInFlush
  BY <1>1, <1>4, DiesTyped DEF sigHandlerInFlush
<1>5. CASE crash
  <2>2. CASE pc \in {"save", "exit"}
    <3>1. PICK q \in Rows(table) : \E n \in 0..Len(q) : file' = SubSeq(q, 1, n) /\ torn' \in BOOLEAN
      BY <1>5, <2>2 DEF crash
    <3>2. PICK n \in 0..Len(q) : file' = SubSeq(q, 1, n) /\ torn' \in BOOLEAN
      BY <3>1
    <3>3. q \in Seq(Row)
      BY <1>1, RowsIs
    <3>4. SubSeq(q, 1, n) \in Seq(Row)
      BY <3>3
    <3> QED
      BY <1>1, <1>5, <3>2, <3>4, DiesTyped DEF crash
  <2>3. CASE pc \notin {"save", "exit"}
    BY <1>1, <1>5, <2>3, DiesTyped DEF crash
  <2> QED
    BY <2>2, <2>3
<1> QED
  BY <1>2, <1>3, <1>4, <1>5 DEF Fault

LEMMA GotStays ==
  ASSUME Typed, Tick, pc = "update"
  PROVE  IsZset(Got(table, op.key))'
<1>1. op \in Update /\ IsZset(Got(table, op.key)) /\ table \in Seq(Node)
  BY DEF Typed, TypeOK
<1>2. PICK i : i = Find(table, op.key)
  OBVIOUS
<1>3. i # 0 /\ ~Expired(table[i]) /\ table[i].obj # NULL /\ table[i].obj.type = "zset"
  BY <1>1, <1>2 DEF Got, IsZset
<1>4. table' = table /\ op' = op
  BY DEF Tick
<1>5. Got(table, op.key)' = table[i].obj
  BY <1>2, <1>3, <1>4 DEF Got, Expired
<1> QED
  BY <1>3, <1>5 DEF IsZset

LEMMA TypedNext == Typed /\ [Next]_vars => Typed'
<1> SUFFICES ASSUME Typed, [Next]_vars PROVE Typed'
  OBVIOUS
<1>1. CASE Command
  BY <1>1, CommandTyped
<1>2. CASE Serve
  BY <1>2, ServeTyped
<1>3. CASE restart
  BY <1>3 DEF Typed, TypeOK, restart
<1>4. CASE Fault
  BY <1>4, FaultTyped
<1>5. CASE Tick
  <2>1. clock' \in 0..MaxClock
    BY <1>5, PersistenceAssumption DEF Typed, TypeOK, Tick
  <2>2. pc = "update" => IsZset(Got(table, op.key))'
    BY <1>5, GotStays
  <2> QED
    BY <1>5, <2>1, <2>2 DEF Typed, TypeOK, Tick
<1>6. CASE UNCHANGED vars
  <2>1. Got(table, op.key)' = Got(table, op.key)
    BY <1>6 DEF vars, Got, Expired
  <2> QED
    BY <1>6, <2>1 DEF Typed, TypeOK, vars, IsZset
<1> QED
  BY <1>1, <1>2, <1>3, <1>4, <1>5, <1>6 DEF Next

(* Every variable keeps its type, and the file has whole rows.             *)
THEOREM TypeCorrect == Spec => []TypeOK
<1>1. Typed => TypeOK
  BY DEF Typed
<1> QED
  BY <1>1, TypedInit, TypedNext, PTL DEF Spec

-----------------------------------------------------------------------------
(* What a step leaves of Sound                                             *)

(* One key's node is put, replaced or taken away.                          *)
LEMMA NodePut ==
  ASSUME table \in Seq(Node), Distinct(table), NEW k \in Keys, NEW n \in Node \cup {NULL},
         Becomes(table', table, [At(table) EXCEPT ![k] = n])
  PROVE  /\ table' \in Seq(Node) /\ Distinct(table')
         /\ \A j \in Keys : At(table')[j] = IF j = k THEN n ELSE At(table)[j]
         /\ \A j \in Keys : Map'[j] = IF j = k THEN Mapped(n) ELSE Map[j]
<1>1. table' \in Seq(Node) /\ Distinct(table') /\ At(table') = [At(table) EXCEPT ![k] = n]
  BY DEF Becomes
<1>2. At(table) \in [Keys -> Node \cup {NULL}]
  BY AtIs
<1>3. \A j \in Keys : At(table')[j] = IF j = k THEN n ELSE At(table)[j]
  BY <1>1, <1>2
<1>4. Map = View(At(table))
  BY MapIs
<1>5. Map' = View(At(table'))
  BY <1>1, MapAfter
<1>6. \A j \in Keys : Map'[j] = IF j = k THEN Mapped(n) ELSE Map[j]
  BY <1>3, <1>4, <1>5 DEF View
<1> QED
  BY <1>1, <1>3, <1>6

LEMMA FullStays ==
  ASSUME table \in Seq(Node), Distinct(table), Full, NEW k \in Keys, NEW n \in Node \cup {NULL},
         Becomes(table', table, [At(table) EXCEPT ![k] = n]),
         n # NULL => n.obj # Zset(NoMember)
  PROVE  Distinct(table)' /\ Full'
<1>1. Distinct(table') /\ \A j \in Keys : At(table')[j] = IF j = k THEN n ELSE At(table)[j]
  BY NodePut
<1> QED
  BY <1>1 DEF Full

(* get finds what the map has, unless it has expired.                      *)
LEMMA GotOfMap ==
  ASSUME table \in Seq(Node), NEW k \in Keys
  PROVE  /\ IsZset(Map[k]) => Got(table, k) = Map[k]
         /\ At(table)[k] # NULL /\ At(table)[k].obj # Zset(NoMember) =>
              /\ Got(table, k) = NULL => Map[k] = NULL \/ Promise!Expired(Map[k])
              /\ IsZset(Got(table, k)) => Map[k] = Got(table, k)
         /\ At(table)[k] = NULL => Map[k] = NULL /\ Got(table, k) = NULL
<1>1. Map[k] = Mapped(At(table)[k])
  BY MapIs DEF View
<1>2. /\ Got(table, k) \in Object \cup {NULL}
      /\ Got(table, k) = IF Fresh(At(table)[k]) = NULL THEN NULL ELSE At(table)[k].obj
  BY GotIs
<1>3. At(table)[k] \in Node \cup {NULL}
  BY AtIs
<1>4. PICK n : n = At(table)[k]
  OBVIOUS
<1>5. n # NULL => n \in Node /\ n.obj \in Object /\ n.obj # NULL
  BY <1>3, <1>4, NodesAre, PersistenceAssumption
<1>6. CASE n = NULL
  BY <1>1, <1>2, <1>4, <1>6 DEF Mapped, Fresh, IsZset
<1>7. CASE n # NULL /\ n.obj = Zset(NoMember)
  BY <1>1, <1>4, <1>7 DEF Mapped, IsZset
<1>8. CASE n # NULL /\ n.obj # Zset(NoMember) /\ n.obj.type = "string"
  <2>1. Map[k] = [type |-> "string", val |-> n.obj.val, exp |-> n.exp]
    BY <1>1, <1>4, <1>8 DEF Mapped
  <2>2. Map[k] # NULL
    <3>1. n.exp \in Nat /\ n.obj.val \in Strings \cup {Garbage}
      BY <1>5, <1>8, NodesAre, ObjectsAre
    <3> QED
      BY <2>1, <3>1, PersistenceAssumption DEF Stored
  <2>3. Promise!Expired(Map[k]) <=> n.exp < clock
    BY <2>1, <2>2 DEF Promise!Expired
  <2>4. Fresh(n) = IF n.exp < clock THEN NULL ELSE n
    BY <1>8 DEF Fresh, Expired
  <2> QED
    BY <1>2, <1>4, <1>5, <1>8, <2>1, <2>3, <2>4 DEF IsZset
<1>9. CASE n # NULL /\ n.obj # Zset(NoMember) /\ n.obj.type # "string"
  <2>1. Map[k] = n.obj
    BY <1>1, <1>4, <1>9 DEF Mapped
  <2>2. Fresh(n) = n
    BY <1>9 DEF Fresh, Expired
  <2>3. Got(table, k) = n.obj
    BY <1>2, <1>4, <1>9, <2>2
  <2> QED
    BY <1>4, <1>5, <1>9, <2>1, <2>3
<1> QED
  BY <1>6, <1>7, <1>8, <1>9

LEMMA SetPurgedBecomes ==
  ASSUME NEW tbl \in Seq(Node), NEW k \in Keys, NEW o \in Object
  PROVE  \E e \in Nat :
           Becomes(SetTo(Purged(tbl, k), k, o), tbl, [At(tbl) EXCEPT ![k] = NodeOf(k, o, e)])
<1>1. PICK p : p = Purged(tbl, k)
  OBVIOUS
<1>2. Becomes(p, tbl, [At(tbl) EXCEPT ![k] = Fresh(@)])
  BY <1>1, PurgedBecomes
<1>3. p \in Seq(Node)
  BY <1>2 DEF Becomes
<1>4. PICK e \in Nat : Becomes(SetTo(p, k, o), p, [At(p) EXCEPT ![k] = NodeOf(k, o, e)])
  BY <1>3, SetToBecomes
<1>5. At(tbl) \in [Keys -> Node \cup {NULL}]
  BY AtIs
<1>6. ASSUME Distinct(tbl)
      PROVE  [At(p) EXCEPT ![k] = NodeOf(k, o, e)] = [At(tbl) EXCEPT ![k] = NodeOf(k, o, e)]
  <2>1. At(p) = [At(tbl) EXCEPT ![k] = Fresh(@)]
    BY <1>2, <1>6 DEF Becomes
  <2> QED
    BY <1>5, <2>1
<1> QED
  BY <1>1, <1>2, <1>4, <1>6 DEF Becomes

(* A ZADD leaves no sorted set without members.                            *)
LEMMA ScoredFull ==
  ASSUME table \in Seq(Node), Distinct(table), NEW k \in Keys, NEW m \in Members, NEW s \in Scores,
         \A j \in Keys : j # k /\ At(table)[j] # NULL => At(table)[j].obj # Zset(NoMember),
         Got(table, k) # NULL => IsZset(Got(table, k)), table' = WithScore(table, k, m, s)
  PROVE  Distinct(table)' /\ Full'
<1>1. PICK f : f = Scored(table, k, m, s)
  OBVIOUS
<1>2. f \in [Members -> Scores \cup {NULL}]
  BY <1>1, WithScoreBecomes
<1>3. PICK e \in Nat : Becomes(table', table, [At(table) EXCEPT ![k] = NodeOf(k, Zset(f), e)])
  BY <1>1, WithScoreBecomes
<1>4. f[m] = s /\ s # NULL
  <2>1. PICK g : g = IF Got(table, k) = NULL THEN NoMember ELSE Got(table, k).score
    OBVIOUS
  <2>2. Got(table, k) \in Object \cup {NULL}
    BY GotIs
  <2>3. g \in [Members -> Scores \cup {NULL}]
    BY <2>1, <2>2, ObjectsAre
  <2> QED
    BY <1>1, <2>1, <2>3, PersistenceAssumption DEF Scored
<1>5. Zset(f) # Zset(NoMember)
  BY <1>2, <1>4 DEF Zset, NoMember
<1>6. NodeOf(k, Zset(f), e) \in Node /\ NodeOf(k, Zset(f), e).obj = Zset(f)
  BY <1>2, ObjectsAre DEF NodeOf, Node
<1>7. /\ Distinct(table')
      /\ \A j \in Keys : At(table')[j] = IF j = k THEN NodeOf(k, Zset(f), e) ELSE At(table)[j]
  BY <1>3, <1>6, NodePut
<1> QED
  BY <1>5, <1>6, <1>7 DEF Full

LEMMA SoundInit == Init => Sound
<1> SUFFICES ASSUME Init PROVE Sound
  OBVIOUS
<1>1. Distinct(table) /\ At(table) = NoNode /\ Apart(file)
  BY EmptyTable DEF Init, Apart
<1>2. Full
  BY <1>1 DEF Full, NoNode
<1> QED
  BY <1>1, <1>2 DEF Init, Sound

(* A step that leaves the server idle, or before its flush or save.        *)
LEMMA IdleSound ==
  ASSUME pc' \in {"idle", "flush", "save"}, Distinct(table)', Full', Apart(file)'
  PROVE  Sound'
BY DEF Sound

LEMMA CommandSound == Typed /\ Sound /\ Command => Sound'
<1> SUFFICES ASSUME Typed, Sound, Command PROVE Sound'
  OBVIOUS
<1>1. /\ table \in Seq(Node) /\ clock \in Nat /\ DefaultExpiry \in Nat /\ Ttls \subseteq Nat
      /\ At(table) \in [Keys -> Node \cup {NULL}]
  <2>1. PICK k : k \in Keys
    BY PersistenceAssumption
  <2>2. table \in Seq(Node) /\ clock \in Nat
    BY PersistenceAssumption DEF Typed, TypeOK
  <2> QED
    BY <2>1, <2>2, AtIs, PersistenceAssumption
<1>2. pc = "idle" /\ Distinct(table) /\ Full /\ Apart(file)
  BY DEF Sound, Command, setCommand, setbitCommand, delCommand, zaddCommand, purge, flushCommand,
         saveCommand, loadCommand
<1>3. ASSUME NEW tbl, Changes(tbl)
      PROVE  table' = tbl /\ Apart(file)' /\ pos' = pos
  BY <1>2, <1>3 DEF Changes
<1>4. CASE setCommand
  <2>1. PICK k \in Keys, v \in Strings, t \in Ttls :
          Changes(SetUntil(table, k, String(v), IF t = 0 THEN DefaultExpiry ELSE t + clock))
    BY <1>4 DEF setCommand
  <2>2. PICK e : e = IF t = 0 THEN DefaultExpiry ELSE t + clock
    OBVIOUS
  <2>3. e \in Nat /\ String(v) \in Object
    BY <1>1, <2>2, ObjectsAre
  <2>4. NodeOf(k, String(v), e) \in Node /\ NodeOf(k, String(v), e).obj # Zset(NoMember)
    BY <2>3 DEF NodeOf, Node, String, Zset
  <2>5. Becomes(table', table, [At(table) EXCEPT ![k] = NodeOf(k, String(v), e)])
    <3>1. table' = SetUntil(table, k, String(v), e)
      BY <1>3, <2>1, <2>2
    <3> QED
      BY <1>1, <2>3, <3>1, SetUntilBecomes
  <2>6. Distinct(table)' /\ Full'
    BY <1>1, <1>2, <2>4, <2>5, FullStays
  <2> QED
    BY <1>2, <1>3, <1>4, <2>1, <2>6, IdleSound DEF setCommand
<1>5. CASE setbitCommand
  <2>1. PICK k \in Keys, c \in Contents : Changes(SetTo(Purged(table, k), k, Bitmap(c)))
    BY <1>5 DEF setbitCommand
  <2>2. Bitmap(c) \in Object
    BY ObjectsAre
  <2>3. PICK e \in Nat : Becomes(table', table, [At(table) EXCEPT ![k] = NodeOf(k, Bitmap(c), e)])
    BY <1>1, <1>3, <2>1, <2>2, SetPurgedBecomes
  <2>4. NodeOf(k, Bitmap(c), e) \in Node /\ NodeOf(k, Bitmap(c), e).obj # Zset(NoMember)
    BY <2>2 DEF NodeOf, Node, Bitmap, Zset
  <2>5. Distinct(table)' /\ Full'
    BY <1>1, <1>2, <2>3, <2>4, FullStays
  <2> QED
    BY <1>2, <1>3, <1>5, <2>1, <2>5, IdleSound DEF setbitCommand
<1>6. CASE purge
  <2>1. PICK k \in Keys : Changes(Purged(table, k))
    BY <1>6 DEF purge
  <2>2. Becomes(table', table, [At(table) EXCEPT ![k] = Fresh(@)])
    BY <1>1, <1>3, <2>1, PurgedBecomes
  <2>3. PICK n : n = Fresh(At(table)[k])
    OBVIOUS
  <2>4. n \in Node \cup {NULL} /\ (n # NULL => n = At(table)[k])
    BY <1>1, <2>3 DEF Fresh
  <2>5. n # NULL => n.obj # Zset(NoMember)
    BY <1>2, <2>4 DEF Full
  <2>6. Becomes(table', table, [At(table) EXCEPT ![k] = n])
    BY <1>1, <2>2, <2>3
  <2>7. Distinct(table)' /\ Full'
    BY <1>1, <1>2, <2>4, <2>5, <2>6, FullStays
  <2> QED
    BY <1>2, <1>3, <1>6, <2>1, <2>7, IdleSound DEF purge
<1>7. CASE delCommand
  <2>1. PICK k \in Keys : Find(table, k) # 0 /\ Changes(RemoveAt(table, Find(table, k)))
    BY <1>7 DEF delCommand
  <2>2. Becomes(table', table, [At(table) EXCEPT ![k] = NULL])
    BY <1>1, <1>3, <2>1, RemovedBecomes
  <2>3. Distinct(table)' /\ Full'
    BY <1>1, <1>2, <2>2, FullStays
  <2> QED
    BY <1>2, <1>3, <1>7, <2>1, <2>3, IdleSound DEF delCommand
<1>8. CASE zaddCommand
  <2>1. PICK k \in Keys, m \in Members, s \in Scores :
          /\ Got(table, k) # NULL => IsZset(Got(table, k))
          /\ IF IsZset(Got(table, k)) /\ Got(table, k).score[m] # NULL
             THEN /\ pc' = "update"
                  /\ op' = [key |-> k, member |-> m, score |-> s]
                  /\ before' = Map
                  /\ Changes(WithScore(table, k, m, NULL)) \/ Changes(table)
             ELSE Changes(WithScore(table, k, m, s)) /\ UNCHANGED <<pc, op, before>>
    BY <1>8 DEF zaddCommand
  <2>2. s # NULL
    BY PersistenceAssumption
  <2>3. CASE IsZset(Got(table, k)) /\ Got(table, k).score[m] # NULL
    <3>1. /\ pc' = "update" /\ op' = [key |-> k, member |-> m, score |-> s] /\ before' = Map
          /\ table' \in {WithScore(table, k, m, NULL), table} /\ Apart(file)'
      BY <1>3, <2>1, <2>3
    <3>2. Map[k] = Got(table, k) /\ At(table)[k] # NULL
      <4>1. At(table)[k] # NULL /\ At(table)[k].obj # Zset(NoMember)
        BY <1>1, <1>2, <2>3, GotOfMap DEF IsZset, Full
      <4> QED
        BY <1>1, <2>3, <4>1, GotOfMap
    <3>3. op'.key = k /\ op'.member = m /\ before'[k] = Got(table, k)
      BY <3>1, <3>2
    <3>4. CASE table' = WithScore(table, k, m, NULL)
      <4>1. PICK f : f = Scored(table, k, m, NULL)
        OBVIOUS
      <4>2. f \in [Members -> Scores \cup {NULL}] /\ f = [Got(table, k).score EXCEPT ![m] = NULL]
        <5>1. f \in [Members -> Scores \cup {NULL}]
          BY <1>1, <2>1, <4>1, WithScoreBecomes
        <5> QED
          BY <2>3, <4>1, <5>1 DEF Scored, IsZset
      <4>3. PICK e \in Nat : Becomes(table', table, [At(table) EXCEPT ![k] = NodeOf(k, Zset(f), e)])
        BY <1>1, <2>1, <3>4, <4>1, WithScoreBecomes
      <4>4. NodeOf(k, Zset(f), e) \in Node /\ NodeOf(k, Zset(f), e).obj = Zset(f)
        BY <4>2, ObjectsAre DEF NodeOf, Node
      <4>5. /\ Distinct(table')
            /\ \A j \in Keys : At(table')[j] = IF j = k THEN NodeOf(k, Zset(f), e) ELSE At(table)[j]
            /\ \A j \in Keys : j # k => Map'[j] = Map[j]
        BY <1>1, <1>2, <4>3, <4>4, NodePut
      <4>6. \A j \in Keys : j # k /\ At(table')[j] # NULL => At(table')[j].obj # Zset(NoMember)
        BY <1>2, <4>5 DEF Full
      <4>7. At(table')[k] # NULL /\ At(table')[k].obj = Zset([Got(table, k).score EXCEPT ![m] = NULL])
        BY <4>2, <4>4, <4>5, PersistenceAssumption
      <4>8. Updating'
        BY <2>3, <3>1, <3>3, <4>5, <4>6, <4>7 DEF Updating
      <4> QED
        BY <3>1, <4>5, <4>8 DEF Sound
    <3>5. CASE table' = table
      <4>1. Map' = Map
        BY <3>5 DEF Map
      <4>2. \A j \in Keys : At(table)[j] # NULL => At(table)[j].obj # Zset(NoMember)
        BY <1>2 DEF Full
      <4>3. Updating'
        BY <2>3, <3>1, <3>2, <3>3, <3>5, <4>1, <4>2 DEF Updating
      <4> QED
        BY <1>2, <3>1, <3>5, <4>3 DEF Sound
    <3> QED
      BY <3>1, <3>4, <3>5
  <2>4. CASE ~(IsZset(Got(table, k)) /\ Got(table, k).score[m] # NULL)
    <3>1. table' = WithScore(table, k, m, s) /\ Apart(file)' /\ pc' = "idle"
      BY <1>2, <1>3, <2>1, <2>4
    <3>2. \A j \in Keys : j # k /\ At(table)[j] # NULL => At(table)[j].obj # Zset(NoMember)
      BY <1>2 DEF Full
    <3>3. Got(table, k) # NULL => IsZset(Got(table, k))
      BY <2>1
    <3>4. table' = WithScore(table, k, m, s)
      BY <3>1
    <3>5. Distinct(table)' /\ Full'
      BY ONLY <1>1, <1>2, <3>2, <3>3, <3>4, k \in Keys, m \in Members, s \in Scores, ScoredFull
    <3> QED
      BY <3>1, <3>5, IdleSound
  <2> QED
    BY <2>3, <2>4
<1>9. CASE flushCommand
  <2>1. table' = table /\ pc' = "flush" /\ Apart(file)'
    BY <1>3, <1>9 DEF flushCommand
  <2>2. Distinct(table)' /\ Full'
    BY <1>2, <2>1 DEF Full
  <2> QED
    BY <2>1, <2>2, IdleSound
<1>10. CASE saveCommand
  <2>1. table' = table /\ file' = <<>> /\ pc' = "save"
    BY <1>10 DEF saveCommand
  <2>2. Distinct(table)' /\ Full'
    BY <1>2, <2>1 DEF Full
  <2>3. Apart(file)'
    BY <2>1 DEF Apart
  <2> QED
    BY <2>1, <2>2, <2>3, IdleSound
<1>11. CASE loadCommand
  <2>1. table' = table /\ file' = file /\ pc' = "load" /\ pos' = 1 /\ before' = Map
    BY <1>2, <1>11 DEF loadCommand, Typed
  <2>2. Distinct(table)' /\ Full' /\ Apart(file)'
    BY <1>2, <2>1 DEF Full
  <2>3. Map' = Map
    BY <2>1 DEF Map
  <2>4. \A k \in Keys : LoadedKey(k, pos - 1)'
    <3>1. \A i \in 1..(pos' - 1) : FALSE
      BY <2>1
    <3> QED
      BY <2>1, <2>3, <3>1 DEF LoadedKey, Origin
  <2> QED
    BY <2>1, <2>2, <2>4 DEF Sound
<1> QED
  BY <1>4, <1>5, <1>6, <1>7, <1>8, <1>9, <1>10, <1>11 DEF Command

-----------------------------------------------------------------------------
(* Loads                                                                   *)

(* What was loaded of other keys stays.                                    *)
LEMMA OthersStay ==
  ASSUME Typed, Sound, pc \in {"boot", "load"}, pos <= Len(file), NEW b, NextRow(b),
         NEW j \in Keys, file[pos].key # j, Map'[j] = Map[j]
  PROVE  LoadedKey(j, pos - 1)'
<1>1. PICK p \in Nat : p = pos /\ p >= 1 /\ pos' - 1 = p
  <2>1. pos \in Nat /\ pos >= 1
    BY DEF Typed, TypeOK
  <2> QED
    BY <2>1 DEF NextRow
<1>2. /\ clock' = clock /\ file' = file /\ pc' = pc /\ before' = before /\ Origin(j)' = Origin(j)
  BY DEF NextRow, Origin
<1>3. LoadedKey(j, p - 1)
  BY <1>1 DEF Sound
<1>4. \A i \in 1..p : file[i].key = j => i \in 1..(p - 1)
  BY <1>1
<1>5. 1..(p - 1) \subseteq 1..p
  BY <1>1
<1>6. ASSUME NEW f \in [Members -> Scores \cup {NULL}], ScoresAre(f, j, p - 1)
      PROVE  ScoresAre(f, j, p)'
  BY <1>2, <1>4, <1>5, <1>6 DEF ScoresAre
<1>7. ASSUME NEW i \in 1..p, file[i].key = j
      PROVE  LoadedRow(j, i, p)'
  <2>1. i \in 1..(p - 1)
    BY <1>4, <1>7
  <2>2. LoadedRow(j, i, p - 1)
    BY <1>3, <1>7, <2>1 DEF LoadedKey
  <2>3. Says(file[i], file)' = Says(file[i], file) /\ Promise!Expired(Origin(j))' = Promise!Expired(Origin(j))
    BY <1>2 DEF Promise!Expired
  <2>4. CASE file[i].type = "zset"
    <3>1. PICK f \in [Members -> Scores \cup {NULL}] : ScoresAre(f, j, p - 1) /\ Map[j] = Zset(f)
      BY <2>2, <2>4 DEF LoadedRow
    <3>2. ScoresAre(f, j, p)' /\ Map'[j] = Zset(f)
      BY <1>6, <3>1
    <3>3. Origin(j)' = NULL \/ Promise!Expired(Origin(j))'
      BY <1>2, <2>2, <2>3, <2>4 DEF LoadedRow
    <3> QED
      BY <1>2, <2>4, <3>2, <3>3 DEF LoadedRow
  <2>5. CASE file[i].type = "string"
    BY <1>2, <2>2, <2>3, <2>5 DEF LoadedRow
  <2>6. CASE file[i].type = "bitmap"
    BY <1>2, <2>2, <2>3, <2>6 DEF LoadedRow
  <2>7. file[i].type \in {"string", "bitmap", "zset"}
    <3>1. file \in Seq(Row) /\ p <= Len(file)
      BY <1>1 DEF Typed, TypeOK
    <3>2. file[i] \in Row
      BY <1>7, <3>1
    <3> QED
      BY <3>2, RowFields
  <2> QED
    BY <2>4, <2>5, <2>6, <2>7
<1>8. (\A i \in 1..p : file[i].key # j) => Map'[j] = Origin(j)'
  BY <1>2, <1>3, <1>5 DEF LoadedKey
<1>9. \A i \in 1..p : file'[i].key = j => LoadedRow(j, i, p)'
  BY <1>2, <1>7
<1> QED
  BY <1>1, <1>2, <1>8, <1>9 DEF LoadedKey

(* The row of a string or a bitmap is the only one of its key.             *)
LEMMA AloneInFile ==
  ASSUME Typed, Sound, pc \in {"boot", "load"}, pos <= Len(file), file[pos].type # "zset"
  PROVE  \A i \in 1..(pos - 1) : file[i].key # file[pos].key
<1>1. pos \in Nat /\ pos >= 1 /\ file \in Seq(Row)
  BY DEF Typed, TypeOK
<1>2. PICK p \in Nat : p = pos /\ p >= 1 /\ p <= Len(file)
  BY <1>1
<1>3. ASSUME NEW i \in 1..(p - 1), file[i].key = file[p].key
      PROVE  FALSE
  <2>1. i \in 1..Len(file) /\ p \in 1..Len(file) /\ i # p
    BY <1>1, <1>2
  <2> QED
    BY <1>2, <1>3, <2>1 DEF Sound, Apart
<1> QED
  BY <1>2, <1>3

LEMMA AloneLoaded ==
  ASSUME Typed, Sound, pc \in {"boot", "load"}, pos <= Len(file), NEW b, NextRow(b),
         file[pos].type # "zset", NEW p, p = pos, NEW k, k = file[p].key, LoadedRow(k, p, p)'
  PROVE  LoadedKey(k, pos - 1)'
<1>1. p \in Nat /\ p >= 1 /\ pos' - 1 = p
  <2>1. pos \in Nat /\ pos >= 1
    BY DEF Typed, TypeOK
  <2> QED
    BY <2>1 DEF NextRow
<1>2. \A i \in 1..(p - 1) : file[i].key # k
  BY AloneInFile
<1>3. file' = file
  BY DEF NextRow
<1>4. \A i \in 1..p : file'[i].key = k => i = p
  <2>1. \A i \in 1..p : i # p => i \in 1..(p - 1)
    BY <1>1
  <2> QED
    BY <1>2, <1>3, <2>1
<1>5. p \in 1..p
  BY <1>1
<1> QED
  BY <1>1, <1>3, <1>4, <1>5 DEF LoadedKey

(* One more row is read, and its node is put in the table.                 *)
LEMMA NextRowSound ==
  ASSUME Typed, Sound, pc \in {"boot", "load"}, pos <= Len(file), NEW b, NextRow(b),
         NEW k \in Keys, k = file[pos].key, NEW n \in Node \cup {NULL},
         n # NULL => n.obj # Zset(NoMember),
         Becomes(table', table, [At(table) EXCEPT ![k] = n]),
         LoadedKey(k, pos - 1)'
  PROVE  Sound'
<1>1. table \in Seq(Node) /\ Distinct(table) /\ Full
  BY DEF Typed, TypeOK, Sound
<1>2. Distinct(table)' /\ Full'
  BY <1>1, FullStays
<1>3. \A j \in Keys : j # k => Map'[j] = Map[j]
  <2>1. \A j \in Keys : Map'[j] = IF j = k THEN Mapped(n) ELSE Map[j]
    BY ONLY <1>1, Becomes(table', table, [At(table) EXCEPT ![k] = n]), k \in Keys,
            n \in Node \cup {NULL}, NodePut
  <2> QED
    BY <2>1
<1>4. \A j \in Keys : LoadedKey(j, pos - 1)'
  BY <1>3, OthersStay
<1>5. pc' = pc /\ Apart(file)'
  BY DEF NextRow, Sound
<1> QED
  BY <1>2, <1>4, <1>5 DEF Sound

LEMMA StringSound == Typed /\ Sound /\ loadHashMapEntry /\ ~broken' => Sound'
<1> SUFFICES ASSUME Typed, Sound, loadHashMapEntry, ~broken' PROVE Sound'
  OBVIOUS
<1>1. pc \in {"boot", "load"} /\ pos <= Len(file) /\ file[pos].type = "string"
  BY DEF loadHashMapEntry, Loading
<1>2. /\ table \in Seq(Node) /\ file \in Seq(Row) /\ pos \in Nat /\ pos >= 1 /\ clock \in Nat
      /\ Distinct(table) /\ Full
  BY <1>1, PersistenceAssumption DEF Typed, TypeOK, Sound
<1>3. PICK p \in Nat : p = pos /\ p >= 1
  BY <1>2
<1>4. PICK r : r = file[p]
  OBVIOUS
<1>5. PICK k : k = r.key
  OBVIOUS
<1>6. /\ r \in Row /\ k \in Keys /\ r.type = "string" /\ r.exp \in Nat
      /\ r.val \in Strings \cup {Garbage} /\ String(r.val) \in Object
  <2>1. r \in Row /\ r.type = "string"
    BY <1>1, <1>2, <1>3, <1>4
  <2> QED
    BY <1>5, <2>1, RowFields, ObjectsAre
<1>7. Map[k] = Origin(k)
  <2>1. LoadedKey(k, p - 1)
    BY <1>1, <1>3, <1>6 DEF Sound
  <2>2. \A i \in 1..(p - 1) : file[i].key # k
    BY <1>1, <1>3, <1>4, <1>5, AloneInFile
  <2> QED
    BY <2>1, <2>2 DEF LoadedKey
<1>8. CASE r.exp < clock
  <2>1. NextRow(FALSE) /\ table' = table
    BY <1>3, <1>4, <1>8 DEF loadHashMapEntry
  <2>2. Map'[k] = Map[k] /\ Origin(k)' = Origin(k) /\ file' = file /\ clock' = clock
    BY <2>1 DEF Map, Origin, NextRow
  <2>3. LoadedRow(k, p, p)'
    BY <1>4, <1>6, <1>7, <1>8, <2>2 DEF LoadedRow
  <2>4. LoadedKey(k, pos - 1)'
    BY <1>1, <1>3, <1>4, <1>5, <2>1, <2>3, AloneLoaded
  <2>5. PICK n : n = At(table)[k]
    OBVIOUS
  <2>6. n \in Node \cup {NULL} /\ (n # NULL => n.obj # Zset(NoMember))
    BY <1>2, <1>6, <2>5, AtIs DEF Full
  <2>7. Becomes(table', table, [At(table) EXCEPT ![k] = n])
    <3>1. At(table) \in [Keys -> Node \cup {NULL}]
      BY <1>2, <1>6, AtIs
    <3> QED
      BY <1>2, <2>1, <2>5, <3>1 DEF Becomes
  <2> QED
    BY <1>1, <1>3, <1>4, <1>5, <1>6, <2>1, <2>4, <2>6, <2>7, NextRowSound
<1>9. CASE ~(r.exp < clock)
  <2>1. table' = Added(table, k, String(r.val), r.exp) /\ NextRow(Find(table, k) # 0)
    BY <1>3, <1>4, <1>5, <1>9 DEF loadHashMapEntry
  <2>2. Find(table, k) = 0
    BY <2>1 DEF NextRow
  <2>3. PICK n : n = NodeOf(k, String(r.val), r.exp)
    OBVIOUS
  <2>4. n \in Node /\ n.obj = String(r.val) /\ n.exp = r.exp /\ n.obj # Zset(NoMember)
    BY <1>6, <2>3 DEF NodeOf, Node, String, Zset
  <2>5. Becomes(table', table, [At(table) EXCEPT ![k] = n])
    BY <1>2, <1>6, <2>1, <2>2, <2>3, AddedBecomes
  <2>6. Map'[k] = Mapped(n)
    BY <1>2, <1>6, <2>4, <2>5, NodePut
  <2>7. Origin(k) = NULL
    <3>1. At(table)[k] = NULL
      BY <1>2, <1>6, <2>2, AtIs
    <3> QED
      BY <1>2, <1>6, <1>7, <3>1, GotOfMap
  <2>8. Mapped(n) = [type |-> "string", val |-> r.val, exp |-> r.exp]
    BY <2>4, PersistenceAssumption DEF Mapped, String
  <2>9. LoadedRow(k, p, p)'
    <3>1. Origin(k)' = NULL /\ file' = file
      BY <2>1, <2>7 DEF Origin, NextRow
    <3>2. Says(file'[p], file') = [type |-> "string", val |-> r.val, exp |-> r.exp]
      BY <1>4, <1>6, <3>1 DEF Says
    <3> QED
      BY <1>4, <1>6, <2>6, <2>8, <3>1, <3>2 DEF LoadedRow
  <2>10. LoadedKey(k, pos - 1)'
    BY <1>1, <1>3, <1>4, <1>5, <2>1, <2>9, AloneLoaded
  <2> QED
    BY <1>1, <1>3, <1>4, <1>5, <1>6, <2>1, <2>4, <2>5, <2>10, NextRowSound
<1> QED
  BY <1>8, <1>9

LEMMA BitmapSound == Typed /\ Sound /\ loadBitmapEntry => Sound'
<1> SUFFICES ASSUME Typed, Sound, loadBitmapEntry PROVE Sound'
  OBVIOUS
<1>1. pc \in {"boot", "load"} /\ pos <= Len(file) /\ file[pos].type = "bitmap"
  BY DEF loadBitmapEntry, Loading
<1>2. /\ table \in Seq(Node) /\ file \in Seq(Row) /\ pos \in Nat /\ pos >= 1
      /\ Distinct(table) /\ Full
  BY <1>1 DEF Typed, TypeOK, Sound
<1>3. PICK p \in Nat : p = pos /\ p >= 1
  BY <1>2
<1>4. PICK r : r = file[p]
  OBVIOUS
<1>5. PICK k : k = r.key
  OBVIOUS
<1>6. r \in Row /\ k \in Keys /\ r.type = "bitmap" /\ Bitmap(r.words) \in Object
  <2>1. r \in Row /\ r.type = "bitmap"
    BY <1>1, <1>2, <1>3, <1>4
  <2> QED
    BY <1>5, <2>1, RowFields, ObjectsAre
<1>7. table' = SetTo(table, k, Bitmap(r.words)) /\ NextRow(FALSE)
  BY <1>3, <1>4, <1>5 DEF loadBitmapEntry
<1>8. PICK e \in Nat : Becomes(table', table, [At(table) EXCEPT ![k] = NodeOf(k, Bitmap(r.words), e)])
  BY <1>2, <1>6, <1>7, SetToBecomes
<1>9. PICK n : n = NodeOf(k, Bitmap(r.words), e)
  OBVIOUS
<1>10. n \in Node /\ n.obj = Bitmap(r.words) /\ n.obj # Zset(NoMember)
  BY <1>6, <1>9 DEF NodeOf, Node, Bitmap, Zset
<1>11. Map'[k] = Mapped(n)
  BY <1>2, <1>6, <1>8, <1>9, <1>10, NodePut
<1>12. Mapped(n) = Bitmap(r.words)
  BY <1>10, PersistenceAssumption DEF Mapped, Bitmap
<1>13. LoadedRow(k, p, p)'
  <2>1. file' = file
    BY <1>7 DEF NextRow
  <2>2. Says(file'[p], file') = Bitmap(r.words)
    BY <1>4, <1>6, <2>1 DEF Says
  <2> QED
    BY <1>4, <1>6, <1>11, <1>12, <2>1, <2>2 DEF LoadedRow
<1>14. LoadedKey(k, pos - 1)'
  BY <1>1, <1>3, <1>4, <1>5, <1>7, <1>13, AloneLoaded
<1> QED
  BY <1>1, <1>3, <1>4, <1>5, <1>6, <1>7, <1>8, <1>9, <1>10, <1>14, NextRowSound

(* The members read so far of the key of a row, when it answers 1.         *)
LEMMA MembersSoFar ==
  ASSUME Typed, Sound, pc \in {"boot", "load"}, pos <= Len(file),
         NEW p \in Nat, p = pos, NEW r, r = file[p], NEW k, k = r.key,
         r.type = "zset", AnswersOne(r), ~(pc = "load" /\ IsZset(before[k]))
  PROVE  /\ Origin(k) = NULL \/ Promise!Expired(Origin(k))
         /\ \E g \in [Members -> Scores \cup {NULL}] :
              /\ g = IF Got(table, k) = NULL THEN NoMember ELSE Got(table, k).score
              /\ ScoresAre(g, k, p - 1)
         /\ \A i \in 1..(p - 1) : file[i].key = k =>
              file[i].type = "zset" /\ file[i].member # r.member
<1>1. /\ table \in Seq(Node) /\ file \in Seq(Row) /\ p >= 1 /\ p <= Len(file)
      /\ Distinct(table) /\ Full
  BY DEF Typed, TypeOK, Sound
<1>2. r \in Row /\ k \in Keys
  <2>1. r \in Row
    BY <1>1
  <2> QED
    BY <2>1, RowFields
<1>3. LoadedKey(k, p - 1)
  BY <1>2 DEF Sound
<1>4. \A i \in 1..(p - 1) : file[i].key = k => file[i].type = "zset" /\ file[i].member # r.member
  <2>1. ASSUME NEW i \in 1..(p - 1), file[i].key = k
        PROVE  file[i].type = "zset" /\ file[i].member # r.member
    <3>1. i \in 1..Len(file) /\ p \in 1..Len(file) /\ i # p
      BY <1>1
    <3> QED
      BY <2>1, <3>1 DEF Sound, Apart
  <2> QED
    BY <2>1
<1>5. Got(table, k) # NULL => IsZset(Got(table, k))
  BY DEF AnswersOne
<1>6. PICK g : g = IF Got(table, k) = NULL THEN NoMember ELSE Got(table, k).score
  OBVIOUS
<1>7. g \in [Members -> Scores \cup {NULL}]
  <2>1. Got(table, k) \in Object \cup {NULL}
    BY <1>1, <1>2, GotIs
  <2> QED
    BY <1>5, <1>6, <2>1, ObjectsAre
<1>8. /\ IsZset(Map[k]) => Got(table, k) = Map[k]
      /\ At(table)[k] # NULL /\ At(table)[k].obj # Zset(NoMember) =>
           /\ Got(table, k) = NULL => Map[k] = NULL \/ Promise!Expired(Map[k])
           /\ IsZset(Got(table, k)) => Map[k] = Got(table, k)
      /\ At(table)[k] = NULL => Map[k] = NULL /\ Got(table, k) = NULL
  BY <1>1, <1>2, GotOfMap
<1>9. At(table)[k] # NULL => At(table)[k].obj # Zset(NoMember)
  BY <1>1, <1>2 DEF Full
<1>10. CASE \A i \in 1..(p - 1) : file[i].key # k
  <2>1. Map[k] = Origin(k)
    BY <1>3, <1>10 DEF LoadedKey
  <2>2. Got(table, k) = NULL
    <3>1. SUFFICES ASSUME IsZset(Got(table, k)) PROVE FALSE
      BY <1>5
    <3>2. Origin(k) = Got(table, k) /\ Got(table, k) # NULL
      BY <1>8, <1>9, <2>1, <3>1 DEF IsZset
    <3> QED
      BY <3>1, <3>2 DEF Origin
  <2>3. Origin(k) = NULL \/ Promise!Expired(Origin(k))
    <3>1. Map[k] = NULL \/ Promise!Expired(Map[k])
      BY <1>8, <1>9, <2>2
    <3> QED
      BY <2>1, <3>1
  <2>4. ScoresAre(g, k, p - 1)
    BY <1>6, <1>7, <1>10, <2>2 DEF ScoresAre, NoMember
  <2> QED
    BY <1>4, <1>6, <1>7, <2>3, <2>4
<1>11. CASE \E i \in 1..(p - 1) : file[i].key = k
  <2>1. PICK i \in 1..(p - 1) : file[i].key = k
    BY <1>11
  <2>2. LoadedRow(k, i, p - 1) /\ file[i].type = "zset"
    BY <1>3, <1>4, <2>1 DEF LoadedKey
  <2>3. /\ Origin(k) = NULL \/ Promise!Expired(Origin(k))
        /\ \E f \in [Members -> Scores \cup {NULL}] : ScoresAre(f, k, p - 1) /\ Map[k] = Zset(f)
    BY <2>2 DEF LoadedRow
  <2>4. PICK f \in [Members -> Scores \cup {NULL}] : ScoresAre(f, k, p - 1) /\ Map[k] = Zset(f)
    BY <2>3
  <2>5. IsZset(Zset(f)) /\ Zset(f).score = f /\ Zset(f) # NULL
    <3>1. Zset(f) \in Object
      BY ObjectsAre
    <3> QED
      BY <3>1, PersistenceAssumption DEF IsZset, Zset
  <2>6. Got(table, k) = Zset(f)
    BY <1>8, <2>4, <2>5
  <2>7. g = f
    BY <1>6, <2>5, <2>6
  <2> QED
    BY <1>4, <1>6, <1>7, <2>3, <2>4, <2>7
<1> QED
  BY <1>10, <1>11

LEMMA MemberSound == Typed /\ Sound /\ loadSkiplistEntry /\ ~broken' => Sound'
<1> SUFFICES ASSUME Typed, Sound, loadSkiplistEntry, ~broken' PROVE Sound'
  OBVIOUS
<1>1. pc \in {"boot", "load"} /\ pos <= Len(file) /\ file[pos].type = "zset"
  BY DEF loadSkiplistEntry, Loading
<1>2. /\ table \in Seq(Node) /\ file \in Seq(Row) /\ pos \in Nat /\ pos >= 1
      /\ Distinct(table) /\ Full
  BY <1>1 DEF Typed, TypeOK, Sound
<1>3. PICK p \in Nat : p = pos /\ p >= 1
  BY <1>2
<1>4. PICK r : r = file[p]
  OBVIOUS
<1>5. PICK k : k = r.key
  OBVIOUS
<1>6. PICK m : m = r.member
  OBVIOUS
<1>7. PICK v : v = Reread[r.score]
  OBVIOUS
<1>8. /\ r \in Row /\ k \in Keys /\ m \in Members /\ r.type = "zset" /\ r.score \in Scores
      /\ v \in Scores \cup {NULL}
  BY <1>1, <1>3, <1>4, <1>5, <1>6, <1>7, RowOfMember DEF loadSkiplistEntry
<1>9. /\ AnswersOne(r) /\ table' = WithScore(table, k, m, v) /\ NextRow(pc = "load" /\ IsZset(before[k]))
  BY <1>3, <1>4, <1>5, <1>6, <1>7 DEF loadSkiplistEntry
<1>10. v # NULL /\ v \in Scores /\ (Got(table, k) # NULL => IsZset(Got(table, k)))
  BY <1>5, <1>7, <1>8, <1>9 DEF AnswersOne
<1>11. ~(pc = "load" /\ IsZset(before[k]))
  BY <1>9 DEF NextRow
<1>12. /\ Origin(k) = NULL \/ Promise!Expired(Origin(k))
       /\ \E g \in [Members -> Scores \cup {NULL}] :
              /\ g = IF Got(table, k) = NULL THEN NoMember ELSE Got(table, k).score
              /\ ScoresAre(g, k, p - 1)
       /\ \A i \in 1..(p - 1) : file[i].key = k => file[i].type = "zset" /\ file[i].member # r.member
  BY <1>1, <1>3, <1>4, <1>5, <1>8, <1>9, <1>11, MembersSoFar
<1>13. PICK g \in [Members -> Scores \cup {NULL}] :
              /\ g = IF Got(table, k) = NULL THEN NoMember ELSE Got(table, k).score
              /\ ScoresAre(g, k, p - 1)
  BY <1>12
<1>14. PICK f : f = [g EXCEPT ![m] = v]
  OBVIOUS
<1>15. f \in [Members -> Scores \cup {NULL}] /\ f[m] = v /\ \A x \in Members : x # m => f[x] = g[x]
  BY <1>8, <1>13, <1>14
<1>16. PICK e \in Nat : Becomes(table', table, [At(table) EXCEPT ![k] = NodeOf(k, Zset(f), e)])
  <2>1. f = Scored(table, k, m, v)
    BY <1>13, <1>14 DEF Scored
  <2>2. Got(table, k) = NULL \/ IsZset(Got(table, k))
    BY <1>10
  <2>3. \E e \in Nat :
          Becomes(WithScore(table, k, m, v), table,
                  [At(table) EXCEPT ![k] = NodeOf(k, Zset(Scored(table, k, m, v)), e)])
    BY ONLY <1>2, <1>8, <2>2, WithScoreBecomes
  <2> QED
    BY <1>9, <2>1, <2>3
<1>17. PICK n : n = NodeOf(k, Zset(f), e)
  OBVIOUS
<1>18. Zset(f) \in Object /\ Zset(f) # Zset(NoMember) /\ Zset(f).type = "zset"
  <2>1. f # NoMember
    BY <1>8, <1>10, <1>15 DEF NoMember
  <2> QED
    BY <1>15, <2>1, ObjectsAre DEF Zset
<1>19. n \in Node /\ n.obj = Zset(f) /\ n.obj # Zset(NoMember)
  BY <1>8, <1>17, <1>18 DEF NodeOf, Node
<1>20. Map'[k] = Zset(f)
  <2>1. \A j \in Keys : Map'[j] = IF j = k THEN Mapped(n) ELSE Map[j]
    <3>1. Becomes(table', table, [At(table) EXCEPT ![k] = n])
      BY <1>16, <1>17
    <3>2. table \in Seq(Node) /\ Distinct(table) /\ k \in Keys /\ n \in Node \cup {NULL}
      BY <1>2, <1>8, <1>19
    <3> QED
      BY ONLY <3>1, <3>2, NodePut
  <2>2. Mapped(n) = Zset(f)
    BY <1>18, <1>19, PersistenceAssumption DEF Mapped
  <2> QED
    BY <1>8, <2>1, <2>2
<1>21. file' = file /\ pos' - 1 = p /\ clock' = clock /\ Origin(k)' = Origin(k)
  BY <1>3, <1>9 DEF NextRow, Origin
<1>22. \A i \in 1..p : i # p => i \in 1..(p - 1)
  BY <1>3
<1>23. 1..(p - 1) \subseteq 1..p /\ p \in 1..p
  BY <1>3
<1>24. ScoresAre(f, k, p)'
  <2>1. ASSUME NEW i \in 1..p, file[i].key = k
        PROVE  Reread[file[i].score] # NULL /\ f[file[i].member] = Reread[file[i].score]
    <3>1. CASE i = p
      BY <1>4, <1>6, <1>7, <1>10, <1>15, <3>1
    <3>2. CASE i # p
      <4>1. i \in 1..(p - 1) /\ file[i].member # m
        BY <1>6, <1>12, <1>22, <2>1, <3>2
      <4>2. Reread[file[i].score] # NULL /\ g[file[i].member] = Reread[file[i].score]
        BY <1>13, <2>1, <4>1 DEF ScoresAre
      <4>3. file[i].member \in Members
        <5>1. i \in 1..Len(file)
          BY <1>1, <1>2, <1>3, <4>1
        <5>2. file[i] \in Row /\ file[i].type = "zset"
          BY <1>2, <1>12, <2>1, <4>1, <5>1
        <5> QED
          BY <5>2, RowFields
      <4> QED
        BY <1>15, <4>1, <4>2, <4>3
    <3> QED
      BY <3>1, <3>2
  <2>2. ASSUME NEW x \in Members, \A i \in 1..p : file[i].key = k => file[i].member # x
        PROVE  f[x] = NULL
    <3>1. x # m
      BY <1>4, <1>5, <1>6, <1>23, <2>2
    <3>2. g[x] = NULL
      BY <1>13, <1>23, <2>2 DEF ScoresAre
    <3> QED
      BY <1>15, <3>1, <3>2
  <2> QED
    BY <1>15, <1>21, <2>1, <2>2 DEF ScoresAre
<1>25. ASSUME NEW i \in 1..p, file[i].key = k
       PROVE  LoadedRow(k, i, p)'
  <2>1. file[i].type = "zset"
    BY <1>4, <1>8, <1>12, <1>22, <1>25
  <2>2. Promise!Expired(Origin(k))' = Promise!Expired(Origin(k))
    BY <1>21 DEF Promise!Expired
  <2> QED
    BY <1>12, <1>15, <1>20, <1>21, <1>24, <2>1, <2>2 DEF LoadedRow
<1>26. LoadedKey(k, pos - 1)'
  <2>1. \A i \in 1..p : file'[i].key = k => LoadedRow(k, i, p)'
    BY <1>21, <1>25
  <2>2. ~\A i \in 1..p : file'[i].key # k
    BY <1>4, <1>5, <1>21, <1>23
  <2> QED
    BY <1>21, <2>1, <2>2 DEF LoadedKey
<1> QED
  BY <1>1, <1>3, <1>4, <1>5, <1>8, <1>9, <1>16, <1>17, <1>19, <1>26, NextRowSound

-----------------------------------------------------------------------------
(* Every step                                                              *)

(* A process that died leaves no table.                                    *)
LEMMA DiesSound ==
  ASSUME Dies, Apart(file)'
  PROVE  Sound'
<1>1. pc' = "down" /\ table' = <<>>
  BY DEF Dies
<1>2. Distinct(table)' /\ Full'
  BY <1>1, EmptyTable DEF Full, NoNode
<1> QED
  BY <1>1, <1>2 DEF Sound

LEMMA ApartPrefix ==
  ASSUME NEW rows \in Seq(Row), Apart(rows), NEW n \in 0..Len(rows)
  PROVE  Apart(SubSeq(rows, 1, n))
<1>1. PICK q : q = SubSeq(rows, 1, n)
  OBVIOUS
<1>2. Len(q) = n /\ \A i \in 1..n : q[i] = rows[i] /\ i \in 1..Len(rows)
  BY <1>1
<1> QED
  BY <1>1, <1>2 DEF Apart

LEMMA BrokenStays == Typed /\ [Next]_vars /\ ~broken' => ~broken
<1> SUFFICES ASSUME Typed, [Next]_vars, broken PROVE broken'
  OBVIOUS
<1>1. CASE Command
  BY <1>1 DEF Command, setCommand, setbitCommand, delCommand, zaddCommand, purge, flushCommand,
              saveCommand, loadCommand, Changes
<1>2. CASE Serve
  BY <1>2 DEF Serve, updated, flushed, saved, exited, loadHashMapEntry, loadSkiplistEntry, loadAbandoned,
              loadBitmapEntry, loaded, loadTorn, Changes, NextRow
<1>3. CASE restart \/ Fault \/ Tick \/ UNCHANGED vars
  BY <1>3 DEF restart, Fault, sigHandler, sigHandlerUnsaved, sigHandlerInFlush, crash, Tick, vars
<1> QED
  BY <1>1, <1>2, <1>3 DEF Next

LEMMA ServeSound == Typed /\ Sound /\ Serve /\ ~broken' => Sound'
<1> SUFFICES ASSUME Typed, Sound, Serve, ~broken' PROVE Sound'
  OBVIOUS
<1>1. table \in Seq(Node) /\ file \in Seq(Row) /\ Distinct(table) /\ Apart(file)
  BY DEF Typed, TypeOK, Sound
<1>2. CASE updated
  <2>1. /\ op \in Update /\ Updating /\ IsZset(Got(table, op.key))
        /\ pc' = "idle" /\ table' = WithScore(table, op.key, op.member, op.score) /\ file' = file
    BY <1>2 DEF updated, Typed, TypeOK, Sound
  <2>2. PICK k \in Keys, m \in Members, s \in Scores : op = [key |-> k, member |-> m, score |-> s]
    BY <2>1 DEF Update
  <2>3. /\ IsZset(Got(table, k)) /\ table' = WithScore(table, k, m, s)
        /\ \A j \in Keys : j # k /\ At(table)[j] # NULL => At(table)[j].obj # Zset(NoMember)
    BY <2>1, <2>2 DEF Updating
  <2>4. Distinct(table)' /\ Full'
    BY ONLY <1>1, <2>3, k \in Keys, m \in Members, s \in Scores, ScoredFull
  <2> QED
    BY <1>1, <2>1, <2>4, IdleSound
<1>3. CASE flushed
  <2>1. pc' = "idle" /\ table' = <<>> /\ file' = file
    BY <1>3 DEF flushed, Changes
  <2>2. Distinct(table)' /\ Full'
    BY <2>1, EmptyTable DEF Full, NoNode
  <2> QED
    BY <1>1, <2>1, <2>2, IdleSound
<1>4. CASE saved
  <2>1. pc' = "idle" /\ table' = table /\ file' \in Rows(table) /\ pc = "save"
    BY <1>4 DEF saved
  <2>2. Distinct(table)' /\ Full'
    BY <2>1 DEF Full, Sound
  <2>3. Apart(file)'
    BY <1>1, <2>1, RowsIs
  <2> QED
    BY <2>1, <2>2, <2>3, IdleSound
<1>5. CASE exited
  <2>1. Apart(file)'
    BY <1>1, <1>5, RowsIs DEF exited
  <2> QED
    BY <1>5, <2>1, DiesSound DEF exited
<1>6. CASE loadHashMapEntry
  BY <1>6, StringSound
<1>7. CASE loadSkiplistEntry
  BY <1>7, MemberSound
<1>8. CASE loadAbandoned
  BY <1>8 DEF loadAbandoned
<1>9. CASE loadBitmapEntry
  BY <1>9, BitmapSound
<1>10. ASSUME pc \in {"boot", "load"}, LoadEnds, table' = table, file' = file
       PROVE  Sound'
  <2>1. pc' = "idle"
    BY <1>10 DEF LoadEnds
  <2>2. Distinct(table)' /\ Full' /\ Apart(file)'
    BY <1>1, <1>10 DEF Full, Sound
  <2> QED
    BY <2>1, <2>2, IdleSound
<1>11. CASE loaded
  BY <1>10, <1>11 DEF loaded
<1>12. CASE loadTorn
  <2>1. (LoadEnds /\ table' = table) \/ Dies
    BY <1>12 DEF loadTorn
  <2>2. pc \in {"boot", "load"} /\ file' = file
    BY <1>12 DEF loadTorn
  <2> QED
    BY <1>1, <1>10, <2>1, <2>2, DiesSound
<1> QED
  BY <1>2, <1>3, <1>4, <1>5, <1>6, <1>7, <1>8, <1>9, <1>11, <1>12 DEF Serve

LEMMA FaultSound == Typed /\ Sound /\ Fault /\ ~broken' => Sound'
<1> SUFFICES ASSUME Typed, Sound, Fault, ~broken' PROVE Sound'
  OBVIOUS
<1>1. table \in Seq(Node) /\ file \in Seq(Row) /\ Distinct(table) /\ Apart(file)
  BY DEF Typed, TypeOK, Sound
<1>2. CASE sigHandler
  <2>1. pc' = "exit" /\ table' = table /\ file' = <<>>
    BY <1>2 DEF sigHandler
  <2>2. Apart(file)'
    BY <2>1 DEF Apart
  <2> QED
    BY <1>1, <2>1, <2>2 DEF Sound
<1>3. CASE sigHandlerUnsaved
  BY <1>1, <1>3, DiesSound DEF sigHandlerUnsaved
<1>4. CASE sigHandlerInFlush
  BY <1>4 DEF sigHandlerInFlush
<1>5. CASE crash
  <2>1. Dies
    BY <1>5 DEF crash
  <2>2. CASE pc \in {"save", "exit"}
    <3>1. PICK q \in Rows(table) : \E n \in 0..Len(q) : file' = SubSeq(q, 1, n)
      BY <1>5, <2>2 DEF crash
    <3>2. q \in Seq(Row) /\ Apart(q)
      BY <1>1, RowsIs
    <3>3. PICK n \in 0..Len(q) : file' = SubSeq(q, 1, n)
      BY <3>1
    <3>4. Apart(file)'
      BY <3>2, <3>3, ApartPrefix
    <3> QED
      BY <2>1, <3>4, DiesSound
  <2>3. CASE pc \notin {"save", "exit"}
    <3>1. Apart(file)'
      BY <1>1, <1>5, <2>3 DEF crash
    <3> QED
      BY <2>1, <3>1, DiesSound
  <2> QED
    BY <2>2, <2>3
<1> QED
  BY <1>2, <1>3, <1>4, <1>5 DEF Fault

LEMMA StartSound == Typed /\ Sound /\ restart => Sound'
<1> SUFFICES ASSUME Typed, Sound, restart PROVE Sound'
  OBVIOUS
<1>1. /\ pc' = "boot" /\ table = <<>> /\ table' = table /\ file' = file /\ pos' = pos /\ pos = 1
      /\ Distinct(table) /\ Apart(file) /\ Full /\ table \in Seq(Node)
  BY DEF restart, Typed, TypeOK, Sound
<1>2. Distinct(table)' /\ Full' /\ Apart(file)'
  BY <1>1 DEF Full
<1>3. \A k \in Keys : Map'[k] = NULL
  <2>1. Map' = View(NoNode)
    BY <1>1, EmptyTable, MapAfter
  <2> QED
    BY <2>1 DEF View, NoNode, Mapped
<1>4. \A k \in Keys : Origin(k)' = NULL
  BY <1>1 DEF Origin
<1>5. \A i \in 1..(pos' - 1) : FALSE
  BY <1>1
<1>6. \A k \in Keys : LoadedKey(k, pos - 1)'
  BY <1>3, <1>4, <1>5 DEF LoadedKey
<1> QED
  BY <1>1, <1>2, <1>6 DEF Sound

(* Time only makes more strings expire.                                    *)
LEMMA TickSound == Typed /\ Sound /\ (Tick \/ UNCHANGED vars) => Sound'
<1> SUFFICES ASSUME Typed, Sound, Tick \/ UNCHANGED vars PROVE Sound'
  OBVIOUS
<1>1. /\ table' = table /\ file' = file /\ pc' = pc /\ op' = op /\ pos' = pos /\ before' = before
      /\ clock \in Nat /\ clock' \in Nat /\ clock' >= clock /\ file \in Seq(Row) /\ pos \in 1..(Len(file) + 1)
  BY PersistenceAssumption DEF Tick, vars, Typed, TypeOK
<1>2. Map' = Map
  BY <1>1 DEF Map
<1>3. pc = "update" => Updating'
  BY <1>1, <1>2 DEF Sound, Updating
<1>4. ASSUME pc \in {"boot", "load"}, NEW k \in Keys
      PROVE  LoadedKey(k, pos - 1)'
  <2>1. LoadedKey(k, pos - 1) /\ Origin(k)' = Origin(k)
    BY <1>1, <1>4 DEF Sound, Origin
  <2>2. Origin(k) = NULL \/ Origin(k) \in Stored
    BY <1>4 DEF Origin, Typed, TypeOK
  <2>3. Promise!Expired(Origin(k)) => Promise!Expired(Origin(k))'
    <3>1. Origin(k) # NULL /\ Origin(k).type = "string" => Origin(k).exp \in Nat
      BY <2>2, ObjectsAre DEF Stored
    <3> QED
      BY <1>1, <2>1, <3>1 DEF Promise!Expired
  <2>4. PICK p : p = pos - 1
    OBVIOUS
  <2>5. ASSUME NEW i \in 1..p, file[i].key = k
        PROVE  LoadedRow(k, i, p)'
    <3>1. LoadedRow(k, i, p)
      BY <2>1, <2>4, <2>5 DEF LoadedKey
    <3>2. file[i] \in Row
      BY <1>1, <2>4
    <3>3. Says(file[i], file)' = Says(file[i], file)
      BY <1>1
    <3>4. CASE file[i].type = "string"
      <4>1. file[i].exp \in Nat
        BY <3>2, <3>4, RowFields
      <4> QED
        BY <1>1, <1>2, <2>1, <3>1, <3>3, <3>4, <4>1 DEF LoadedRow
    <3>5. CASE file[i].type = "bitmap"
      BY <1>1, <1>2, <3>1, <3>3, <3>5 DEF LoadedRow
    <3>6. CASE file[i].type = "zset"
      <4>1. PICK f \in [Members -> Scores \cup {NULL}] : ScoresAre(f, k, p) /\ Map[k] = Zset(f)
        BY <3>1, <3>6 DEF LoadedRow
      <4>2. ScoresAre(f, k, p)'
        BY <1>1, <4>1 DEF ScoresAre
      <4>3. Origin(k)' = NULL \/ Promise!Expired(Origin(k))'
        BY <2>1, <2>3, <3>1, <3>6 DEF LoadedRow
      <4> QED
        BY <1>1, <1>2, <3>6, <4>1, <4>2, <4>3 DEF LoadedRow
    <3> QED
      BY <3>2, <3>4, <3>5, <3>6, RowFields
  <2>6. p = pos' - 1
    BY <1>1, <2>4
  <2>7. \A i \in 1..p : file'[i].key = k => LoadedRow(k, i, p)'
    BY <1>1, <2>5
  <2>8. (\A i \in 1..p : file'[i].key # k) => Map'[k] = Origin(k)'
    BY <1>1, <1>2, <2>1, <2>4 DEF LoadedKey
  <2> QED
    BY <2>6, <2>7, <2>8 DEF LoadedKey
<1>5. pc \notin {"update", "exit"} => Full'
  BY <1>1 DEF Sound, Full
<1> QED
  BY <1>1, <1>3, <1>4, <1>5 DEF Sound

LEMMA IInvInit == Init => IInv
BY TypedInit, SoundInit DEF IInv

LEMMA IInvNext == IInv /\ [Next]_vars => IInv'
<1> SUFFICES ASSUME IInv, [Next]_vars PROVE IInv'
  OBVIOUS
<1>1. Typed /\ Typed'
  BY TypedNext DEF IInv
<1>2. ASSUME ~broken' PROVE Sound'
  <2>1. Sound
    BY <1>1, <1>2, BrokenStays DEF IInv
  <2>2. CASE Command
    BY <1>1, <2>1, <2>2, CommandSound
  <2>3. CASE Serve
    BY <1>1, <1>2, <2>1, <2>3, ServeSound
  <2>4. CASE Fault
    BY <1>1, <1>2, <2>1, <2>4, FaultSound
  <2>5. CASE restart
    BY <1>1, <2>1, <2>5, StartSound
  <2>6. CASE Tick \/ UNCHANGED vars
    BY <1>1, <2>1, <2>6, TickSound
  <2> QED
    BY <2>2, <2>3, <2>4, <2>5, <2>6 DEF Next
<1> QED
  BY <1>1, <1>2 DEF IInv

-----------------------------------------------------------------------------
(* What ends the promise                                                   *)

LEMMA MappedNot ==
  \A n \in Node : n.obj # Zset(NoMember) => Mapped(n) # NULL /\ Mapped(n).type = n.obj.type
<1> SUFFICES ASSUME NEW n \in Node, n.obj # Zset(NoMember)
             PROVE  Mapped(n) # NULL /\ Mapped(n).type = n.obj.type
  OBVIOUS
<1>1. n # NULL /\ n.obj \in Object /\ n.exp \in Nat
  BY NodesAre, PersistenceAssumption
<1>2. CASE n.obj.type = "string"
  <2>1. Mapped(n) = [type |-> "string", val |-> n.obj.val, exp |-> n.exp]
    BY <1>1, <1>2 DEF Mapped
  <2>2. n.obj.val \in Strings \cup {Garbage}
    BY <1>1, <1>2, ObjectsAre
  <2>3. Mapped(n) \in Stored
    BY <1>1, <2>1, <2>2 DEF Stored
  <2> QED
    BY <1>2, <2>1, <2>3, PersistenceAssumption
<1>3. CASE n.obj.type # "string"
  <2>1. Mapped(n) = n.obj
    BY <1>1, <1>3 DEF Mapped
  <2> QED
    BY <1>1, <2>1, PersistenceAssumption
<1> QED
  BY <1>2, <1>3

(* A row of a string meets only what was there before the load.            *)
LEMMA StringMeets ==
  ASSUME Typed, Sound, Loading("string"), Find(table, file[pos].key) # 0
  PROVE  pc = "load" /\ before[file[pos].key] # NULL
<1>1. /\ pc \in {"boot", "load"} /\ pos <= Len(file) /\ file[pos].type = "string"
      /\ table \in Seq(Node) /\ file \in Seq(Row) /\ pos \in Nat /\ pos >= 1 /\ Full
  BY DEF Loading, Typed, TypeOK, Sound
<1>2. file[pos] \in Row
  BY <1>1
<1>3. PICK k \in Keys : k = file[pos].key
  BY <1>2, RowFields
<1>4. \A i \in 1..(pos - 1) : file[i].key # k
  BY <1>1, <1>3, AloneInFile
<1>5. Map[k] = Origin(k)
  BY <1>1, <1>4 DEF Sound, LoadedKey
<1>6. At(table)[k] \in Node /\ At(table)[k] # NULL
  BY <1>1, <1>3, AtIs
<1>7. Map[k] = Mapped(At(table)[k])
  BY <1>1, MapIs DEF View
<1>8. Map[k] # NULL
  BY <1>1, <1>6, <1>7, MappedNot DEF Full
<1> QED
  BY <1>3, <1>5, <1>8 DEF Origin

(* A row of a member that does not answer 1 meets what was there before.   *)
LEMMA MemberMeets ==
  ASSUME Typed, Sound, Loading("zset"), ~AnswersOne(file[pos]), Reread[file[pos].score] # NULL
  PROVE  pc = "load" /\ before[file[pos].key] # NULL
<1>1. /\ pc \in {"boot", "load"} /\ pos <= Len(file) /\ file[pos].type = "zset"
      /\ table \in Seq(Node) /\ file \in Seq(Row) /\ pos \in Nat /\ pos >= 1 /\ Full /\ Apart(file)
  BY DEF Loading, Typed, TypeOK, Sound
<1>2. PICK p \in Nat : p = pos /\ p >= 1 /\ p <= Len(file)
  BY <1>1
<1>3. PICK r : r = file[p]
  OBVIOUS
<1>4. PICK k : k = r.key
  OBVIOUS
<1>5. r \in Row /\ k \in Keys /\ r.type = "zset" /\ r.member \in Members
  <2>1. r \in Row /\ r.type = "zset"
    BY <1>1, <1>2, <1>3
  <2> QED
    BY <1>4, <2>1, RowFields
<1> SUFFICES ASSUME Origin(k) = NULL PROVE FALSE
  BY <1>1, <1>2, <1>3, <1>4 DEF Origin
<1>6. LoadedKey(k, p - 1)
  BY <1>1, <1>2, <1>5 DEF Sound
<1>7. Got(table, k) # NULL /\ ~(IsZset(Got(table, k)) /\ Got(table, k).score[r.member] = NULL)
  BY <1>2, <1>3, <1>4 DEF AnswersOne
<1>8. At(table)[k] # NULL /\ At(table)[k] \in Node /\ At(table)[k].obj # Zset(NoMember)
  <2>1. At(table)[k] # NULL
    BY <1>1, <1>5, <1>7, GotOfMap
  <2> QED
    BY <1>1, <1>5, <2>1, AtIs DEF Full
<1>9. Map[k] # NULL
  <2>1. Map[k] = Mapped(At(table)[k])
    BY <1>1, <1>5, MapIs DEF View
  <2> QED
    BY <1>8, <2>1, MappedNot
<1>10. PICK i \in 1..(p - 1) : file[i].key = k
  BY <1>6, <1>9 DEF LoadedKey
<1>11. \A j \in 1..(p - 1) : file[j].key = k => file[j].type = "zset" /\ file[j].member # r.member
  <2>1. ASSUME NEW j \in 1..(p - 1), file[j].key = k
        PROVE  file[j].type = "zset" /\ file[j].member # r.member
    <3>1. j \in 1..Len(file) /\ p \in 1..Len(file) /\ j # p
      BY <1>1, <1>2
    <3> QED
      BY <1>1, <1>3, <1>4, <2>1, <3>1 DEF Apart
  <2> QED
    BY <2>1
<1>12. PICK f \in [Members -> Scores \cup {NULL}] : ScoresAre(f, k, p - 1) /\ Map[k] = Zset(f)
  <2>1. LoadedRow(k, i, p - 1) /\ file[i].type = "zset"
    BY <1>6, <1>10, <1>11 DEF LoadedKey
  <2> QED
    BY <2>1 DEF LoadedRow
<1>13. f[r.member] = NULL
  BY <1>5, <1>11, <1>12 DEF ScoresAre
<1>14. IsZset(Map[k]) /\ Map[k].score = f
  BY <1>9, <1>12 DEF IsZset, Zset
<1>15. Got(table, k) = Map[k]
  BY <1>1, <1>5, <1>14, GotOfMap
<1> QED
  BY <1>7, <1>13, <1>14, <1>15

LEMMA Ends ==
  IInv /\ [Next]_vars /\ ~broken /\ broken' =>
    \/ pc = "flush"
    \/ pc = "update" /\ Tied(before[op.key].score, op.member)
    \/ torn /\ pos > Len(file)
    \/ file[pos].type = "zset" /\ Reread[file[pos].score] = NULL
    \/ pc = "load" /\ before[file[pos].key] # NULL
<1> SUFFICES ASSUME Typed, Sound, [Next]_vars, ~broken, broken'
             PROVE  \/ pc = "flush"
                    \/ pc = "update" /\ Tied(before[op.key].score, op.member)
                    \/ torn /\ pos > Len(file)
                    \/ file[pos].type = "zset" /\ Reread[file[pos].score] = NULL
                    \/ pc = "load" /\ before[file[pos].key] # NULL
  BY DEF IInv
<1>1. CASE Command
  BY <1>1 DEF Command, setCommand, setbitCommand, delCommand, zaddCommand, purge, flushCommand,
              saveCommand, loadCommand, Changes
<1>2. CASE updated \/ flushed \/ saved \/ exited \/ loadBitmapEntry \/ loaded
  BY <1>2 DEF updated, flushed, saved, exited, loadBitmapEntry, loaded, Changes, NextRow
<1>3. CASE loadHashMapEntry
  <2>1. Loading("string") /\ Find(table, file[pos].key) # 0
    BY <1>3 DEF loadHashMapEntry, NextRow
  <2> QED
    BY <2>1, StringMeets
<1>4. CASE loadSkiplistEntry
  <2>1. pc = "load" /\ IsZset(before[file[pos].key])
    BY <1>4 DEF loadSkiplistEntry, NextRow
  <2> QED
    BY <2>1 DEF IsZset
<1>5. CASE loadAbandoned
  <2>1. Loading("zset") /\ ~AnswersOne(file[pos])
    BY <1>5 DEF loadAbandoned
  <2> QED
    BY <2>1, MemberMeets DEF Loading
<1>6. CASE loadTorn
  BY <1>6 DEF loadTorn
<1>7. CASE restart \/ Tick \/ UNCHANGED vars
  BY <1>7 DEF restart, Tick, vars
<1>8. CASE Fault
  BY <1>8 DEF Fault, sigHandler, sigHandlerUnsaved, sigHandlerInFlush, crash
<1> QED
  BY <1>1, <1>2, <1>3, <1>4, <1>5, <1>6, <1>7, <1>8 DEF Next, Serve

(* Until a member tied with another is updated, no row of a file that was  *)
(* saved meets another of it: a load spoils or leaves out something only   *)
(* where the last row is torn, a score is refused or the key was there     *)
(* before.                                                                 *)
THEOREM LoadsSpoilOnlyThen == Spec => LoadsUnlessMetOrTorn
<1>1. IInv /\ [Next]_vars =>
        [(~broken /\ broken') =>
           \/ pc = "flush"
           \/ pc = "update" /\ Tied(before[op.key].score, op.member)
           \/ torn /\ pos > Len(file)
           \/ file[pos].type = "zset" /\ Reread[file[pos].score] = NULL
           \/ pc = "load" /\ before[file[pos].key] # NULL]_vars
  BY Ends
<1> QED
  BY <1>1, IInvInit, IInvNext, PTL DEF Spec, LoadsUnlessMetOrTorn

-----------------------------------------------------------------------------
(* What is read back of what was saved                                     *)

LEMMA SaysIs ==
  ASSUME NEW rows \in Seq(Row), Apart(rows), NEW i \in 1..Len(rows)
  PROVE  /\ Says(rows[i], rows) # NULL /\ Says(rows[i], rows).type = rows[i].type
         /\ rows[i].type = "zset" => Says(rows[i], rows).score = ReadScores(rows, rows[i].key)
<1>1. PICK r : r = rows[i]
  OBVIOUS
<1>2. r \in Row
  BY <1>1
<1>3. CASE r.type = "string"
  <2>1. Says(r, rows) = [type |-> "string", val |-> r.val, exp |-> r.exp]
    BY <1>3 DEF Says
  <2>2. Says(r, rows) \in Stored
    BY <1>2, <1>3, <2>1, RowFields DEF Stored
  <2> QED
    BY <1>1, <1>3, <2>1, <2>2, PersistenceAssumption
<1>4. CASE r.type = "bitmap"
  <2>1. Says(r, rows) = Bitmap(r.words) /\ Bitmap(r.words) \in Object
    BY <1>2, <1>4, RowFields, ObjectsAre DEF Says
  <2> QED
    BY <1>1, <1>4, <2>1, PersistenceAssumption DEF Bitmap
<1>5. CASE r.type = "zset"
  <2>1. Says(r, rows) = Zset(ReadScores(rows, r.key))
    BY <1>5 DEF Says
  <2>2. ReadScores(rows, r.key) \in [Members -> Scores \cup {NULL}]
    BY <1>1, <1>2, <1>5, RowFields, ReadScoresIs
  <2>3. Zset(ReadScores(rows, r.key)) \in Object
    BY <2>2, ObjectsAre
  <2> QED
    BY <1>1, <1>5, <2>1, <2>3, PersistenceAssumption DEF Zset
<1> QED
  BY <1>2, <1>3, <1>4, <1>5, RowFields

(* The first rows are a part of what all of them are.                      *)
LEMMA PrefixRead ==
  ASSUME NEW rows \in Seq(Row), Apart(rows), NEW n \in 0..Len(rows), NEW k \in Keys
  PROVE  Promise!PartOf(Read(SubSeq(rows, 1, n))[k], Read(rows)[k])
<1>1. PICK q : q = SubSeq(rows, 1, n)
  OBVIOUS
<1>2. /\ q \in Seq(Row) /\ Len(q) = n /\ \A i \in 1..n : q[i] = rows[i] /\ i \in 1..Len(rows)
      /\ Apart(q)
  BY <1>1, ApartPrefix
<1>3. CASE \A i \in 1..n : q[i].key # k
  <2>1. Read(q)[k] = NULL
    BY <1>2, <1>3, ReadIs
  <2> QED
    BY <1>1, <2>1 DEF Promise!PartOf
<1>4. ASSUME NEW i \in 1..n, q[i].key = k
      PROVE  Promise!PartOf(Read(q)[k], Read(rows)[k])
  <2>1. PICK r : r = q[i]
    OBVIOUS
  <2>2. r = rows[i] /\ r \in Row /\ r.key = k /\ i \in 1..Len(rows) /\ i \in 1..Len(q)
    BY <1>2, <1>4, <2>1
  <2>3. Read(q)[k] = Says(r, q)
    BY <1>2, <2>1, <2>2, ReadIs
  <2>4. Read(rows)[k] = Says(r, rows)
    BY <2>2, ReadIs
  <2>5. CASE r.type # "zset"
    <3>1. Says(r, q) = Says(r, rows)
      BY <2>2, <2>5, RowFields DEF Says
    <3> QED
      BY <2>3, <2>4, <3>1 DEF Promise!PartOf
  <2>6. CASE r.type = "zset"
    <3>1. /\ Says(r, q) # NULL /\ Says(r, q).type = "zset" /\ Says(r, q).score = ReadScores(q, k)
      <4>1. q \in Seq(Row) /\ Apart(q) /\ i \in 1..Len(q)
        BY <1>2, <2>2
      <4>2. /\ Says(q[i], q) # NULL /\ Says(q[i], q).type = q[i].type
            /\ q[i].type = "zset" => Says(q[i], q).score = ReadScores(q, q[i].key)
        BY ONLY <4>1, SaysIs
      <4> QED
        BY <2>1, <2>2, <2>6, <4>2
    <3>2. /\ Says(r, rows) # NULL /\ Says(r, rows).type = "zset"
          /\ Says(r, rows).score = ReadScores(rows, k)
      <4>1. rows \in Seq(Row) /\ Apart(rows) /\ i \in 1..Len(rows)
        BY <2>2
      <4>2. /\ Says(rows[i], rows) # NULL /\ Says(rows[i], rows).type = rows[i].type
            /\ rows[i].type = "zset" => Says(rows[i], rows).score = ReadScores(rows, rows[i].key)
        BY ONLY <4>1, SaysIs
      <4> QED
        BY <2>2, <2>6, <4>2
    <3>3. /\ \A j \in 1..n : q[j].key = k => ReadScores(q, k)[q[j].member] = Reread[q[j].score]
          /\ \A m \in Members :
               (\A j \in 1..n : q[j].key = k => q[j].member # m) => ReadScores(q, k)[m] = NULL
      <4>1. /\ q \in Seq(Row) /\ Apart(q) /\ Len(q) = n /\ k \in Keys
            /\ i \in 1..Len(q) /\ q[i].key = k /\ q[i].type = "zset"
        BY <1>2, <2>1, <2>2, <2>6
      <4>2. /\ \A j \in 1..Len(q) : q[j].key = k =>
                 q[j].type = "zset" /\ ReadScores(q, k)[q[j].member] = Reread[q[j].score]
            /\ \A m \in Members :
                 (\A j \in 1..Len(q) : q[j].key = k => q[j].member # m) =>
                    ReadScores(q, k)[m] = NULL
        BY ONLY <4>1, ReadScoresIs
      <4> QED
        BY ONLY <4>1, <4>2
    <3>4. \A j \in 1..Len(rows) : rows[j].key = k =>
            ReadScores(rows, k)[rows[j].member] = Reread[rows[j].score]
      <4>1. /\ rows \in Seq(Row) /\ Apart(rows) /\ k \in Keys
            /\ i \in 1..Len(rows) /\ rows[i].key = k /\ rows[i].type = "zset"
        BY <2>2, <2>6
      <4> QED
        BY ONLY <4>1, ReadScoresIs
    <3>5. ASSUME NEW m \in Members
          PROVE  ReadScores(q, k)[m] \in {NULL, ReadScores(rows, k)[m]}
      <4>1. CASE \A j \in 1..n : q[j].key = k => q[j].member # m
        BY <3>3, <4>1
      <4>2. ASSUME NEW j \in 1..n, q[j].key = k, q[j].member = m
            PROVE  ReadScores(q, k)[m] = ReadScores(rows, k)[m]
        BY <1>2, <3>3, <3>4, <4>2
      <4> QED
        BY <4>1, <4>2
    <3> QED
      BY <2>3, <2>4, <3>1, <3>2, <3>5 DEF Promise!PartOf
  <2> QED
    BY <2>5, <2>6
<1> QED
  BY <1>1, <1>3, <1>4

(* What is read back of the rows of a table is its map, with the scores    *)
(* as their digits say.                                                    *)
LEMMA ReadRows ==
  ASSUME NEW tbl \in Seq(Node), Distinct(tbl), NEW rows \in Rows(tbl)
  PROVE  Read(rows) = Promise!Written(View(At(tbl)))
<1>2. /\ rows \in Seq(Row) /\ Apart(rows)
      /\ \A x \in 1..Len(rows) :
           At(tbl)[rows[x].key] # NULL /\ IsRowOf(rows[x], At(tbl)[rows[x].key])
      /\ \A k \in Keys : At(tbl)[k] # NULL =>
           \A r : IsRowOf(r, At(tbl)[k]) => \E x \in 1..Len(rows) : rows[x] = r
  BY RowsIs
<1>3. ASSUME NEW k \in Keys
      PROVE  Read(rows)[k] = Promise!Written(View(At(tbl)))[k]
  <2>1. PICK n : n = At(tbl)[k]
    OBVIOUS
  <2>2. /\ n \in Node \cup {NULL}
        /\ n # NULL => n.key = k
    BY <2>1, AtIs
  <2>3. View(At(tbl))[k] = Mapped(n)
    BY <2>1 DEF View
  <2>4. Promise!Written(View(At(tbl)))[k] =
          IF Mapped(n) = NULL \/ Mapped(n).type # "zset" THEN Mapped(n)
          ELSE [Mapped(n) EXCEPT !.score =
                  [x \in Members |-> IF @[x] = NULL THEN NULL ELSE Reread[@[x]]]]
    BY <2>3 DEF Promise!Written
  <2>5. ASSUME n = NULL PROVE Read(rows)[k] = NULL
    <3>1. \A i \in 1..Len(rows) : rows[i].key # k
      BY <1>2, <2>1, <2>5
    <3> QED
      BY <1>2, <3>1, ReadIs
  <2>6. CASE n = NULL
    BY <2>4, <2>5, <2>6 DEF Mapped
  <2>7. ASSUME NEW r, n # NULL, IsRowOf(r, n)
        PROVE  /\ r \in Row /\ r.key = k /\ r.type = n.obj.type
               /\ \E i \in 1..Len(rows) : rows[i] = r
               /\ Read(rows)[k] = Says(r, rows)
    <3>1. r \in Row /\ r.key = k /\ r.type = n.obj.type
      BY <2>2, <2>7, RowIs
    <3>2. PICK i \in 1..Len(rows) : rows[i] = r
      BY <1>2, <2>1, <2>7
    <3>3. Read(rows)[k] = Says(r, rows)
      BY <1>2, <3>1, <3>2, ReadIs
    <3> QED
      BY <3>1, <3>2, <3>3
  <2>8. CASE n # NULL /\ n.obj.type = "string"
    <3>1. PICK r : r = [key |-> n.key, type |-> "string", val |-> n.obj.val, exp |-> n.exp]
      OBVIOUS
    <3>2. Read(rows)[k] = [type |-> "string", val |-> n.obj.val, exp |-> n.exp]
      BY <2>7, <2>8, <3>1 DEF IsRowOf, Says
    <3>3. n.obj # Zset(NoMember)
      BY <2>8 DEF Zset
    <3>4. Mapped(n) = [type |-> "string", val |-> n.obj.val, exp |-> n.exp]
      BY <2>8, <3>3 DEF Mapped
    <3> QED
      BY <2>4, <3>2, <3>4
  <2>9. CASE n # NULL /\ n.obj.type = "bitmap"
    <3>1. PICK r : r = [key |-> n.key, type |-> "bitmap", words |-> n.obj.words]
      OBVIOUS
    <3>2. Read(rows)[k] = Bitmap(n.obj.words)
      <4>1. IsRowOf(r, n)
        BY <2>9, <3>1 DEF IsRowOf
      <4>2. Read(rows)[k] = Says(r, rows)
        BY <2>7, <2>9, <4>1
      <4>3. r.type = "bitmap" /\ r.words = n.obj.words
        BY <3>1
      <4> QED
        BY <4>2, <4>3 DEF Says
    <3>3. n.obj # Zset(NoMember) /\ n.obj = Bitmap(n.obj.words)
      BY <2>2, <2>9, NodesAre, ObjectsAre DEF Zset
    <3>4. Mapped(n) = Bitmap(n.obj.words)
      BY <2>9, <3>3 DEF Mapped
    <3> QED
      BY <2>4, <2>9, <3>2, <3>3, <3>4
  <2>10. ASSUME n # NULL, n.obj.type = "zset"
         PROVE  Read(rows)[k] = Promise!Written(View(At(tbl)))[k]
    <3>1. PICK f \in [Members -> Scores \cup {NULL}] : n.obj = Zset(f)
      <4>1. n.obj \in Object /\ n.obj # NULL
        BY <2>2, <2>10, NodesAre, PersistenceAssumption
      <4> QED
        BY <2>10, <4>1, ObjectsAre DEF IsZset
    <3>2. n.obj.score = f
      BY <3>1 DEF Zset
    <3>3. \A r : IsRowOf(r, n) <=> \E m \in Members : f[m] # NULL /\ r = MemberRow(n, m)
      BY <2>10, <3>2 DEF IsRowOf
    <3>4. \A m \in Members : /\ MemberRow(n, m).key = k /\ MemberRow(n, m).member = m
                             /\ MemberRow(n, m).score = f[m] /\ MemberRow(n, m).type = "zset"
      BY <2>2, <2>10, <3>2 DEF MemberRow
    <3>5. CASE f = NoMember
      <4>1. \A i \in 1..Len(rows) : rows[i].key # k
        BY <1>2, <2>1, <3>3, <3>5 DEF NoMember
      <4>2. Read(rows)[k] = NULL
        BY <1>2, <4>1, ReadIs
      <4>3. Mapped(n) = NULL
        BY <3>1, <3>5 DEF Mapped
      <4> QED
        BY <2>4, <4>2, <4>3
    <3>6. CASE f # NoMember
      <4>1. PICK m0 \in Members : f[m0] # NULL
        BY <3>6 DEF NoMember
      <4>2. PICK r : r = MemberRow(n, m0)
        OBVIOUS
      <4>3. /\ Read(rows)[k] = Says(r, rows) /\ r.key = k /\ r.type = "zset"
            /\ \E i \in 1..Len(rows) : rows[i] = r
        BY <2>7, <2>10, <3>3, <4>1, <4>2
      <4>4. PICK i0 \in 1..Len(rows) : rows[i0] = r
        BY <4>3
      <4>5. Read(rows)[k] = Zset(ReadScores(rows, k))
        BY <4>3 DEF Says
      <4>6. /\ ReadScores(rows, k) \in [Members -> Scores \cup {NULL}]
            /\ \A i \in 1..Len(rows) : rows[i].key = k =>
                 ReadScores(rows, k)[rows[i].member] = Reread[rows[i].score]
            /\ \A m \in Members :
                 (\A i \in 1..Len(rows) : rows[i].key = k => rows[i].member # m) =>
                    ReadScores(rows, k)[m] = NULL
        BY <1>2, <4>3, <4>4, ReadScoresIs
      <4>7. ASSUME NEW m \in Members
            PROVE  ReadScores(rows, k)[m] = IF f[m] = NULL THEN NULL ELSE Reread[f[m]]
        <5>1. CASE f[m] # NULL
          <6>1. PICK i \in 1..Len(rows) : rows[i] = MemberRow(n, m)
            BY <2>7, <2>10, <3>3, <5>1
          <6> QED
            BY <3>4, <4>6, <5>1, <6>1
        <5>2. CASE f[m] = NULL
          <6>1. ASSUME NEW i \in 1..Len(rows), rows[i].key = k PROVE rows[i].member # m
            <7>1. PICK x \in Members : f[x] # NULL /\ rows[i] = MemberRow(n, x)
              BY <1>2, <2>1, <3>3, <6>1
            <7> QED
              BY <3>4, <5>2, <7>1
          <6> QED
            BY <4>6, <5>2, <6>1
        <5> QED
          BY <5>1, <5>2
      <4>8. ReadScores(rows, k) = [m \in Members |-> IF f[m] = NULL THEN NULL ELSE Reread[f[m]]]
        BY <4>6, <4>7
      <4>9. Mapped(n) = Zset(f) /\ Mapped(n) # NULL
        <5>1. Zset(f) # Zset(NoMember)
          BY <3>6 DEF Zset
        <5>2. Zset(f) \in Object
          BY ObjectsAre
        <5> QED
          BY <2>10, <3>1, <5>1, <5>2, PersistenceAssumption DEF Mapped
      <4>10. Promise!Written(View(At(tbl)))[k] =
               [Zset(f) EXCEPT !.score = [x \in Members |-> IF @[x] = NULL THEN NULL ELSE Reread[@[x]]]]
        BY <2>4, <4>9 DEF Zset
      <4>11. [Zset(f) EXCEPT !.score = [x \in Members |-> IF @[x] = NULL THEN NULL ELSE Reread[@[x]]]]
             = Zset([m \in Members |-> IF f[m] = NULL THEN NULL ELSE Reread[f[m]]])
        BY DEF Zset
      <4> QED
        BY <4>5, <4>8, <4>10, <4>11
    <3> QED
      BY <3>5, <3>6
  <2>11. n # NULL => n.obj.type \in {"string", "bitmap", "zset"}
    BY <2>2, NodesAre, ObjectsAre
  <2> QED
    BY <2>6, <2>8, <2>9, <2>10, <2>11
<1>4. PICK F : F = View(At(tbl))
  OBVIOUS
<1>5. PICK a, b : a = Read(rows) /\ b = Promise!Written(F)
  OBVIOUS
<1>6. DOMAIN a = Keys /\ a = [k \in Keys |-> a[k]] /\ b = [k \in Keys |-> b[k]]
  BY <1>5 DEF Read, Promise!Written
<1>7. \A k \in Keys : a[k] = b[k]
  BY <1>3, <1>4, <1>5
<1>8. a = b
  BY ONLY <1>6, <1>7
<1> QED
  BY <1>4, <1>5, <1>8

-----------------------------------------------------------------------------
(* Every step is one of Durable, or none                                   *)

LEMMA DiskAfter == disk' = Read(IF pc' \in {"save", "exit"} THEN kept' ELSE file')
BY DEF disk, Read, ReadScores

LEMMA DbIs ==
  /\ pc \in {"down", "boot"} => db = Promise!Nothing
  /\ pc \in {"update", "load"} => db = before
  /\ pc \in {"idle", "flush", "save", "exit"} => db = Map
BY DEF db, Promise!Nothing

LEMMA DbAfter ==
  /\ pc' \in {"down", "boot"} => db' = Promise!Nothing
  /\ pc' \in {"update", "load"} => db' = before'
  /\ pc' \in {"idle", "flush", "save", "exit"} => db' = Map'
BY DEF db, Promise!Nothing

LEMMA DurableInit == Init => Promise!Init
<1> SUFFICES ASSUME Init PROVE Promise!Init
  OBVIOUS
<1>1. db = Promise!Nothing
  BY DbIs DEF Init
<1>2. disk = Read(<<>>)
  BY DiskIs DEF Init
<1>3. Read(<<>>) = Promise!Nothing
  BY DEF Read, Promise!Nothing
<1> QED
  BY <1>1, <1>2, <1>3 DEF Init, Promise!Init

LEMMA BrokenBusy ==
  [Next]_vars /\ ~broken /\ broken' => pc \in {"boot", "update", "flush", "load"}
<1> SUFFICES ASSUME [Next]_vars, ~broken, broken'
             PROVE  pc \in {"boot", "update", "flush", "load"}
  OBVIOUS
<1>1. CASE Command
  BY <1>1 DEF Command, setCommand, setbitCommand, delCommand, zaddCommand, purge, flushCommand,
              saveCommand, loadCommand, Changes
<1>2. CASE Serve
  BY <1>2 DEF Serve, updated, flushed, saved, exited, loadHashMapEntry, loadSkiplistEntry, loadAbandoned,
              loadBitmapEntry, loaded, loadTorn, Loading, Changes
<1>3. CASE restart \/ Fault \/ Tick \/ UNCHANGED vars
  BY <1>3 DEF restart, Fault, sigHandler, sigHandlerUnsaved, sigHandlerInFlush, crash, Tick, vars
<1> QED
  BY <1>1, <1>2, <1>3 DEF Next

(* A command that changes the node of one key.                             *)
LEMMA OneKeyChanges ==
  ASSUME table \in Seq(Node), Distinct(table), pc = "idle", pc' = "idle",
         UNCHANGED <<clock, file, broken>>, NEW k \in Keys, NEW n \in Node \cup {NULL},
         Becomes(table', table, [At(table) EXCEPT ![k] = n])
  PROVE  Promise!Command
<1>1. \A j \in Keys : Map'[j] = IF j = k THEN Mapped(n) ELSE Map[j]
  BY NodePut
<1>2. db = Map /\ db' = Map' /\ disk' = disk
  BY DbIs, DbAfter, DiskIs, DiskAfter
<1>3. \A j \in Keys \ {k} : db'[j] = db[j]
  BY <1>1, <1>2
<1> QED
  BY <1>2, <1>3 DEF Promise!Command

LEMMA CommandDurable == Typed /\ Sound /\ Command => Promise!Next \/ UNCHANGED Promise!vars
<1> SUFFICES ASSUME Typed, Sound, Command PROVE Promise!Next \/ UNCHANGED Promise!vars
  OBVIOUS
<1>1. /\ table \in Seq(Node) /\ clock \in Nat /\ DefaultExpiry \in Nat /\ Ttls \subseteq Nat
      /\ Distinct(table)
  BY PersistenceAssumption DEF Typed, TypeOK, Sound
<1>2. pc = "idle"
  BY DEF Command, setCommand, setbitCommand, delCommand, zaddCommand, purge, flushCommand,
         saveCommand, loadCommand
<1>3. ASSUME NEW tbl, Changes(tbl)
      PROVE  table' = tbl /\ UNCHANGED <<clock, file, broken>>
  BY <1>3 DEF Changes
<1>4. db = Map /\ disk = Read(file)
  BY <1>2, DbIs, DiskIs
<1>5. PICK k0 : k0 \in Keys
  BY PersistenceAssumption
<1>6. ASSUME table' = table PROVE Map' = Map
  BY <1>6 DEF Map
<1>7. CASE setCommand
  <2>1. PICK k \in Keys, v \in Strings, t \in Ttls :
          Changes(SetUntil(table, k, String(v), IF t = 0 THEN DefaultExpiry ELSE t + clock))
    BY <1>7 DEF setCommand
  <2>2. PICK e : e = IF t = 0 THEN DefaultExpiry ELSE t + clock
    OBVIOUS
  <2>3. e \in Nat /\ String(v) \in Object
    BY <1>1, <2>2, ObjectsAre
  <2>4. NodeOf(k, String(v), e) \in Node
    BY <2>3 DEF NodeOf, Node
  <2>5. Becomes(table', table, [At(table) EXCEPT ![k] = NodeOf(k, String(v), e)])
    <3>1. table' = SetUntil(table, k, String(v), e)
      BY <1>3, <2>1, <2>2
    <3> QED
      BY <1>1, <2>3, <3>1, SetUntilBecomes
  <2>6. pc' = "idle" /\ UNCHANGED <<clock, file, broken>>
    BY <1>2, <1>3, <1>7, <2>1 DEF setCommand
  <2> QED
    BY <1>1, <1>2, <2>4, <2>5, <2>6, OneKeyChanges DEF Promise!Next
<1>8. CASE setbitCommand
  <2>1. PICK k \in Keys, c \in Contents : Changes(SetTo(Purged(table, k), k, Bitmap(c)))
    BY <1>8 DEF setbitCommand
  <2>2. Bitmap(c) \in Object
    BY ObjectsAre
  <2>3. PICK e \in Nat : Becomes(table', table, [At(table) EXCEPT ![k] = NodeOf(k, Bitmap(c), e)])
    BY <1>1, <1>3, <2>1, <2>2, SetPurgedBecomes
  <2>4. NodeOf(k, Bitmap(c), e) \in Node
    BY <2>2 DEF NodeOf, Node
  <2>5. pc' = "idle" /\ UNCHANGED <<clock, file, broken>>
    BY <1>2, <1>3, <1>8, <2>1 DEF setbitCommand
  <2> QED
    BY <1>1, <1>2, <2>3, <2>4, <2>5, OneKeyChanges DEF Promise!Next
<1>9. CASE purge
  <2>1. PICK k \in Keys : Changes(Purged(table, k))
    BY <1>9 DEF purge
  <2>2. Becomes(table', table, [At(table) EXCEPT ![k] = Fresh(@)])
    BY <1>1, <1>3, <2>1, PurgedBecomes
  <2>3. PICK n : n = Fresh(At(table)[k])
    OBVIOUS
  <2>4. n \in Node \cup {NULL} /\ At(table) \in [Keys -> Node \cup {NULL}]
    BY <1>1, <2>3, AtIs DEF Fresh
  <2>5. Becomes(table', table, [At(table) EXCEPT ![k] = n])
    BY <2>2, <2>3, <2>4
  <2>6. pc' = "idle" /\ UNCHANGED <<clock, file, broken>>
    BY <1>2, <1>3, <1>9, <2>1 DEF purge
  <2> QED
    BY <1>1, <1>2, <2>4, <2>5, <2>6, OneKeyChanges DEF Promise!Next
<1>10. CASE delCommand
  <2>1. PICK k \in Keys : Find(table, k) # 0 /\ Changes(RemoveAt(table, Find(table, k)))
    BY <1>10 DEF delCommand
  <2>2. Becomes(table', table, [At(table) EXCEPT ![k] = NULL])
    BY <1>1, <1>3, <2>1, RemovedBecomes
  <2>3. pc' = "idle" /\ UNCHANGED <<clock, file, broken>>
    BY <1>2, <1>3, <1>10, <2>1 DEF delCommand
  <2> QED
    BY <1>1, <1>2, <2>2, <2>3, OneKeyChanges DEF Promise!Next
<1>11. ASSUME pc' \in {"update", "load", "flush"}, db' = db, UNCHANGED <<clock, file, broken>>
       PROVE  Promise!Command
  <2>1. disk' = disk
    BY <1>4, <1>11, DiskAfter
  <2> QED
    BY <1>2, <1>5, <1>11, <2>1 DEF Promise!Command
<1>12. CASE zaddCommand
  <2>1. PICK k \in Keys, m \in Members, s \in Scores :
          /\ Got(table, k) # NULL => IsZset(Got(table, k))
          /\ IF IsZset(Got(table, k)) /\ Got(table, k).score[m] # NULL
             THEN /\ pc' = "update" /\ before' = Map
                  /\ Changes(WithScore(table, k, m, NULL)) \/ Changes(table)
             ELSE Changes(WithScore(table, k, m, s)) /\ UNCHANGED <<pc, op, before>>
    BY <1>12 DEF zaddCommand
  <2>2. CASE IsZset(Got(table, k)) /\ Got(table, k).score[m] # NULL
    <3>1. pc' = "update" /\ before' = Map /\ UNCHANGED <<clock, file, broken>>
      BY <1>3, <2>1, <2>2
    <3>2. db' = db
      BY <1>4, <3>1, DbAfter
    <3> QED
      BY <1>11, <3>1, <3>2 DEF Promise!Next
  <2>3. CASE ~(IsZset(Got(table, k)) /\ Got(table, k).score[m] # NULL)
    <3>1. /\ pc' = "idle" /\ table' = WithScore(table, k, m, s) /\ UNCHANGED <<clock, file, broken>>
          /\ Got(table, k) = NULL \/ IsZset(Got(table, k))
      BY <1>2, <1>3, <2>1, <2>3
    <3>2. PICK f : f = Scored(table, k, m, s)
      OBVIOUS
    <3>3. f \in [Members -> Scores \cup {NULL}]
      BY <1>1, <3>1, <3>2, WithScoreBecomes
    <3>4. PICK e \in Nat : Becomes(table', table, [At(table) EXCEPT ![k] = NodeOf(k, Zset(f), e)])
      BY <1>1, <3>1, <3>2, WithScoreBecomes
    <3>5. NodeOf(k, Zset(f), e) \in Node
      BY <3>3, ObjectsAre DEF NodeOf, Node
    <3> QED
      BY <1>1, <1>2, <3>1, <3>4, <3>5, OneKeyChanges DEF Promise!Next
  <2> QED
    BY <2>2, <2>3
<1>13. CASE flushCommand
  <2>1. pc' = "flush" /\ table' = table /\ UNCHANGED <<clock, file, broken>>
    BY <1>3, <1>13 DEF flushCommand
  <2>2. db' = db
    BY <1>4, <1>6, <2>1, DbAfter
  <2> QED
    BY <1>11, <2>1, <2>2 DEF Promise!Next
<1>14. CASE loadCommand
  <2>1. pc' = "load" /\ before' = Map /\ UNCHANGED <<clock, file, broken>>
    BY <1>14 DEF loadCommand
  <2>2. db' = db
    BY <1>4, <2>1, DbAfter
  <2> QED
    BY <1>11, <2>1, <2>2 DEF Promise!Next
<1>15. CASE saveCommand
  <2>1. pc' = "save" /\ table' = table /\ kept' = file /\ UNCHANGED <<clock, broken>>
    BY <1>15 DEF saveCommand
  <2>2. db' = db /\ disk' = disk
    BY <1>4, <1>6, <2>1, DbAfter, DiskAfter
  <2> QED
    BY <1>2, <2>1, <2>2 DEF Promise!vars
<1> QED
  BY <1>7, <1>8, <1>9, <1>10, <1>12, <1>13, <1>14, <1>15 DEF Command

(* A load that has read p rows: every key has what was there before, what  *)
(* the file says of it, or some of the members the file says it has.       *)
LEMMA LoadedSoFar ==
  ASSUME Typed, Sound, pc \in {"boot", "load"}, NEW p, p = pos - 1, NEW k \in Keys
  PROVE  \/ /\ Map[k] = Origin(k)
            /\ \/ \A i \in 1..p : file[i].key # k
               \/ Promise!Expired(Read(file)[k])
         \/ /\ Map[k] = Read(file)[k] /\ Read(file)[k] # NULL
            /\ Origin(k) = NULL \/ Read(file)[k].type = "bitmap"
         \/ /\ Origin(k) = NULL \/ Promise!Expired(Origin(k))
            /\ Promise!PartOf(Map[k], Read(file)[k])
            /\ p = Len(file) => Map[k] = Read(file)[k] /\ Read(file)[k] # NULL
<1>1. /\ file \in Seq(Row) /\ Apart(file) /\ p \in Nat /\ p <= Len(file) /\ LoadedKey(k, p)
      /\ \A i \in 1..p : i \in 1..Len(file)
  BY DEF Typed, TypeOK, Sound
<1>2. CASE \A i \in 1..p : file[i].key # k
  BY <1>1, <1>2 DEF LoadedKey
<1>3. ASSUME NEW i \in 1..p, file[i].key = k
      PROVE  \/ Map[k] = Origin(k) /\ Promise!Expired(Read(file)[k])
             \/ /\ Map[k] = Read(file)[k] /\ Read(file)[k] # NULL
                /\ Origin(k) = NULL \/ Read(file)[k].type = "bitmap"
             \/ /\ Origin(k) = NULL \/ Promise!Expired(Origin(k))
                /\ Promise!PartOf(Map[k], Read(file)[k])
                /\ p = Len(file) => Map[k] = Read(file)[k] /\ Read(file)[k] # NULL
  <2>1. PICK r : r = file[i]
    OBVIOUS
  <2>2. r \in Row /\ r.key = k /\ i \in 1..Len(file)
    BY <1>1, <1>3, <2>1
  <2>3. PICK d : d = Read(file)[k]
    OBVIOUS
  <2>4. d = Says(r, file) /\ d # NULL /\ d.type = r.type
        /\ (r.type = "zset" => d.score = ReadScores(file, k))
    BY <1>1, <2>1, <2>2, <2>3, ReadIs, SaysIs
  <2>5. LoadedRow(k, i, p)
    BY <1>1, <1>3 DEF LoadedKey
  <2>6. CASE r.type = "string"
    <3>1. \/ Map[k] = Origin(k) /\ r.exp < clock
          \/ Map[k] = d /\ Origin(k) = NULL
      BY <2>1, <2>4, <2>5, <2>6 DEF LoadedRow
    <3>2. d.exp = r.exp
      BY <2>4, <2>6 DEF Says
    <3> QED
      BY <2>3, <2>4, <2>6, <3>1, <3>2 DEF Promise!Expired
  <2>7. CASE r.type = "bitmap"
    <3>1. Map[k] = d
      BY <2>1, <2>4, <2>5, <2>7 DEF LoadedRow
    <3> QED
      BY <2>3, <2>4, <2>7, <3>1
  <2>8. CASE r.type = "zset"
    <3>1. /\ Origin(k) = NULL \/ Promise!Expired(Origin(k))
          /\ \E f \in [Members -> Scores \cup {NULL}] : ScoresAre(f, k, p) /\ Map[k] = Zset(f)
      BY <2>1, <2>5, <2>8 DEF LoadedRow
    <3>2. PICK f \in [Members -> Scores \cup {NULL}] : ScoresAre(f, k, p) /\ Map[k] = Zset(f)
      BY <3>1
    <3>3. PICK h : h = ReadScores(file, k)
      OBVIOUS
    <3>4. /\ h \in [Members -> Scores \cup {NULL}]
          /\ \A j \in 1..Len(file) : file[j].key = k => h[file[j].member] = Reread[file[j].score]
          /\ \A m \in Members :
               (\A j \in 1..Len(file) : file[j].key = k => file[j].member # m) => h[m] = NULL
      BY <1>1, <2>1, <2>2, <2>8, <3>3, ReadScoresIs
    <3>5. /\ \A j \in 1..p : file[j].key = k => f[file[j].member] = Reread[file[j].score]
          /\ \A m \in Members : (\A j \in 1..p : file[j].key = k => file[j].member # m) => f[m] = NULL
      BY <3>2 DEF ScoresAre
    <3>6. \A m \in Members : f[m] \in {NULL, h[m]}
      <4>1. ASSUME NEW m \in Members PROVE f[m] \in {NULL, h[m]}
        <5>1. CASE \A j \in 1..p : file[j].key = k => file[j].member # m
          BY <3>5, <5>1
        <5>2. ASSUME NEW j \in 1..p, file[j].key = k, file[j].member = m
              PROVE  f[m] = h[m]
          BY <1>1, <3>4, <3>5, <5>2
        <5> QED
          BY <5>1, <5>2
      <4> QED
        BY <4>1
    <3>7. Map[k] # NULL /\ Map[k].type = "zset" /\ Map[k].score = f
      <4>1. Zset(f) \in Object
        BY ObjectsAre
      <4> QED
        BY <3>2, <4>1, PersistenceAssumption DEF Zset
    <3>8. Promise!PartOf(Map[k], d)
      BY <2>4, <2>8, <3>3, <3>6, <3>7 DEF Promise!PartOf
    <3>9. ASSUME p = Len(file) PROVE Map[k] = d
      <4>1. \A m \in Members : f[m] = h[m]
        <5>1. ASSUME NEW m \in Members PROVE f[m] = h[m]
          <6>1. CASE \A j \in 1..p : file[j].key = k => file[j].member # m
            BY <3>4, <3>5, <3>9, <6>1
          <6>2. ASSUME NEW j \in 1..p, file[j].key = k, file[j].member = m
                PROVE  f[m] = h[m]
            BY <1>1, <3>4, <3>5, <6>2
          <6> QED
            BY <6>1, <6>2
        <5> QED
          BY <5>1
      <4>2. f = h
        BY <3>4, <4>1
      <4>3. d = Zset(h)
        BY <2>2, <2>4, <2>8, <3>3 DEF Says
      <4> QED
        BY <3>2, <4>2, <4>3
    <3> QED
      BY <2>3, <2>4, <3>1, <3>8, <3>9
  <2> QED
    BY <2>2, <2>6, <2>7, <2>8, RowFields
<1> QED
  BY <1>2, <1>3

LEMMA LoadEndsDurable ==
  ASSUME Typed, Sound, pc \in {"boot", "load"}, pos > Len(file), LoadEnds,
         UNCHANGED <<clock, table, file, broken>>
  PROVE  Promise!Next
<1>1. PICK p : p = pos - 1
  OBVIOUS
<1>2. p = Len(file) /\ file \in Seq(Row) /\ Apart(file)
  BY <1>1 DEF Typed, TypeOK, Sound
<1>3. Map' = Map
  BY DEF Map
<1>4. /\ pc' = "idle" /\ db' = Map /\ disk = Read(file) /\ disk' = disk
      /\ pc = "boot" => db = Promise!Nothing
      /\ pc = "load" => db = before
  BY <1>3, DbIs, DbAfter, DiskIs, DiskAfter DEF LoadEnds
<1>5. ASSUME NEW k \in Keys
      PROVE  \/ db'[k] = Origin(k) /\ (disk[k] = NULL \/ Promise!Expired(disk[k]))
             \/ /\ disk[k] # NULL /\ db'[k] = disk[k]
                /\ Origin(k) = NULL \/ Promise!Expired(Origin(k)) \/ disk[k].type = "bitmap"
  <2>1. \/ /\ Map[k] = Origin(k)
           /\ \/ \A i \in 1..p : file[i].key # k
              \/ Promise!Expired(Read(file)[k])
        \/ /\ Map[k] = Read(file)[k] /\ Read(file)[k] # NULL
           /\ Origin(k) = NULL \/ Read(file)[k].type = "bitmap"
        \/ /\ Origin(k) = NULL \/ Promise!Expired(Origin(k))
           /\ Map[k] = Read(file)[k] /\ Read(file)[k] # NULL
    BY <1>1, <1>2, LoadedSoFar
  <2>2. (\A i \in 1..p : file[i].key # k) => Read(file)[k] = NULL
    BY <1>2, ReadIs
  <2> QED
    BY <1>4, <2>1, <2>2
<1>6. CASE pc = "boot"
  <2>1. \A k \in Keys : Origin(k) = NULL
    BY <1>6 DEF Origin
  <2>2. \A k \in Keys : db'[k] = disk[k] \/ (db'[k] = NULL /\ Promise!Expired(disk[k]))
    BY <1>5, <2>1
  <2> QED
    BY <1>4, <1>6, <2>2 DEF Promise!Next, Promise!Ready
<1>7. CASE pc = "load"
  <2>1. \A k \in Keys : Origin(k) = db[k]
    BY <1>4, <1>7 DEF Origin
  <2>2. \A k \in Keys :
          \/ db'[k] = db[k] /\ (disk[k] = NULL \/ Promise!Expired(disk[k]))
          \/ /\ disk[k] # NULL /\ db'[k] = disk[k]
             /\ db[k] = NULL \/ Promise!Expired(db[k]) \/ disk[k].type = "bitmap"
    BY <1>5, <2>1
  <2> QED
    BY <1>4, <1>7, <2>2 DEF Promise!Next, Promise!LoadDb
<1> QED
  BY <1>6, <1>7

(* The process dies, and the file is as it was.                            *)
LEMMA DiesDurable ==
  ASSUME pc \notin {"save", "exit"}, Dies, UNCHANGED <<clock, file, broken>>
  PROVE  Promise!Next
<1>1. pc' = "down"
  BY DEF Dies
<1>2. db' = Promise!Nothing /\ disk' = disk
  BY <1>1, DbAfter, DiskIs, DiskAfter
<1> QED
  BY <1>1, <1>2 DEF Promise!Next, Promise!Crash

LEMMA ServeDurable ==
  Typed /\ Sound /\ Serve /\ ~broken /\ ~broken' => Promise!Next \/ UNCHANGED Promise!vars
<1> SUFFICES ASSUME Typed, Sound, Serve, ~broken, ~broken'
             PROVE  Promise!Next \/ UNCHANGED Promise!vars
  OBVIOUS
<1>1. table \in Seq(Node) /\ file \in Seq(Row) /\ Distinct(table) /\ Map = View(At(table))
  BY MapIs DEF Typed, TypeOK, Sound
<1>2. CASE updated
  <2>1. /\ pc = "update" /\ op \in Update /\ Updating /\ IsZset(Got(table, op.key))
        /\ pc' = "idle" /\ table' = WithScore(table, op.key, op.member, op.score)
        /\ UNCHANGED <<clock, file, broken>>
    BY <1>2 DEF updated, Typed, TypeOK, Sound
  <2>2. PICK k \in Keys, m \in Members, s \in Scores : op = [key |-> k, member |-> m, score |-> s]
    BY <2>1 DEF Update
  <2>3. /\ IsZset(Got(table, k)) /\ table' = WithScore(table, k, m, s)
        /\ \A j \in Keys : j # k => Map[j] = before[j]
    BY <2>1, <2>2 DEF Updating
  <2>4. PICK f : f = Scored(table, k, m, s)
    OBVIOUS
  <2>5. f \in [Members -> Scores \cup {NULL}]
    BY <1>1, <2>3, <2>4, WithScoreBecomes
  <2>6. PICK e \in Nat : Becomes(table', table, [At(table) EXCEPT ![k] = NodeOf(k, Zset(f), e)])
    BY <1>1, <2>3, <2>4, WithScoreBecomes
  <2>7. NodeOf(k, Zset(f), e) \in Node
    BY <2>5, ObjectsAre DEF NodeOf, Node
  <2>8. \A j \in Keys : Map'[j] = IF j = k THEN Mapped(NodeOf(k, Zset(f), e)) ELSE Map[j]
    BY <1>1, <2>6, <2>7, NodePut
  <2>9. db = before /\ db' = Map' /\ disk' = disk
    BY <2>1, DbIs, DbAfter, DiskIs, DiskAfter
  <2>10. \A j \in Keys \ {k} : db'[j] = db[j]
    BY <2>3, <2>8, <2>9
  <2> QED
    BY <2>1, <2>9, <2>10 DEF Promise!Next, Promise!Command
<1>3. CASE flushed
  <2>1. pc = "flush" /\ pc' = "idle" /\ table' = <<>> /\ UNCHANGED <<clock, file, broken>>
    BY <1>3 DEF flushed, Changes
  <2>2. Map' = View(NoNode)
    BY <2>1, EmptyTable, MapAfter
  <2>3. View(NoNode) = Promise!Nothing
    BY DEF View, NoNode, Mapped, Promise!Nothing
  <2>4. db' = Promise!Nothing /\ disk' = disk
    BY <2>1, <2>2, <2>3, DbAfter, DiskIs, DiskAfter
  <2> QED
    BY <2>1, <2>4 DEF Promise!Next, Promise!Flush
<1>4. \A rows \in Rows(table) : Read(rows) = Promise!Written(Map)
  BY <1>1, ReadRows
<1>5. CASE saved
  <2>1. pc = "save" /\ pc' = "idle" /\ table' = table /\ file' \in Rows(table) /\ UNCHANGED <<clock, broken>>
    BY <1>5 DEF saved
  <2>2. Map' = Map
    BY <2>1 DEF Map
  <2>3. db = Map /\ db' = Map /\ disk' = Promise!Written(db)
    BY <1>4, <2>1, <2>2, DbIs, DbAfter, DiskAfter
  <2> QED
    BY <2>1, <2>3 DEF Promise!Next, Promise!Save
<1>6. CASE exited
  <2>1. pc = "exit" /\ pc' = "down" /\ file' \in Rows(table) /\ UNCHANGED <<clock, broken>>
    BY <1>6 DEF exited, Dies
  <2>2. db = Map /\ db' = Promise!Nothing /\ disk' = Promise!Written(db)
    BY <1>4, <2>1, DbIs, DbAfter, DiskAfter
  <2> QED
    BY <2>1, <2>2 DEF Promise!Next, Promise!Shutdown
<1>7. ASSUME pc \in {"boot", "load"}, NEW b, NextRow(b)
      PROVE  UNCHANGED Promise!vars
  <2>1. UNCHANGED <<pc, clock, file, before>> /\ broken' = broken
    <3>1. broken = FALSE /\ broken' \in BOOLEAN
      BY <1>7 DEF NextRow, Typed, TypeOK
    <3> QED
      BY <1>7, <3>1 DEF NextRow
  <2>2. db' = db /\ disk' = disk
    BY <1>7, <2>1, DbIs, DbAfter, DiskIs, DiskAfter
  <2> QED
    BY <2>1, <2>2 DEF Promise!vars
<1>8. CASE loadHashMapEntry
  BY <1>7, <1>8 DEF loadHashMapEntry, Loading
<1>9. CASE loadSkiplistEntry
  BY <1>7, <1>9 DEF loadSkiplistEntry, Loading
<1>10. CASE loadAbandoned
  BY <1>10 DEF loadAbandoned
<1>11. CASE loadBitmapEntry
  BY <1>7, <1>11 DEF loadBitmapEntry, Loading
<1>12. CASE loaded
  BY <1>12, LoadEndsDurable DEF loaded
<1>13. CASE loadTorn
  <2>1. /\ pc \in {"boot", "load"} /\ pos > Len(file) /\ UNCHANGED <<clock, file, broken>>
        /\ (LoadEnds /\ table' = table) \/ Dies
    BY <1>13 DEF loadTorn
  <2>2. CASE LoadEnds /\ table' = table
    BY <2>1, <2>2, LoadEndsDurable
  <2>3. CASE Dies
    BY <2>1, <2>3, DiesDurable
  <2> QED
    BY <2>1, <2>2, <2>3
<1> QED
  BY <1>2, <1>3, <1>5, <1>6, <1>8, <1>9, <1>10, <1>11, <1>12, <1>13 DEF Serve

(* SIGINT in the middle of a start, a LOADDB or a ZADD leaves a part.      *)
LEMMA CutDurable ==
  ASSUME Typed, Sound, sigHandler, pc \in {"boot", "load", "update"}
  PROVE  Promise!Cut
<1>1. /\ table \in Seq(Node) /\ file \in Seq(Row) /\ Map = View(At(table)) /\ Apart(file)
      /\ pc' = "exit" /\ table' = table /\ kept' = file /\ UNCHANGED <<clock, broken>>
  BY MapIs DEF sigHandler, Typed, TypeOK, Sound
<1>2. Map' = Map
  BY <1>1 DEF Map
<1>3. /\ db' = Map /\ disk = Read(file) /\ disk' = disk
      /\ pc \in {"load", "update"} => db = before
  BY <1>1, <1>2, DbIs, DbAfter, DiskIs, DiskAfter
<1>4. ASSUME NEW k \in Keys
      PROVE  \/ Promise!PartOf(db'[k], disk[k])
             \/ pc \in {"load", "update"} /\ Promise!PartOf(db'[k], db[k])
  <2>1. CASE pc \in {"boot", "load"}
    <3>1. PICK p : p = pos - 1
      OBVIOUS
    <3>2. \/ Map[k] = Origin(k)
          \/ Map[k] = Read(file)[k]
          \/ Promise!PartOf(Map[k], Read(file)[k])
      BY <2>1, <3>1, LoadedSoFar
    <3>3. Origin(k) = IF pc = "load" THEN before[k] ELSE NULL
      BY DEF Origin
    <3> QED
      BY <1>3, <2>1, <3>2, <3>3 DEF Promise!PartOf
  <2>2. CASE pc = "update"
    <3>1. /\ op \in Update /\ Updating
          /\ before \in [Keys -> Stored \cup {NULL}]
      BY <2>2 DEF Sound, Typed, TypeOK
    <3>2. CASE k # op.key
      BY <1>3, <2>2, <3>1, <3>2 DEF Updating, Promise!PartOf
    <3>3. CASE k = op.key
      <4>1. PICK m \in Members : op.member = m
        BY <3>1 DEF Update
      <4>2. PICK o : o = before[k]
        OBVIOUS
      <4>3. /\ IsZset(o) /\ o \in Stored
            /\ At(table)[k] # NULL
            /\ At(table)[k].obj = Zset([o.score EXCEPT ![m] = NULL]) \/ Map[k] = o
        BY <3>1, <3>3, <4>1, <4>2 DEF Updating, IsZset
      <4>4. o \in Object /\ o.score \in [Members -> Scores \cup {NULL}] /\ o # NULL /\ o.type = "zset"
        <5>1. o \in Object /\ o # NULL /\ o.type = "zset"
          BY <4>3 DEF Stored, IsZset
        <5> QED
          BY <5>1, ObjectsAre DEF IsZset
      <4>5. PICK f : f = [o.score EXCEPT ![m] = NULL]
        OBVIOUS
      <4>6. f \in [Members -> Scores \cup {NULL}] /\ \A x \in Members : f[x] \in {NULL, o.score[x]}
        BY <4>4, <4>5
      <4>7. Map[k] = Mapped(At(table)[k])
        BY <1>1 DEF View
      <4>8. Map[k] = NULL \/ Map[k] = Zset(f) \/ Map[k] = o
        BY <4>3, <4>5, <4>7 DEF Mapped, Zset
      <4>9. Promise!PartOf(Map[k], o)
        BY <4>4, <4>6, <4>8 DEF Promise!PartOf, Zset
      <4> QED
        BY <1>3, <2>2, <4>2, <4>9
    <3> QED
      BY <3>2, <3>3
  <2> QED
    BY <2>1, <2>2
<1> QED
  BY <1>1, <1>3, <1>4 DEF Promise!Cut

LEMMA FaultDurable ==
  Typed /\ Sound /\ Fault /\ ~broken /\ ~broken' => Promise!Next \/ UNCHANGED Promise!vars
<1> SUFFICES ASSUME Typed, Sound, Fault, ~broken, ~broken'
             PROVE  Promise!Next \/ UNCHANGED Promise!vars
  OBVIOUS
<1>1. table \in Seq(Node) /\ Distinct(table) /\ Map = View(At(table))
  BY MapIs DEF Typed, TypeOK, Sound
<1>2. CASE sigHandler
  <2>1. CASE pc \in {"boot", "load", "update"}
    BY <1>2, <2>1, CutDurable DEF Promise!Next
  <2>2. CASE pc \in {"idle", "save"}
    <3>1. /\ pc' = "exit" /\ table' = table /\ UNCHANGED <<clock, broken>>
          /\ kept' = IF pc = "save" THEN kept ELSE file
      BY <1>2 DEF sigHandler
    <3>2. Map' = Map
      BY <3>1 DEF Map
    <3>3. db' = db /\ disk' = disk
      BY <2>2, <3>1, <3>2, DbIs, DbAfter, DiskIs, DiskAfter
    <3> QED
      BY <2>2, <3>1, <3>3 DEF Promise!vars
  <2> QED
    BY <1>2, <2>1, <2>2 DEF sigHandler
<1>3. CASE sigHandlerUnsaved
  BY <1>3, DiesDurable DEF sigHandlerUnsaved
<1>4. CASE sigHandlerInFlush
  BY <1>4 DEF sigHandlerInFlush
<1>5. CASE crash
  <2>1. Dies /\ UNCHANGED <<clock, broken>>
    BY <1>5 DEF crash
  <2>2. CASE pc \in {"save", "exit"}
    <3>1. PICK q \in Rows(table) : \E n \in 0..Len(q) : file' = SubSeq(q, 1, n)
      BY <1>5, <2>2 DEF crash
    <3>2. q \in Seq(Row) /\ Apart(q) /\ Read(q) = Promise!Written(Map)
      BY <1>1, RowsIs, ReadRows
    <3>3. PICK n \in 0..Len(q) : file' = SubSeq(q, 1, n)
      BY <3>1
    <3>4. \A k \in Keys : Promise!PartOf(Read(SubSeq(q, 1, n))[k], Read(q)[k])
      BY <3>2, PrefixRead
    <3>5. pc' = "down"
      BY <2>1 DEF Dies
    <3>6. disk' = Read(SubSeq(q, 1, n)) /\ db = Map /\ db' = Promise!Nothing
      BY <2>2, <3>3, <3>5, DbIs, DbAfter, DiskAfter
    <3>7. \A k \in Keys : Promise!PartOf(disk'[k], Promise!Written(db)[k])
      BY <3>2, <3>4, <3>6
    <3> QED
      BY <2>1, <2>2, <3>5, <3>6, <3>7 DEF Promise!Next, Promise!Crash
  <2>3. CASE pc \notin {"save", "exit"}
    <3>1. file' = file
      BY <1>5, <2>3 DEF crash
    <3> QED
      BY <2>1, <2>3, <3>1, DiesDurable
  <2> QED
    BY <2>2, <2>3
<1> QED
  BY <1>2, <1>3, <1>4, <1>5 DEF Fault

LEMMA RestDurable ==
  restart \/ Tick \/ UNCHANGED vars => Promise!Next \/ UNCHANGED Promise!vars
<1> SUFFICES ASSUME restart \/ Tick \/ UNCHANGED vars
             PROVE  Promise!Next \/ UNCHANGED Promise!vars
  OBVIOUS
<1>1. CASE restart
  <2>1. pc = "down" /\ pc' = "boot" /\ UNCHANGED <<clock, file, broken>>
    BY <1>1 DEF restart
  <2>2. db' = db /\ disk' = disk
    BY <2>1, DbIs, DbAfter, DiskIs, DiskAfter
  <2> QED
    BY <2>1, <2>2 DEF Promise!Next, Promise!Start
<1>2. CASE Tick \/ UNCHANGED vars
  <2>1. UNCHANGED <<table, file, pc, before, kept, broken>>
    BY <1>2 DEF Tick, vars
  <2>2. db' = db /\ disk' = disk
    BY <2>1 DEF db, disk, Map
  <2>3. clock' = clock + 1 \/ clock' = clock
    BY <1>2 DEF Tick, vars
  <2> QED
    BY <2>1, <2>2, <2>3 DEF Promise!Next, Promise!Tick, Promise!vars
<1> QED
  BY <1>1, <1>2

LEMMA DurableNext == IInv /\ [Next]_vars => Promise!Next \/ UNCHANGED Promise!vars
<1> SUFFICES ASSUME IInv, [Next]_vars PROVE Promise!Next \/ UNCHANGED Promise!vars
  OBVIOUS
<1>1. CASE broken'
  <2>1. broken \/ pc \in {"boot", "update", "flush", "load"}
    BY <1>1, BrokenBusy
  <2> QED
    BY <1>1, <2>1 DEF Promise!Next, Promise!Break
<1>2. CASE ~broken'
  <2>1. Typed /\ Sound /\ ~broken
    BY <1>2, BrokenStays DEF IInv
  <2>2. CASE Command
    BY <2>1, <2>2, CommandDurable
  <2>3. CASE Serve
    BY <1>2, <2>1, <2>3, ServeDurable
  <2>4. CASE Fault
    BY <1>2, <2>1, <2>4, FaultDurable
  <2>5. CASE restart \/ Tick \/ UNCHANGED vars
    BY <2>5, RestDurable
  <2> QED
    BY <2>2, <2>3, <2>4, <2>5 DEF Next
<1> QED
  BY <1>1, <1>2

(* Saves, loads, shutdowns, crashes and restarts keep the promise of       *)
(* Durable.tla.                                                            *)
THEOREM PersistenceImplementsDurable == Spec => ImplementsDurable
<1>1. IInv /\ [Next]_vars => [Promise!Next]_Promise!vars
  BY DurableNext
<1> QED
  BY <1>1, DurableInit, IInvInit, IInvNext, PTL DEF Spec, ImplementsDurable, Promise!Spec

-----------------------------------------------------------------------------
(* The digits of a score, written and read                                 *)

LEMMA Divides ==
  ASSUME NEW q \in Int, NEW k \in Nat \ {0}, NEW r \in 0..(k - 1)
  PROVE  (k * q + r) \div k = q /\ (k * q + r) % k = r
OBVIOUS

LEMMA Divided ==
  ASSUME NEW n \in Nat, NEW k \in Nat \ {0}
  PROVE  \E q \in Nat, r \in 0..(k - 1) : n = k * q + r /\ n \div k = q /\ n % k = r
<1>1. n \div k \in Int /\ n % k \in 0..(k - 1) /\ n = k * (n \div k) + (n % k) /\ n \div k >= 0
  OBVIOUS
<1> QED
  BY <1>1

LEMMA DividedTwice ==
  ASSUME NEW n \in Nat, NEW p \in Nat \ {0}, NEW b \in Nat \ {0}
  PROVE  n \div (b * p) = (n \div p) \div b
<1>1. PICK a \in Nat, r \in 0..(p - 1) : n = p * a + r /\ n \div p = a
  BY Divided
<1>2. PICK c \in Nat, d \in 0..(b - 1) : a = b * c + d /\ a \div b = c
  BY Divided
<1>3. PICK k \in Nat \ {0}, e \in Nat : k = b * p /\ e = p * d + r
  <2>1. b * p \in Nat \ {0} /\ p * d + r \in Nat
    OBVIOUS
  <2> QED
    BY <2>1
<1>4. e <= k - 1
  <2>1. p * d <= p * (b - 1)
    BY <1>2
  <2>2. p * (b - 1) = b * p - p
    OBVIOUS
  <2> QED
    BY <1>1, <1>3, <2>1, <2>2
<1>5. n = k * c + e
  <2>1. p * (b * c + d) = (b * p) * c + p * d
    OBVIOUS
  <2> QED
    BY <1>1, <1>2, <1>3, <2>1
<1>6. n \div k = c
  BY <1>3, <1>4, <1>5, Divides
<1> QED
  BY <1>1, <1>2, <1>3, <1>6

(* The powers of the base.                                                 *)
LEMMA PowersOfBase ==
  \E p \in [0..BufferLen -> Nat \ {0}] :
    /\ \A i \in 0..BufferLen : Base^i = p[i]
    /\ p[0] = 1 /\ \A i \in 1..BufferLen : p[i] = Base * p[i - 1]
    /\ \A i, j \in 0..BufferLen : i <= j => p[i] <= p[j]
<1>1. BufferLen \in Nat /\ Base \in Nat /\ Base > 1
  BY BufferAssumption, NumbersAssumption
<1> DEFINE T == {i \in 0..BufferLen : Base^i \in Nat \ {0}}
<1>2. \A i \in 1..BufferLen : Base^i = Base * Base^(i - 1)
  BY DigitsAssumption
<1>3. \A i \in 0..BufferLen : i \in T
  <2>1. 0 \in T
    BY <1>1, DigitsAssumption
  <2>2. ASSUME NEW i \in 1..BufferLen, i - 1 \in T PROVE i \in T
    <3>1. PICK x \in Nat \ {0} : x = Base^(i - 1)
      BY <2>2
    <3>2. Base * x \in Nat \ {0}
      BY <1>1
    <3>3. Base^i = Base * x
      BY <1>2, <3>1
    <3> QED
      BY <1>1, <3>2, <3>3
  <2> HIDE DEF T
  <2> QED
    BY <1>1, <2>1, <2>2, UpTo
<1>4. PICK p : p = [i \in 0..BufferLen |-> Base^i]
  OBVIOUS
<1>5. p \in [0..BufferLen -> Nat \ {0}] /\ \A i \in 0..BufferLen : Base^i = p[i]
  BY <1>3, <1>4
<1>6. p[0] = 1 /\ \A i \in 1..BufferLen : p[i] = Base * p[i - 1]
  BY <1>1, <1>2, <1>5, DigitsAssumption
<1>7. \A i \in 1..BufferLen : p[i - 1] <= p[i]
  <2> SUFFICES ASSUME NEW i \in 1..BufferLen PROVE p[i - 1] <= p[i]
    OBVIOUS
  <2>1. PICK x \in Nat : x = p[i - 1]
    BY <1>1, <1>5
  <2>2. p[i] = Base * x
    BY <1>6, <2>1
  <2>3. x <= Base * x
    BY <1>1
  <2> QED
    BY <2>1, <2>2, <2>3
<1>8. ASSUME NEW i \in 0..BufferLen
      PROVE  \A j \in 0..BufferLen : i <= j => p[i] <= p[j]
  <2> DEFINE U == {j \in 0..BufferLen : i <= j => p[i] <= p[j]}
  <2>1. 0 \in U
    BY <1>1, <1>5
  <2>2. ASSUME NEW j \in 1..BufferLen, j - 1 \in U PROVE j \in U
    <3>1. p[j - 1] \in Nat /\ p[j] \in Nat /\ p[i] \in Nat /\ p[j - 1] <= p[j]
      BY <1>1, <1>5, <1>7
    <3> QED
      BY <1>1, <2>2, <3>1
  <2>3. \A j \in 0..BufferLen : j \in U
    <3> HIDE DEF U
    <3> QED
      BY <1>1, <2>1, <2>2, UpTo
  <2> QED
    BY <2>3
<1> QED
  BY <1>5, <1>6, <1>8

(* What an int is left with.                                               *)
LEMMA WrappedInt ==
  ASSUME NEW x \in Int
  PROVE  /\ Wrapped(x, IntBits) \in Int
         /\ x \in 0..(2^(IntBits - 1) - 1) => Wrapped(x, IntBits) = x
<1>1. PICK m \in Nat : m > 1 /\ 2^(IntBits - 1) = m /\ 2^IntBits = 2 * m
  BY DigitsAssumption
<1>2. Wrapped(x, IntBits) = ((x + m) % (2 * m)) - m
  BY <1>1 DEF Wrapped
<1>3. PICK k \in Nat \ {0} : k = 2 * m
  BY <1>1
<1>4. (x + m) % k \in 0..(k - 1)
  BY <1>3
<1>5. ASSUME x \in 0..(m - 1)
      PROVE  Wrapped(x, IntBits) = x
  <2>1. x + m \in 0..(k - 1)
    BY <1>1, <1>3, <1>5
  <2>2. (x + m) % k = x + m
    BY <2>1
  <2> QED
    BY <1>2, <1>3, <2>2
<1> QED
  BY <1>1, <1>2, <1>3, <1>4, <1>5

(* The loop of stringTolongDouble, digit by digit.                         *)
Reads(n, s) ==
  /\ n \in [0..Len(s) -> Int] /\ n[0] = 0
  /\ \A i \in 1..Len(s) : n[i] = Wrapped(n[i - 1] * Base + s[i], IntBits)

LEMMA AccumulatedReads ==
  ASSUME NEW s \in Seq(Int)
  PROVE  \E n : Reads(n, s) /\ Accumulated(s, IntBits) = n[Len(s)]
<1> DEFINE n == CHOOSE g : g = [i \in 0..Len(s) |->
                                  IF i = 0 THEN 0 ELSE Wrapped(g[i - 1] * Base + s[i], IntBits)]
           Step == [p \in Int \X (1..Len(s)) |-> Wrapped(p[1] * Base + s[p[2]], IntBits)]
<1>1. Len(s) \in Nat /\ 0 \in Int /\ Base \in Int /\ \A i \in 1..Len(s) : s[i] \in Int
  BY NumbersAssumption
<1>2. Step \in [Int \X (1..Len(s)) -> Int]
  <2>1. ASSUME NEW p \in Int \X (1..Len(s))
        PROVE  Wrapped(p[1] * Base + s[p[2]], IntBits) \in Int
    <3>1. p[1] * Base + s[p[2]] \in Int
      BY <1>1
    <3> QED
      BY <3>1, WrappedInt
  <2> QED
    BY <2>1
<1>3. PICK f \in [0..Len(s) -> Int] :
        f[0] = 0 /\ \A i \in 1..Len(s) : f[i] = Step[<<f[i - 1], i>>]
  <2>1. PICK S, N, st : S = Int /\ N = Len(s) /\ st = Step
    OBVIOUS
  <2>2. N \in Nat /\ 0 \in S /\ st \in [S \X (1..N) -> S]
    BY <1>1, <1>2, <2>1
  <2>3. Solvable(N, S, 0, st)
    BY <2>2, Solution
  <2> QED
    BY <2>1, <2>3 DEF Solvable
<1>4. \A i \in 1..Len(s) : f[i] = Wrapped(f[i - 1] * Base + s[i], IntBits)
  <2> SUFFICES ASSUME NEW i \in 1..Len(s) PROVE f[i] = Wrapped(f[i - 1] * Base + s[i], IntBits)
    OBVIOUS
  <2>1. i - 1 \in 0..Len(s)
    BY <1>1
  <2>2. <<f[i - 1], i>> \in Int \X (1..Len(s))
    BY <1>3, <2>1
  <2> QED
    BY <1>3, <2>2
<1>5. f = [i \in 0..Len(s) |-> IF i = 0 THEN 0 ELSE Wrapped(f[i - 1] * Base + s[i], IntBits)]
  BY <1>3, <1>4
<1>6. n = [i \in 0..Len(s) |-> IF i = 0 THEN 0 ELSE Wrapped(n[i - 1] * Base + s[i], IntBits)]
  BY <1>5
<1>7. Accumulated(s, IntBits) = n[Len(s)]
  BY DEF Accumulated
<1>8. n[0] = 0 /\ \A i \in 1..Len(s) : n[i] = Wrapped(n[i - 1] * Base + s[i], IntBits)
  <2>1. 0 \in 0..Len(s) /\ \A i \in 1..Len(s) : i \in 0..Len(s) /\ i # 0
    BY <1>1
  <2> HIDE DEF n
  <2>2. n[0] = 0
    BY ONLY <1>6, <2>1
  <2> QED
    BY ONLY <1>6, <2>1, <2>2
<1> HIDE DEF n
<1>9. \A i \in 0..Len(s) : n[i] = f[i]
  <2>1. n[0] = f[0] /\ \A i \in 1..Len(s) : n[i - 1] = f[i - 1] => n[i] = f[i]
    BY <1>3, <1>4, <1>8
  <2>2. Agree(n, f, Len(s))
    BY <1>1, <2>1, SameSolution
  <2> QED
    BY <2>2 DEF Agree
<1>10. n \in [0..Len(s) -> Int]
  BY <1>3, <1>6, <1>9
<1> QED
  BY <1>7, <1>8, <1>10 DEF Reads

(* The last w digits of n are read as the number they are, when it fits.   *)
LEMMA LastDigitsRead ==
  ASSUME NEW n \in Nat, NEW w \in 0..BufferLen, n % Base^w < 2^(IntBits - 1)
  PROVE  /\ LastDigits(n, w) \in Seq(Int) /\ Len(LastDigits(n, w)) = w
         /\ \A i \in 1..w : LastDigits(n, w)[i] \in Digits
         /\ Accumulated(LastDigits(n, w), IntBits) = n % Base^w
<1>1. PICK p \in [0..BufferLen -> Nat \ {0}] :
        /\ \A i \in 0..BufferLen : Base^i = p[i]
        /\ p[0] = 1 /\ \A i \in 1..BufferLen : p[i] = Base * p[i - 1]
  BY PowersOfBase
<1>2. PICK b \in Nat \ {0} : b = Base
  BY NumbersAssumption
<1>3. BufferLen \in Nat /\ w \in Nat
  BY BufferAssumption
<1>4. PICK q : q = [i \in 0..w |-> n \div p[w - i]]
  OBVIOUS
<1>5. q \in [0..w -> Nat]
  <2>1. ASSUME NEW i \in 0..w PROVE n \div p[w - i] \in Nat
    <3>1. p[w - i] \in Nat \ {0}
      BY <1>1, <1>3
    <3> QED
      BY <3>1, Divided
  <2> QED
    BY <1>4, <2>1
<1>6. PICK s : s = LastDigits(n, w)
  OBVIOUS
<1>7. s = [i \in 1..w |-> q[i] % b]
  <2>1. s = [i \in 1..w |-> (n \div Base^(w - i)) % Base]
    BY <1>6 DEF LastDigits
  <2>2. ASSUME NEW i \in 1..w
        PROVE  (n \div Base^(w - i)) % Base = q[i] % b
    <3>1. w - i \in 0..BufferLen /\ i \in 0..w
      BY <1>3
    <3>2. Base^(w - i) = p[w - i]
      BY <1>1, <3>1
    <3>3. q[i] = n \div p[w - i]
      BY <1>4, <3>1
    <3> QED
      BY <1>2, <3>2, <3>3
  <2> QED
    BY <2>1, <2>2
<1>8. \A i \in 1..w : s[i] \in 0..(b - 1)
  BY <1>2, <1>5, <1>7
<1>9. s \in Seq(Int) /\ Len(s) = w /\ \A i \in 1..w : s[i] \in Int
  BY <1>3, <1>7, <1>8
<1>10. ASSUME NEW i \in 1..w
       PROVE  q[i] = b * q[i - 1] + s[i]
  <2>1. PICK x \in Nat \ {0}, y \in Nat \ {0} : x = p[w - i] /\ y = p[w - (i - 1)] /\ y = b * x
    <3>1. w - i \in 0..BufferLen /\ w - (i - 1) \in 1..BufferLen /\ (w - (i - 1)) - 1 = w - i
      BY <1>3
    <3>2. p[w - i] \in Nat \ {0} /\ p[w - (i - 1)] \in Nat \ {0}
      BY <3>1
    <3>3. p[w - (i - 1)] = b * p[w - i]
      BY <1>1, <1>2, <3>1
    <3> QED
      BY ONLY <3>2, <3>3
  <2>2. i \in 0..w /\ i - 1 \in 0..w
    BY <1>3
  <2>3. q[i] = n \div x /\ q[i - 1] = n \div y /\ q[i] \in Nat
    BY <1>4, <1>5, <2>1, <2>2
  <2>4. q[i - 1] = q[i] \div b
    <3>1. n \div (b * x) = (n \div x) \div b
      BY ONLY n \in Nat, x \in Nat \ {0}, b \in Nat \ {0}, DividedTwice
    <3> QED
      BY <2>1, <2>3, <3>1
  <2>5. q[i] = b * (q[i] \div b) + (q[i] % b)
    BY <1>2, <2>3, Divided
  <2> QED
    BY <1>7, <2>4, <2>5
<1>11. PICK c \in Nat : c = q[0]
  BY <1>3, <1>5
<1>12. PICK e : e = [i \in 0..w |-> q[i] - c * p[i]]
  OBVIOUS
<1>13. e \in [0..w -> Int]
  <2>1. ASSUME NEW i \in 0..w PROVE q[i] - c * p[i] \in Int
    <3>1. q[i] \in Nat /\ p[i] \in Nat
      BY <1>1, <1>3, <1>5
    <3> QED
      BY <3>1
  <2> QED
    BY <1>12, <2>1
<1>14. e[0] = 0
  BY <1>1, <1>3, <1>11, <1>12
<1>15. ASSUME NEW i \in 1..w
       PROVE  e[i] = e[i - 1] * b + s[i]
  <2>1. PICK x \in Nat, y \in Nat, z \in Nat : x = p[i - 1] /\ y = q[i - 1] /\ z = s[i]
    <3>1. i - 1 \in 0..BufferLen /\ i - 1 \in 0..w
      BY <1>3
    <3> QED
      <4>1. p[i - 1] \in Nat \ {0} /\ q[i - 1] \in Nat /\ s[i] \in 0..(b - 1)
        BY <1>1, <1>5, <1>8, <3>1
      <4> QED
        BY <4>1
  <2>2. p[i] = b * x
    BY <1>1, <1>2, <1>3, <2>1
  <2>3. q[i] = b * y + z
    BY <1>10, <2>1
  <2>4. e[i] = (b * y + z) - c * (b * x) /\ e[i - 1] = y - c * x
    <3>1. i \in 0..w /\ i - 1 \in 0..w
      BY <1>3
    <3> QED
      BY <1>12, <2>1, <2>2, <2>3, <3>1
  <2>5. (b * y + z) - c * (b * x) = (y - c * x) * b + z
    BY ONLY b \in Nat, c \in Nat, x \in Nat, y \in Nat, z \in Nat
  <2> QED
    BY <2>1, <2>4, <2>5
<1>16. e[w] = n % Base^w
  <2>1. PICK x \in Nat \ {0} : x = p[w] /\ x = Base^w
    BY <1>1, <1>3
  <2>2. q[0] = n \div x /\ q[w] = n \div 1
    BY <1>1, <1>3, <1>4, <2>1
  <2>3. n = x * (n \div x) + (n % x) /\ n \div 1 = n
    <3>1. PICK d \in Nat, f \in 0..(x - 1) : n = x * d + f /\ n \div x = d /\ n % x = f
      BY ONLY n \in Nat, x \in Nat \ {0}, Divided
    <3>2. n \div 1 = n
      OBVIOUS
    <3> QED
      BY <3>1, <3>2
  <2>4. e[w] = q[w] - c * x
    <3>1. w \in 0..w
      BY <1>3
    <3> QED
      BY <1>12, <2>1, <3>1
  <2>5. c * x = x * c
    BY <1>11, <2>1
  <2>6. n % x \in Int
    BY <2>1
  <2> QED
    BY <1>11, <2>1, <2>2, <2>3, <2>4, <2>5, <2>6
<1>17. \A i \in 0..w : e[i] \in 0..e[w]
  <2>1. ASSUME NEW i \in 1..w, e[i - 1] >= 0 PROVE e[i] >= e[i - 1]
    <3>1. i - 1 \in 0..w
      BY <1>3
    <3>2. PICK x \in Nat, z \in Nat : x = e[i - 1] /\ z = s[i]
      BY <1>8, <1>13, <2>1, <3>1
    <3>3. x * b + z >= x
      BY ONLY x \in Nat, z \in Nat, b \in Nat \ {0}
    <3> QED
      BY <1>15, <3>2, <3>3
  <2> QED
    <3>1. e[0] >= 0
      BY <1>14
    <3> QED
      BY ONLY <1>3, <1>13, <2>1, <3>1, Growing
<1>18. PICK a : Reads(a, s) /\ Accumulated(s, IntBits) = a[Len(s)]
  BY <1>9, AccumulatedReads
<1>19. ASSUME NEW i \in 1..w, a[i - 1] = e[i - 1]
       PROVE  a[i] = e[i]
  <2>1. a[i] = Wrapped(a[i - 1] * Base + s[i], IntBits)
    BY <1>9, <1>18 DEF Reads
  <2>2. a[i] = Wrapped(e[i], IntBits)
    BY <1>2, <1>15, <1>19, <2>1
  <2>3. e[i] \in 0..(2^(IntBits - 1) - 1)
    <3>1. i \in 0..w /\ 2^(IntBits - 1) \in Nat
      BY <1>3, DigitsAssumption
    <3>2. e[i] \in 0..e[w] /\ e[w] < 2^(IntBits - 1) /\ e[w] \in Int
      BY <1>3, <1>13, <1>16, <1>17, <3>1
    <3> QED
      BY <3>1, <3>2
  <2>4. e[i] \in Int
    BY <1>3, <1>13
  <2> QED
    BY <2>2, <2>3, <2>4, WrappedInt
<1>20. a[w] = e[w]
  <2>1. a[0] = e[0]
    BY <1>14, <1>18 DEF Reads
  <2>2. Agree(a, e, w)
    BY <1>3, <1>19, <2>1, SameSolution
  <2> QED
    BY <1>3, <2>2 DEF Agree
<1> QED
  BY <1>2, <1>6, <1>8, <1>9, <1>16, <1>18, <1>20 DEF Digits

(* The whole part of a number that fits in an int fits in the buffer, with *)
(* its sign, the dot and the decimals.                                     *)
LEMMA WholeDigitsAre ==
  ASSUME NEW n \in Nat, n < 2^(IntBits - 1)
  PROVE  \E w \in 1..(BufferLen - Decimals - 2) :
           n < Base^w /\ WholeDigits(n) = LastDigits(n, w)
<1>1. PICK p \in [0..BufferLen -> Nat \ {0}] :
        /\ \A i \in 0..BufferLen : Base^i = p[i]
        /\ \A i, j \in 0..BufferLen : i <= j => p[i] <= p[j]
  BY PowersOfBase
<1>2. PICK R \in Nat : R = BufferLen - Decimals - 2 /\ R \in 1..BufferLen
  BY BufferAssumption, NumbersAssumption
<1>3. BufferLen \in Nat /\ n < p[R] /\ p[R] \in Nat
  <2>1. BufferLen \in Nat
    BY BufferAssumption
  <2>2. Base^R = p[R] /\ p[R] \in Nat
    BY <1>1, <1>2, <2>1
  <2>3. 2^(IntBits - 1) <= p[R]
    BY <1>2, <2>2, BufferAssumption
  <2>4. 2^(IntBits - 1) \in Nat
    BY DigitsAssumption
  <2> QED
    BY <2>1, <2>2, <2>3, <2>4
<1> DEFINE Fits(w) == n < Base^w /\ (w = 1 \/ n >= Base^(w - 1))
           c == CHOOSE w \in 1..BufferLen : Fits(w)
<1>4. \E w \in 1..BufferLen : Fits(w)
  <2>1. PICK S : S = {w \in 1..R : n < p[w]}
    OBVIOUS
  <2>2. R \in S /\ S \in SUBSET Nat
    BY <1>2, <1>3, <2>1
  <2>3. PICK m \in S : \A k \in S : m <= k
    BY <2>2, LeastNumber
  <2>4. m \in 1..R /\ m \in 0..BufferLen /\ m - 1 \in 0..BufferLen /\ n < p[m]
    BY <1>2, <1>3, <2>1, <2>3
  <2>5. m = 1 \/ n >= p[m - 1]
    <3>1. CASE m # 1
      <4>1. m - 1 \in 1..R /\ m - 1 \notin S
        BY <2>2, <2>3, <2>4, <3>1
      <4>2. ~(n < p[m - 1]) /\ p[m - 1] \in Nat
        BY <1>1, <2>1, <2>4, <4>1
      <4> QED
        BY <4>2
    <3> QED
      BY <3>1
  <2> QED
    BY <1>1, <1>2, <2>4, <2>5
<1>5. c \in 1..BufferLen /\ Fits(c)
  <2> HIDE DEF Fits
  <2> QED
    BY <1>4
<1>6. WholeDigits(n) = LastDigits(n, c)
  BY DEF WholeDigits
<1> HIDE DEF c
<1>7. c <= R
  <2> SUFFICES ASSUME c > R PROVE FALSE
    BY <1>2, <1>5
  <2>1. c - 1 \in 0..BufferLen /\ R \in 0..BufferLen /\ R <= c - 1 /\ c # 1
    BY <1>2, <1>3, <1>5
  <2>2. n >= p[c - 1] /\ p[R] <= p[c - 1] /\ p[c - 1] \in Nat
    BY <1>1, <1>5, <2>1
  <2> QED
    BY <1>3, <2>2
<1> QED
  BY <1>2, <1>5, <1>6, <1>7

LEMMA Concatenated ==
  ASSUME NEW u \in Seq(Int), NEW v \in Seq(Int)
  PROVE  /\ u \o v \in Seq(Int) /\ Len(u \o v) = Len(u) + Len(v)
         /\ \A i \in 1..Len(u) : (u \o v)[i] = u[i]
         /\ \A i \in 1..Len(v) : (u \o v)[Len(u) + i] = v[i]
OBVIOUS

LEMMA SameElements ==
  ASSUME NEW u \in Seq(Int), NEW v \in Seq(Int), Len(u) = Len(v),
         \A i \in 1..Len(u) : u[i] = v[i]
  PROVE  u = v
OBVIOUS

(* Concatenation, hidden from the provers where only the order of the      *)
(* parts matters.                                                          *)
Then(u, v) == u \o v

LEMMA Associates ==
  ASSUME NEW u \in Seq(Int), NEW v \in Seq(Int), NEW w \in Seq(Int)
  PROVE  Then(Then(u, v), w) = Then(u, Then(v, w))
<1>1. PICK a, b, l, r : a = u \o v /\ b = v \o w /\ l = a \o w /\ r = u \o b
  OBVIOUS
<1>2. PICK i \in Nat, j \in Nat, k \in Nat : i = Len(u) /\ j = Len(v) /\ k = Len(w)
  OBVIOUS
<1>3. /\ a \in Seq(Int) /\ Len(a) = i + j
      /\ \A x \in 1..i : a[x] = u[x]
      /\ \A x \in 1..j : a[i + x] = v[x]
  BY <1>1, <1>2, Concatenated
<1>4. /\ b \in Seq(Int) /\ Len(b) = j + k
      /\ \A x \in 1..j : b[x] = v[x]
      /\ \A x \in 1..k : b[j + x] = w[x]
  BY <1>1, <1>2, Concatenated
<1>5. /\ l \in Seq(Int) /\ Len(l) = i + j + k
      /\ \A x \in 1..(i + j) : l[x] = a[x]
      /\ \A x \in 1..k : l[i + j + x] = w[x]
  BY <1>1, <1>2, <1>3, Concatenated
<1>6. /\ r \in Seq(Int) /\ Len(r) = i + (j + k)
      /\ \A x \in 1..i : r[x] = u[x]
      /\ \A x \in 1..(j + k) : r[i + x] = b[x]
  BY <1>1, <1>2, <1>4, Concatenated
<1>7. ASSUME NEW x \in 1..(i + j + k)
      PROVE  l[x] = r[x]
  <2>1. CASE x \in 1..i
    BY <1>3, <1>5, <1>6, <2>1
  <2>2. CASE x \in (i + 1)..(i + j)
    <3>1. PICK y \in 1..j : x = i + y
      BY <2>2
    <3>2. x \in 1..(i + j) /\ y \in 1..(j + k)
      BY <2>2, <3>1
    <3>3. l[x] = v[y]
      BY <1>3, <1>5, <3>1, <3>2
    <3>4. r[x] = v[y]
      BY <1>4, <1>6, <3>1, <3>2
    <3> QED
      BY <3>3, <3>4
  <2>3. CASE x \in (i + j + 1)..(i + j + k)
    <3>1. PICK y \in 1..k : x = i + j + y
      BY <2>3
    <3>2. j + y \in 1..(j + k) /\ x = i + (j + y)
      BY <3>1
    <3>3. l[x] = w[y]
      BY <1>5, <3>1
    <3>4. r[x] = b[j + y]
      BY ONLY <1>6, <3>2
    <3>5. b[j + y] = w[y]
      BY ONLY <1>4, <3>1
    <3> QED
      BY <3>3, <3>4, <3>5
  <2> QED
    BY <2>1, <2>2, <2>3
<1>8. l = r
  <2>1. Len(l) = i + j + k /\ Len(r) = i + j + k
    BY <1>5, <1>6
  <2>2. \A x \in 1..Len(l) : l[x] = r[x]
    BY <1>7, <2>1
  <2> QED
    <3>1. l \in Seq(Int) /\ r \in Seq(Int) /\ Len(l) = Len(r)
      BY <1>5, <1>6, <2>1
    <3> QED
      BY ONLY <3>1, <2>2, SameElements
<1> QED
  BY ONLY <1>1, <1>8 DEF Then

LEMMA AssociatesTwice ==
  ASSUME NEW u \in Seq(Int), NEW v \in Seq(Int), NEW w \in Seq(Int), NEW x \in Seq(Int)
  PROVE  Then(u, Then(Then(v, w), x)) = Then(Then(Then(u, v), w), x)
<1>1. PICK a \in Seq(Int) : a = Then(v, w)
  BY Concatenated DEF Then
<1>2. Then(Then(u, a), x) = Then(u, Then(a, x))
  BY Associates
<1>3. Then(Then(u, v), w) = Then(u, Then(v, w))
  BY Associates
<1> QED
  BY <1>1, <1>2, <1>3

(* A number with one dot is read part by part.                             *)
LEMMA PartsAreRead ==
  ASSUME NEW u \in Seq(Int), NEW v \in Seq(Int),
         \A i \in 1..Len(u) : u[i] \in Digits, \A i \in 1..Len(v) : v[i] \in Digits
  PROVE  stringTolongDouble(u \o <<Dot>> \o v) =
           Joined(Accumulated(u, IntBits), Accumulated(v, IntBits),
                  Wrapped(Base^Len(v), IntBits))
<1>1. Base \in Nat /\ Dot \in Nat /\ \A d \in Digits : d # Dot
  BY NumbersAssumption DEF Digits, Dot
<1>2. PICK s : s = u \o <<Dot>> \o v
  OBVIOUS
<1>3. PICK k \in Nat, n \in Nat : k = Len(u) /\ n = Len(v)
  OBVIOUS
<1>4. /\ s \in Seq(Int) /\ Len(s) = k + 1 + n /\ s[k + 1] = Dot
      /\ \A i \in 1..k : s[i] = u[i]
      /\ \A i \in 1..n : s[k + 1 + i] = v[i]
  BY <1>1, <1>2, <1>3
<1>5. SelectInSeq(s \o <<Dot>>, LAMBDA c : c = Dot) = k + 1
  <2>1. PICK q : q = s \o <<Dot>>
    OBVIOUS
  <2>2. Len(q) = k + n + 2 /\ q[k + 1] = Dot /\ \A i \in 1..k : q[i] # Dot
    <3>1. Len(q) = k + n + 2 /\ \A i \in 1..(k + 1) : q[i] = s[i]
      BY <1>1, <1>4, <2>1
    <3>2. q[k + 1] = Dot
      <4>1. k + 1 \in 1..(k + 1)
        OBVIOUS
      <4> QED
        BY <1>4, <3>1, <4>1
    <3>3. ASSUME NEW i \in 1..k PROVE q[i] # Dot
      <4>1. i \in 1..(k + 1) /\ i \in 1..Len(u)
        BY <1>3
      <4>2. q[i] = u[i] /\ u[i] \in Digits
        BY <1>4, <3>1, <4>1
      <4> QED
        BY <1>1, <4>2
    <3> QED
      BY <3>1, <3>2, <3>3
  <2>3. PICK I : I = {i \in 1..Len(q) : q[i] = Dot}
    OBVIOUS
  <2>4. SelectInSeq(q, LAMBDA c : c = Dot) = IF I # {} THEN Min(I) ELSE 0
    BY <2>3 DEF SelectInSeq
  <2>5. I \in SUBSET Nat /\ k + 1 \in I /\ \A i \in I : i >= k + 1
    BY <2>2, <2>3
  <2>6. Min(I) \in I /\ \A i \in I : Min(I) <= i
    BY <2>5, LeastIs
  <2>7. Min(I) = k + 1
    <3>1. PICK m \in Nat : m = Min(I)
      BY <2>5, <2>6
    <3>2. m >= k + 1 /\ m <= k + 1
      BY <2>5, <2>6, <3>1
    <3> QED
      BY <3>1, <3>2
  <2> QED
    BY <2>1, <2>4, <2>5, <2>7
<1>6. SubSeq(s, 1, (k + 1) - 1) = u
  <2>1. SubSeq(s, 1, k) \in Seq(Int) /\ Len(SubSeq(s, 1, k)) = k
    BY <1>4
  <2>2. \A i \in 1..k : SubSeq(s, 1, k)[i] = u[i]
    BY <1>4
  <2>3. (k + 1) - 1 = k
    OBVIOUS
  <2> QED
    BY <1>3, <2>1, <2>2, <2>3
<1>7. SubSeq(s, (k + 1) + 1, Len(s)) = v
  <2>1. PICK f : f = SubSeq(s, k + 2, k + 1 + n)
    OBVIOUS
  <2>2. f \in Seq(Int) /\ Len(f) = n
    BY <1>4, <2>1
  <2>3. \A i \in 1..n : f[i] = s[k + 1 + i]
    BY <1>4, <2>1
  <2>4. \A i \in 1..n : f[i] = v[i]
    BY <1>4, <2>3
  <2>5. (k + 1) + 1 = k + 2
    OBVIOUS
  <2> QED
    <3>1. f = v
      <4>1. Len(f) = Len(v) /\ \A i \in 1..Len(f) : f[i] = v[i]
        BY <1>3, <2>2, <2>4
      <4> QED
        BY <2>2, <4>1, SameElements
    <3>2. Len(s) = k + 1 + n
      BY <1>4
    <3> QED
      BY <2>1, <2>5, <3>1, <3>2
<1>8. IsNumeral(u) /\ IsNumeral(v)
  BY DEF IsNumeral
<1> QED
  BY <1>2, <1>5, <1>6, <1>7, <1>8 DEF stringTolongDouble

(* A number that fits and has no more decimals than are printed.           *)
LEMMA NumberIsRead ==
  ASSUME NEW n \in Nat, n \div Base^Decimals < 2^(IntBits - 1)
  PROVE  \E u \in Seq(Int) :
           /\ u # <<>> /\ u[1] # Minus
           /\ WholeDigits(n \div Base^Decimals) \in Seq(Int) /\ LastDigits(n, Decimals) \in Seq(Int)
           /\ u = WholeDigits(n \div Base^Decimals) \o <<Dot>> \o LastDigits(n, Decimals)
           /\ Len(u) < BufferLen
           /\ stringTolongDouble(u) = n * Base
<1>1. PICK p \in [0..BufferLen -> Nat \ {0}] :
        /\ \A i \in 0..BufferLen : Base^i = p[i]
        /\ p[0] = 1 /\ \A i \in 1..BufferLen : p[i] = Base * p[i - 1]
  BY PowersOfBase
<1>2. PICK b \in Nat \ {0} : b = Base
  BY NumbersAssumption
<1>3. BufferLen \in Nat /\ Decimals \in Nat /\ Decimals \in 0..BufferLen /\ Decimals + 1 \in 0..BufferLen
  BY BufferAssumption, NumbersAssumption
<1>4. PICK d \in Nat \ {0} : d = Base^Decimals /\ d < 2^(IntBits - 1) /\ Unit = b * d
  <2>1. p[Decimals] \in Nat \ {0} /\ p[Decimals] = Base^Decimals
    BY <1>1, <1>3
  <2>2. Base^(Decimals + 1) = p[Decimals + 1] /\ p[Decimals + 1] = Base * p[Decimals]
    <3>1. Decimals + 1 \in 1..BufferLen /\ (Decimals + 1) - 1 = Decimals
      BY <1>3
    <3> QED
      BY <1>1, <1>3, <3>1
  <2> QED
    BY <1>2, <2>1, <2>2, NumbersAssumption DEF Unit
<1>5. PICK x \in Nat, y \in 0..(d - 1) : n = d * x + y /\ n \div d = x /\ n % d = y
  BY <1>4, Divided
<1>6. x < 2^(IntBits - 1) /\ y < 2^(IntBits - 1)
  BY <1>4, <1>5, DigitsAssumption
<1>7. PICK w \in 1..(BufferLen - Decimals - 2) : x < Base^w /\ WholeDigits(x) = LastDigits(x, w)
  BY <1>6, WholeDigitsAre
<1>8. w \in 0..BufferLen /\ w \in Nat /\ w >= 1
  BY <1>3, <1>7
<1>9. x % Base^w = x
  <2>1. PICK z \in Nat \ {0} : z = Base^w
    BY <1>1, <1>8
  <2>2. x \in 0..(z - 1)
    BY <1>7, <2>1
  <2>3. x % z = x
    BY <2>2
  <2> QED
    BY <2>1, <2>3
<1>10. PICK g : g = LastDigits(x, w)
  OBVIOUS
<1>11. PICK h : h = LastDigits(n, Decimals)
  OBVIOUS
<1>12. /\ g \in Seq(Int) /\ Len(g) = w /\ \A i \in 1..w : g[i] \in Digits
       /\ Accumulated(g, IntBits) = x
  BY <1>6, <1>8, <1>9, <1>10, LastDigitsRead
<1>13. /\ h \in Seq(Int) /\ Len(h) = Decimals /\ \A i \in 1..Decimals : h[i] \in Digits
       /\ Accumulated(h, IntBits) = y
  BY <1>3, <1>4, <1>5, <1>6, <1>11, LastDigitsRead
<1>14. PICK u : u = g \o <<Dot>> \o h
  OBVIOUS
<1>15. u \in Seq(Int) /\ Len(u) = w + 1 + Decimals /\ u[1] = g[1]
  <2>1. Dot \in Int
    BY NumbersAssumption DEF Dot
  <2> QED
    <3>1. PICK t : t = <<Dot>> \o h
      OBVIOUS
    <3>2. t \in Seq(Int) /\ Len(t) = 1 + Decimals
      BY <1>13, <2>1, <3>1
    <3>3. u = g \o t
      <4>1. PICK z \in Seq(Int) : z = <<Dot>>
        <5>1. <<Dot>> \in Seq(Int)
          BY <2>1
        <5> QED
          BY ONLY <5>1, Zenon
      <4>2. Then(Then(g, z), h) = Then(g, Then(z, h))
        BY <1>12, <1>13, Associates
      <4> QED
        BY ONLY <1>14, <3>1, <4>1, <4>2 DEF Then
    <3>4. 1 \in 1..Len(g) /\ Len(g) = w
      BY <1>8, <1>12
    <3> QED
      <4>1. u \in Seq(Int) /\ Len(u) = Len(g) + Len(t) /\ u[1] = g[1]
        BY <1>12, <3>2, <3>3, <3>4, Concatenated
      <4> QED
        BY <1>3, <1>8, <3>2, <3>4, <4>1
<1>16. u # <<>> /\ u[1] # Minus
  <2>1. g[1] \in Digits
    BY <1>8, <1>12
  <2>2. g[1] # Minus
    BY <2>1, NumbersAssumption DEF Digits, Minus
  <2> QED
    BY <1>3, <1>8, <1>15, <2>2
<1>17. stringTolongDouble(u) = Joined(x, y, Wrapped(d, IntBits))
  <2>1. stringTolongDouble(g \o <<Dot>> \o h) =
          Joined(Accumulated(g, IntBits), Accumulated(h, IntBits), Wrapped(Base^Len(h), IntBits))
    BY <1>12, <1>13, PartsAreRead
  <2> QED
    BY <1>4, <1>12, <1>13, <1>14, <2>1
<1>18. Wrapped(d, IntBits) = d
  <2>1. d \in 0..(2^(IntBits - 1) - 1)
    BY <1>4, DigitsAssumption
  <2> QED
    BY <2>1, WrappedInt
<1>19. Joined(x, y, d) = n * Base
  <2>1. Joined(x, y, d) = x * (b * d) + IF y = 0 THEN 0 ELSE (y * (b * d)) \div d
    BY <1>4 DEF Joined
  <2>2. (y * (b * d)) \div d = y * b
    <3>1. y * (b * d) = d * (y * b) + 0
      BY <1>5
    <3>2. y * b \in Int /\ 0 \in 0..(d - 1)
      BY <1>5
    <3> QED
      BY <3>1, <3>2, Divides
  <2>3. y = 0 => y * b = 0
    OBVIOUS
  <2>4. x * (b * d) + y * b = (d * x + y) * b
    BY <1>5
  <2> QED
    BY <1>2, <1>5, <2>1, <2>2, <2>3, <2>4
<1> QED
  <2>1. u = WholeDigits(n \div Base^Decimals) \o <<Dot>> \o LastDigits(n, Decimals)
    BY <1>4, <1>5, <1>7, <1>10, <1>11, <1>14
  <2>4. WholeDigits(n \div Base^Decimals) \in Seq(Int) /\ LastDigits(n, Decimals) \in Seq(Int)
    BY <1>4, <1>5, <1>7, <1>10, <1>11, <1>12, <1>13
  <2>2. Len(u) < BufferLen
    BY <1>3, <1>7, <1>15
  <2>3. stringTolongDouble(u) = n * Base
    BY <1>17, <1>18, <1>19
  <2> QED
    BY <1>15, <1>16, <2>1, <2>2, <2>3, <2>4

(* A short score comes back from its digits.                               *)
LEMMA ShortIsReread ==
  ASSUME NEW s \in Scores, Short(s)
  PROVE  Reread[s] = s
<1>1. PICK b \in Nat \ {0, 1} : b = Base
  BY NumbersAssumption
<1>2. PICK m \in Nat : m = 2^(IntBits - 1)
  BY DigitsAssumption
<1>3. PICK d \in Nat \ {0} : d = Base^Decimals /\ Unit = b * d
  <2>1. PICK p \in [0..BufferLen -> Nat \ {0}] :
          /\ \A i \in 0..BufferLen : Base^i = p[i]
          /\ p[0] = 1 /\ \A i \in 1..BufferLen : p[i] = Base * p[i - 1]
    BY PowersOfBase
  <2>2. Decimals \in 0..BufferLen /\ Decimals + 1 \in 1..BufferLen /\ (Decimals + 1) - 1 = Decimals
        /\ Decimals + 1 \in 0..BufferLen
    BY BufferAssumption, NumbersAssumption
  <2>3. p[Decimals] \in Nat \ {0} /\ p[Decimals] = Base^Decimals
    BY <2>1, <2>2
  <2>4. Base^(Decimals + 1) = p[Decimals + 1] /\ p[Decimals + 1] = Base * p[Decimals]
    BY <2>1, <2>2
  <2> QED
    BY <1>1, <2>3, <2>4 DEF Unit
<1>4. s \in Int
  BY PersistenceAssumption
<1>5. PICK a \in Nat : a = IF s < 0 THEN -s ELSE s
  BY <1>4
<1>6. a % b = 0 /\ a < m * (b * d)
  <2>1. s % b = 0 /\ -m * (b * d) < s /\ s < m * (b * d)
    BY <1>1, <1>2, <1>3 DEF Short
  <2>2. PICK q \in Int : s = b * q
    <3>1. s \div b \in Int /\ s = b * (s \div b) + (s % b)
      BY <1>1, <1>4
    <3>2. PICK q \in Int : q = s \div b
      BY <3>1
    <3>3. s = b * q + 0
      BY <2>1, <3>1, <3>2
    <3> QED
      BY <1>1, <3>3
  <2>3. a = b * q + 0 \/ a = b * (-q) + 0
    BY <1>1, <1>5, <2>2
  <2>4. 0 \in 0..(b - 1) /\ -q \in Int
    BY <1>1
  <2>5. a % b = 0
    <3>1. (b * q + 0) % b = 0 /\ (b * (-q) + 0) % b = 0
      BY ONLY b \in Nat \ {0, 1}, q \in Int, <2>4, Divides
    <3> QED
      BY <2>3, <3>1
  <2>6. PICK z \in Nat : z = m * (b * d)
    BY <1>1, <1>2, <1>3
  <2>7. -m * (b * d) = -z
    BY <1>1, <1>2, <1>3, <2>6
  <2> QED
    BY <1>4, <1>5, <2>1, <2>5, <2>6, <2>7
<1>7. PICK n \in Nat : a = b * n
  <2>1. PICK q \in Nat, r \in 0..(b - 1) : a = b * q + r /\ a % b = r
    <3>1. a \in Nat /\ b \in Nat \ {0}
      BY <1>1
    <3> QED
      BY ONLY <3>1, Divided
  <2>2. a = b * q
    BY <1>1, <1>6, <2>1
  <2> QED
    BY <2>2
<1>8. (a + b \div 2) \div b = n
  <2>1. PICK c \in 0..(b - 1) : c = b \div 2
    <3>1. b \div 2 \in 0..(b - 1)
      BY <1>1
    <3> QED
      BY ONLY <3>1
  <2>2. (b * n + c) \div b = n
    <3>1. n \in Int /\ b \in Nat \ {0} /\ c \in 0..(b - 1)
      OBVIOUS
    <3> QED
      BY ONLY <3>1, Divides
  <2>3. PICK x : x = b * n
    OBVIOUS
  <2>4. (x + c) \div b = n /\ a = x
    BY ONLY <1>7, <2>2, <2>3, Zenon
  <2> QED
    BY ONLY <2>1, <2>4, Zenon
<1>9. n \div d < m
  <2>1. PICK x \in Nat, y \in 0..(d - 1) : n = d * x + y /\ n \div d = x
    <3>1. n \in Nat /\ d \in Nat \ {0}
      BY <1>3
    <3> QED
      BY ONLY <3>1, Divided
  <2>2. SUFFICES ASSUME x >= m PROVE FALSE
    BY <1>2, <2>1
  <2>3. d * x >= d * m
    BY <1>2, <1>3, <2>1, <2>2
  <2>4. n >= d * m
    BY <1>2, <1>3, <2>1, <2>3
  <2>5. b * n >= b * (d * m)
    BY <1>1, <1>2, <1>3, <2>4
  <2>6. b * (d * m) = m * (b * d)
    BY <1>1, <1>2, <1>3
  <2> QED
    BY <1>1, <1>2, <1>3, <1>6, <1>7, <2>5, <2>6
<1>10. PICK u \in Seq(Int) :
         /\ u # <<>> /\ u[1] # Minus
         /\ WholeDigits(n \div Base^Decimals) \in Seq(Int) /\ LastDigits(n, Decimals) \in Seq(Int)
         /\ u = WholeDigits(n \div Base^Decimals) \o <<Dot>> \o LastDigits(n, Decimals)
         /\ Len(u) < BufferLen
         /\ stringTolongDouble(u) = n * Base
  BY <1>2, <1>3, <1>9, NumberIsRead
<1>11. stringTolongDouble(u) = a /\ a # -Unit
  <2>1. n * b = b * n /\ b * d \in Nat \ {0}
    BY <1>1, <1>3
  <2> QED
    <3>1. PICK z \in Nat \ {0} : z = Unit
      BY <1>3, <2>1
    <3>2. a # -z
      BY <1>5, <3>1
    <3>3. stringTolongDouble(u) = n * b
      BY <1>1, <1>10
    <3> QED
      BY <1>7, <2>1, <3>1, <3>2, <3>3
<1>12. PICK t : t = (IF s < 0 THEN <<Minus>> ELSE <<>>) \o u
  OBVIOUS
<1>13. Minus \in Int
  BY <1>1 DEF Minus
<1>14. /\ t \in Seq(Int) /\ Len(t) <= BufferLen /\ t # <<>>
       /\ s < 0 => t[1] = Minus /\ Tail(t) = u
       /\ ~(s < 0) => t = u
  <2>1. CASE s < 0
    <3>1. t = <<Minus>> \o u
      BY <1>12, <2>1
    <3>2. <<Minus>> \in Seq(Int) /\ Len(<<Minus>>) = 1 /\ <<Minus>>[1] = Minus
      BY <1>13
    <3>3. t \in Seq(Int) /\ Len(t) = 1 + Len(u) /\ t[1] = Minus /\ \A i \in 1..Len(u) : t[1 + i] = u[i]
      BY <3>1, <3>2, Concatenated
    <3>4. Len(t) <= BufferLen /\ t # <<>>
      BY <1>10, <3>3, BufferAssumption
    <3>5. Tail(t) = u
      <4>1. Tail(t) \in Seq(Int) /\ Len(Tail(t)) = Len(u)
        BY <3>3, <3>4
      <4>2. \A i \in 1..Len(u) : Tail(t)[i] = u[i]
        BY <3>3, <3>4
      <4> QED
        BY <4>1, <4>2, SameElements
    <3> QED
      BY <2>1, <3>3, <3>4, <3>5
  <2>2. CASE ~(s < 0)
    <3>1. t = u
      BY <1>12, <2>2
    <3> QED
      BY <1>10, <2>2, <3>1, BufferAssumption
  <2> QED
    BY <2>1, <2>2
<1>15. doubleToString(s) = t
  <2>1. t = (IF s < 0 THEN <<Minus>> ELSE <<>>)
              \o WholeDigits(n \div Base^Decimals) \o <<Dot>> \o LastDigits(n, Decimals)
    <3>1. <<Minus>> \in Seq(Int) /\ <<>> \in Seq(Int) /\ <<Dot>> \in Seq(Int)
      <4>1. Dot \in Int
        BY <1>1 DEF Dot
      <4> QED
        BY <1>13, <4>1
    <3>2. PICK g \in Seq(Int), f \in Seq(Int), z \in Seq(Int), h \in Seq(Int) :
            /\ g = (IF s < 0 THEN <<Minus>> ELSE <<>>) /\ z = <<Dot>>
            /\ f = WholeDigits(n \div Base^Decimals) /\ h = LastDigits(n, Decimals)
      BY <1>10, <3>1
    <3>3. Then(g, Then(Then(f, z), h)) = Then(Then(Then(g, f), z), h)
      BY AssociatesTwice
    <3>4. t = g \o ((f \o z) \o h)
      BY <1>10, <1>12, <3>2
    <3>5. t = ((g \o f) \o z) \o h
      BY ONLY <3>3, <3>4 DEF Then
    <3> QED
      BY ONLY <3>2, <3>5
  <2>2. SubSeq(t, 1, IF Len(t) < BufferLen THEN Len(t) ELSE BufferLen) = t
    <3>1. (IF Len(t) < BufferLen THEN Len(t) ELSE BufferLen) = Len(t)
      BY <1>14, BufferAssumption
    <3> QED
      BY <1>14, <3>1
  <2> QED
    BY <1>1, <1>5, <1>8, <2>1, <2>2 DEF doubleToString
<1>16. parseScore(t, NULL) = s
  <2>1. CASE s < 0
    <3>1. parseScore(t, NULL) = -a
      <4>1. t # <<>> /\ t[1] = Minus /\ Tail(t) = u /\ stringTolongDouble(u) = a /\ a # -Unit
        BY <1>11, <1>14, <2>1
      <4> QED
        BY ONLY <4>1 DEF parseScore
    <3> QED
      BY <1>4, <1>5, <2>1, <3>1
  <2>2. CASE ~(s < 0)
    <3>1. parseScore(t, NULL) = a
      BY <1>10, <1>11, <1>14, <2>2 DEF parseScore
    <3> QED
      BY <1>4, <1>5, <2>2, <3>1
  <2> QED
    BY <2>1, <2>2
<1> QED
  BY <1>15, <1>16 DEF Reread

-----------------------------------------------------------------------------
(* Short scores                                                            *)

LEMMA ShortStays ==
  ASSUME IInv, [Next]_vars, ~broken, pc = "boot", pos <= Len(file), file[pos].type = "zset",
         Short(file[pos].score)
  PROVE  /\ ~broken'
         /\ pos' = pos + 1 => Got(table', file[pos].key).score[file[pos].member] = file[pos].score
<1>1. Typed
  BY DEF IInv
<1>2. /\ table \in Seq(Node) /\ file \in Seq(Row) /\ pos \in Nat /\ pos >= 1 /\ Loading("zset")
  BY <1>1 DEF Typed, TypeOK, Loading
<1>3. PICK r : r = file[pos]
  OBVIOUS
<1>4. /\ r \in Row /\ r.key \in Keys /\ r.member \in Members /\ r.score \in Scores
      /\ r.type = "zset" /\ Reread[r.score] = r.score /\ Reread[r.score] # NULL
  <2>1. /\ r \in Row /\ r.key \in Keys /\ r.member \in Members /\ r.score \in Scores
        /\ r.type = "zset" /\ Short(r.score)
    BY <1>1, <1>2, <1>3, RowOfMember
  <2>2. Reread[r.score] = r.score
    BY <2>1, ShortIsReread
  <2> QED
    BY <2>1, <2>2, PersistenceAssumption
<1>5. ~broken'
  <2>1. ~(pc = "flush" \/ pc = "update" \/ pc = "load") /\ ~(torn /\ pos > Len(file))
        /\ Reread[file[pos].score] # NULL
    BY <1>2, <1>3, <1>4
  <2> QED
    BY <2>1, Ends
<1>6. ASSUME pos' = pos + 1
      PROVE  Got(table', r.key).score[r.member] = r.score
  <2>1. loadSkiplistEntry
    <3>1. pos' # 1 /\ pos' # pos
      BY <1>2, <1>6
    <3>2. CASE Command
      BY <3>1, <3>2 DEF Command, setCommand, setbitCommand, delCommand, zaddCommand, purge,
                        flushCommand, saveCommand, loadCommand
    <3>3. CASE Serve
      BY <1>2, <3>1, <3>3 DEF Serve, updated, flushed, saved, exited, Loading, loadHashMapEntry,
                              loadAbandoned, loadBitmapEntry, loaded, loadTorn, LoadEnds, Dies
    <3>4. CASE restart \/ Fault \/ Tick \/ UNCHANGED vars
      BY <3>1, <3>4 DEF restart, Fault, sigHandler, sigHandlerUnsaved, sigHandlerInFlush, crash,
                        Dies, Tick, vars
    <3> QED
      BY <3>2, <3>3, <3>4 DEF Next
  <2>2. AnswersOne(r) /\ table' = WithScore(table, r.key, r.member, r.score)
    BY <1>3, <1>4, <2>1 DEF loadSkiplistEntry
  <2>3. Got(table, r.key) = NULL \/ IsZset(Got(table, r.key))
    BY <2>2 DEF AnswersOne
  <2>4. PICK f : f = Scored(table, r.key, r.member, r.score)
    OBVIOUS
  <2>5. Got(WithScore(table, r.key, r.member, r.score), r.key) = Zset(f)
    BY <1>2, <1>4, <2>3, <2>4, WithScoreHas
  <2>6. f[r.member] = r.score
    <3>1. PICK g : g = IF Got(table, r.key) = NULL THEN NoMember ELSE Got(table, r.key).score
      OBVIOUS
    <3>2. Got(table, r.key) \in Object \cup {NULL}
      BY <1>2, <1>4, GotIs
    <3>3. g \in [Members -> Scores \cup {NULL}]
      BY <2>3, <3>1, <3>2, ObjectsAre
    <3> QED
      BY <1>4, <2>4, <3>1, <3>3 DEF Scored
  <2> QED
    BY <2>2, <2>5, <2>6 DEF Zset
<1> QED
  BY <1>3, <1>5, <1>6

(* Until a member tied with another is updated, a start reads every score  *)
(* that fits in an int and has no more decimals than are printed as it     *)
(* was, and never ends at one.                                             *)
THEOREM ShortScoresAreRead == Spec => ShortScoresSurvive
<1>1. IInv /\ [Next]_vars =>
        [(~broken /\ pc = "boot" /\ pos <= Len(file) /\ file[pos].type = "zset" /\ Short(file[pos].score)) =>
           /\ ~broken'
           /\ pos' = pos + 1 => Got(table', file[pos].key).score[file[pos].member] = file[pos].score]_vars
  BY ShortStays
<1> QED
  BY <1>1, IInvInit, IInvNext, PTL DEF Spec, ShortScoresSurvive
=============================================================================
