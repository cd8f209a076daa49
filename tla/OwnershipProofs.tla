-------------------------- MODULE OwnershipProofs ---------------------------
(***************************************************************************)
(* Ownership is well typed; no two owners have one cell; what is freed     *)
(* twice is what a refused ZADD, SIGINT or a tower left behind freed       *)
(* before; replies point to what is there, but for such a tower; and       *)
(* nothing is leaked but what LostOnly names.                              *)
(***************************************************************************)
EXTENDS Ownership, Induction, FiniteSetTheorems, FunctionTheorems, SequenceTheorems

-----------------------------------------------------------------------------
(* The least number that is free                                           *)

LEMMA FreshIsNew ==
  ASSUME NEW live, IsFiniteSet(live), NEW of
  PROVE  /\ Fresh(of, live) \in [of : {of}, n : Nat]
         /\ Fresh(of, live) \notin live
<1> DEFINE C == Cardinality(live)
           cell(i) == [of |-> of, n |-> i]
           S == {i \in Nat : cell(i) \notin live}
<1>1. C \in Nat
  BY FS_CardinalityType
<1>2. \E i \in 0..C : cell(i) \notin live
  <2> SUFFICES ASSUME \A i \in 0..C : cell(i) \in live PROVE FALSE
    OBVIOUS
  <2>1. PICK f : f = [i \in 0..C |-> cell(i)]
    OBVIOUS
  <2>2. f \in [0..C -> live] /\ \A i, j \in 0..C : f[i] = f[j] => i = j
    BY <2>1
  <2>3. f \in Injection(0..C, live)
    BY <2>2, Fun_IsInj
  <2>4. Cardinality(0..C) <= C
    BY <2>3, FS_Injection
  <2>5. Cardinality(0..C) = C + 1
    BY <1>1, FS_Interval
  <2> QED
    BY <2>4, <2>5, <1>1
<1>3. PICK m \in S : \A k \in S : m <= k
  <2>1. S \in SUBSET Nat /\ S # {}
    BY <1>1, <1>2
  <2> HIDE DEF S
  <2> QED
    BY <2>1, LeastNumber
<1>4. m \in 0..C /\ cell(m) \notin live /\ \A i \in 0..(m - 1) : cell(i) \in live
  BY <1>1, <1>2, <1>3
<1> DEFINE IsFree(n) == cell(n) \notin live /\ \A i \in 0..(n - 1) : cell(i) \in live
           n0 == CHOOSE n \in 0..C : IsFree(n)
<1>5. n0 \in 0..C /\ IsFree(n0)
  <2>1. \E n \in 0..C : IsFree(n)
    BY <1>4
  <2> HIDE DEF IsFree
  <2> QED
    BY <2>1
<1>6. Fresh(of, live) = [of |-> of, n |-> n0]
  BY DEF Fresh
<1> QED
  BY <1>1, <1>5, <1>6

-----------------------------------------------------------------------------
(* The strings of a request                                                *)

LEMMA FiniteToSet ==
  ASSUME NEW S, NEW s \in Seq(S)
  PROVE  IsFiniteSet(ToSet(s)) /\ ToSet(s) \subseteq S
<1>1. s \in [1..Len(s) -> ToSet(s)] /\ \A c \in ToSet(s) : \E i \in 1..Len(s) : s[i] = c
  BY DEF ToSet
<1>2. s \in Surjection(1..Len(s), ToSet(s))
  BY <1>1, Fun_IsSurj
<1>3. IsFiniteSet(1..Len(s))
  BY FS_Interval
<1> QED
  BY <1>2, <1>3, FS_Surjection DEF ToSet

(* New cells for what roles says, one for each.                            *)
AreStrings(strs, roles) ==
  /\ strs \in Seq(Cell) /\ Len(strs) = Len(roles)
  /\ \A i \in 1..Len(strs) : strs[i].of = roles[i] /\ strs[i] \notin heap.live
  /\ \A i, j \in 1..Len(strs) : strs[i] = strs[j] => i = j

LEMMA OneMoreString ==
  ASSUME IsFiniteSet(heap.live), NEW p \in Purpose, NEW s \in Seq(Cell)
  PROVE  LET c == Fresh(p, heap.live \cup ToSet(s))
         IN  c \in Cell /\ c.of = p /\ c \notin heap.live /\ c \notin ToSet(s)
<1>1. IsFiniteSet(heap.live \cup ToSet(s))
  BY FiniteToSet, FS_Union
<1> DEFINE c == Fresh(p, heap.live \cup ToSet(s))
<1>2. c \in [of : {p}, n : Nat] /\ c \notin heap.live \cup ToSet(s)
  BY <1>1, FreshIsNew
<1> QED
  BY <1>2 DEF Cell

LEMMA StringsAre ==
  ASSUME IsFiniteSet(heap.live), NEW roles \in Seq(Purpose)
  PROVE  AreStrings(Strings(roles), roles)
<1>1. PICK N \in Nat : N = Len(roles) /\ \A i \in 1..N : roles[i] \in Purpose
  OBVIOUS
<1> DEFINE more(s, i) == Append(s, Fresh(roles[i], heap.live \cup ToSet(s)))
           all == CHOOSE f : f = [i \in 0..N |-> IF i = 0 THEN <<>> ELSE more(f[i - 1], i)]
<1>2. PICK Step : Step = [x \in Seq(Cell) \X (1..N) |-> more(x[1], x[2])]
  OBVIOUS
<1>3. Step \in [Seq(Cell) \X (1..N) -> Seq(Cell)]
  <2> SUFFICES ASSUME NEW s \in Seq(Cell), NEW i \in 1..N PROVE more(s, i) \in Seq(Cell)
    BY <1>2
  <2>1. Fresh(roles[i], heap.live \cup ToSet(s)) \in Cell
    BY <1>1, OneMoreString
  <2> QED
    BY <2>1
<1>4. PICK f \in [0..N -> Seq(Cell)] :
        f[0] = <<>> /\ \A i \in 1..N : f[i] = Step[<<f[i - 1], i>>]
  <2>1. <<>> \in Seq(Cell)
    OBVIOUS
  <2>2. Solvable(N, Seq(Cell), <<>>, Step)
    BY <2>1, <1>3, Solution
  <2> QED
    BY <2>2 DEF Solvable
<1>5. \A i \in 1..N : f[i - 1] \in Seq(Cell) /\ f[i] = more(f[i - 1], i)
  <2> TAKE i \in 1..N
  <2>1. f[i - 1] \in Seq(Cell)
    BY <1>4
  <2>2. Step[<<f[i - 1], i>>] = more(f[i - 1], i)
    BY <1>2, <2>1
  <2> QED
    BY <1>4, <2>1, <2>2
<1> HIDE DEF more
<1>6. f = [i \in 0..N |-> IF i = 0 THEN <<>> ELSE more(f[i - 1], i)]
  BY <1>4, <1>5
<1>7. all = [i \in 0..N |-> IF i = 0 THEN <<>> ELSE more(all[i - 1], i)]
  BY <1>6
<1>8. Strings(roles) = all[N]
  BY <1>1 DEF Strings, more
<1> HIDE DEF all
<1>9. all[0] = <<>> /\ \A i \in 1..N : all[i] = more(all[i - 1], i)
  BY <1>7
<1> DEFINE Fits(s, n) ==
             /\ s \in Seq(Cell) /\ Len(s) = n
             /\ \A i \in 1..n : s[i].of = roles[i] /\ s[i] \notin heap.live
             /\ \A i, j \in 1..n : s[i] = s[j] => i = j
           T == {n \in 0..N : Fits(all[n], n)}
<1>10. 0 \in T
  <2>1. Fits(<<>>, 0)
    OBVIOUS
  <2> HIDE DEF Fits
  <2> QED
    BY <1>9, <2>1
<1>11. ASSUME NEW n \in 1..N, n - 1 \in T
       PROVE  n \in T
  <2> DEFINE s == all[n - 1]
             c == Fresh(roles[n], heap.live \cup ToSet(s))
  <2>1. Fits(s, n - 1)
    BY <1>11
  <2>2. c \in Cell /\ c.of = roles[n] /\ c \notin heap.live /\ c \notin ToSet(s)
    BY <1>1, <2>1, OneMoreString
  <2>3. all[n] = Append(s, c)
    BY <1>9 DEF more
  <2> HIDE DEF s, c
  <2>4. \A i \in 1..(n - 1) : s[i] # c
    <3>1. DOMAIN s = 1..(n - 1)
      BY <2>1
    <3> QED
      BY <2>2, <3>1 DEF ToSet
  <2>5. /\ Append(s, c) \in Seq(Cell) /\ Len(Append(s, c)) = n
        /\ \A i \in 1..(n - 1) : Append(s, c)[i] = s[i]
        /\ Append(s, c)[n] = c
    BY <2>1, <2>2
  <2>6. Fits(all[n], n)
    BY SMTT(20), <2>1, <2>2, <2>3, <2>4, <2>5
  <2> QED
    BY <2>6
<1>12. N \in T
  <2> HIDE DEF T
  <2>1. \A i \in 0..N : i \in T
    BY <1>10, <1>11, UpTo
  <2> QED
    BY <2>1
<1> QED
  BY <1>1, <1>8, <1>12 DEF AreStrings

-----------------------------------------------------------------------------
(* What is owned, from the garbage node at i on, and what is live and lost *)

Heap ==
  [table : [Keys -> Node \cup {NULL}], live : SUBSET Cell, garbage : Seq(Value), broken : BOOLEAN]

Stored(h) == {k \in Keys : h.table[k] # NULL}

CellsOf(val) ==
  {val.cell} \cup {val.members[m].key : m \in MembersIn(val)}
  \cup {val.members[m].val.cell : m \in MembersIn(val)}

KeyCells(h) == {h.table[k].key : k \in Stored(h)}
TableCells(h) == UNION {CellsOf(h.table[k].val) : k \in Stored(h)}
GarbageCells(h, i) == UNION {CellsOf(h.garbage[j]) : j \in i..Len(h.garbage)}

Owned(h, i) == KeyCells(h) \cup TableCells(h) \cup GarbageCells(h, i)
Lost(h, i) == h.live \ Owned(h, i)

GarbageApart(h, i) ==
  \A j, l \in i..Len(h.garbage) : j # l => CellsOf(h.garbage[j]) \cap CellsOf(h.garbage[l]) = {}

(* Nothing is owned by two, and what is owned is live.                     *)
Sound(h, i) ==
  /\ Owned(h, i) \subseteq h.live
  /\ TableCells(h) \cap GarbageCells(h, i) = {}
  /\ GarbageApart(h, i)

Good(h, i) == HeapOK(h) /\ ~h.broken /\ Sound(h, i)

InHeap == {"val", "bitmap", "set", "entry", "member"}

LEMMA CellsTyped ==
  ASSUME NEW v \in Value, FitsPurpose(v)
  PROVE  \A c \in CellsOf(v) :
           c \in Cell /\ c.of[1] \in InHeap /\ c.of[2] = v.cell.of[2]
<1>1. /\ v.cell \in Cell
      /\ v.cell.of[1] \in {"val", "bitmap", "set", "entry"}
  BY DEF Value, FitsPurpose
<1>2. ASSUME NEW m \in MembersIn(v)
      PROVE  /\ v.members[m].key \in Cell /\ v.members[m].val.cell \in Cell
             /\ v.members[m].key.of = <<"member", v.cell.of[2], m>>
             /\ v.members[m].val.cell.of = <<"entry", v.cell.of[2], m>>
  <2>1. m \in Members /\ v.members[m] \in Entry
    BY DEF Value, MembersIn
  <2> QED
    BY <2>1 DEF FitsPurpose, Entry
<1> QED
  BY <1>1, <1>2 DEF CellsOf, InHeap

LEMMA InTable ==
  ASSUME NEW h, HeapOK(h), NEW k \in Stored(h)
  PROVE  /\ k \in Keys /\ h.table[k] \in Node
         /\ h.table[k].key \in Cell /\ h.table[k].key.of = <<"key", k>>
         /\ h.table[k].val \in Value /\ FitsPurpose(h.table[k].val)
         /\ \A c \in CellsOf(h.table[k].val) :
              c \in Cell /\ c.of[1] \in InHeap /\ c.of[2] = k
<1>1. k \in Keys /\ h.table[k] \in Node
  BY DEF Stored, HeapOK
<1>2. /\ h.table[k].key \in Cell /\ h.table[k].key.of = <<"key", k>>
      /\ h.table[k].val \in Value /\ FitsPurpose(h.table[k].val)
      /\ h.table[k].val.cell.of[2] = k
  BY <1>1 DEF Stored, HeapOK, Node
<1> QED
  BY <1>1, <1>2, CellsTyped

LEMMA InGarbage ==
  ASSUME NEW h, HeapOK(h), NEW j \in 1..Len(h.garbage)
  PROVE  /\ h.garbage[j] \in Value /\ FitsPurpose(h.garbage[j])
         /\ \A c \in CellsOf(h.garbage[j]) : c \in Cell /\ c.of[1] \in InHeap
<1>1. h.garbage[j] \in Value /\ FitsPurpose(h.garbage[j])
  BY DEF HeapOK
<1> QED
  BY <1>1, CellsTyped

LEMMA HeapTyped ==
  ASSUME NEW h, HeapOK(h)
  PROVE  /\ h \in Heap /\ IsFiniteSet(h.live)
         /\ h.table \in [Keys -> Node \cup {NULL}] /\ h.live \subseteq Cell
         /\ h.garbage \in Seq(Value) /\ Len(h.garbage) \in Nat
         /\ h.broken \in BOOLEAN
BY DEF HeapOK, Heap

(* The key of a node is nobody else's.                                     *)
LEMMA KeysApart ==
  ASSUME NEW h, HeapOK(h), NEW k \in Stored(h), NEW i \in Nat \ {0}
  PROVE  /\ \A j \in Stored(h) : h.table[j].key = h.table[k].key => j = k
         /\ h.table[k].key \notin TableCells(h) \cup GarbageCells(h, i)
<1>1. h.table[k].key.of[1] = "key"
  BY InTable
<1>2. ASSUME NEW j \in Stored(h), h.table[j].key = h.table[k].key
      PROVE  j = k
  <2>1. <<"key", j>> = <<"key", k>>
    BY <1>2, InTable
  <2> QED
    BY <2>1
<1>3. \A c \in TableCells(h) : c.of[1] \in InHeap
  BY InTable DEF TableCells
<1>4. \A c \in GarbageCells(h, i) : c.of[1] \in InHeap
  <2>1. \A j \in i..Len(h.garbage) : j \in 1..Len(h.garbage)
    BY HeapTyped
  <2> QED
    BY <2>1, InGarbage DEF GarbageCells
<1> QED
  BY <1>1, <1>2, <1>3, <1>4 DEF InHeap

-----------------------------------------------------------------------------
(* What the operations on the heap keep                                    *)

(* A heap g that is h with other cells in use, or some of them freed.      *)
LEMMA FreedIs ==
  ASSUME NEW h \in Heap, NEW cells
  PROVE  LET g == Freed(h, cells)
         IN  /\ g \in Heap /\ g.table = h.table /\ g.garbage = h.garbage
             /\ cells \subseteq h.live => g.live = h.live \ cells /\ g.broken = h.broken
             /\ ~(cells \subseteq h.live) => g.live = h.live /\ g.broken
BY DEF Freed, Heap

LEMMA AllocIs ==
  ASSUME NEW h \in Heap, NEW cells \in SUBSET Cell
  PROVE  LET g == Alloc(h, cells)
         IN  /\ g \in Heap /\ g.table = h.table /\ g.garbage = h.garbage
             /\ g.live = h.live \cup cells /\ g.broken = h.broken
BY DEF Alloc, Heap

(* What only live tells apart is owned alike.                              *)
LEMMA SameOwned ==
  ASSUME NEW g, NEW h, g.table = h.table, g.garbage = h.garbage, NEW i
  PROVE  /\ Owned(g, i) = Owned(h, i)
         /\ TableCells(g) = TableCells(h) /\ GarbageCells(g, i) = GarbageCells(h, i)
         /\ GarbageApart(g, i) = GarbageApart(h, i)
BY DEF Owned, KeyCells, TableCells, GarbageCells, GarbageApart, Stored

LEMMA HeapIsOK ==
  ASSUME NEW h, HeapOK(h), NEW g \in Heap, IsFiniteSet(g.live),
         g.table = h.table, g.garbage = h.garbage
  PROVE  HeapOK(g)
BY DEF HeapOK, Heap

LEMMA FreedKeeps ==
  ASSUME NEW h, NEW i, Good(h, i), NEW cells \in SUBSET Lost(h, i)
  PROVE  Good(Freed(h, cells), i) /\ Lost(Freed(h, cells), i) = Lost(h, i) \ cells
<1>1. HeapOK(h) /\ h \in Heap /\ IsFiniteSet(h.live) /\ ~h.broken
  BY HeapTyped DEF Good
<1>2. cells \subseteq h.live
  BY DEF Lost
<1>3. PICK g : g = Freed(h, cells)
  OBVIOUS
<1>4. /\ g \in Heap /\ g.table = h.table /\ g.garbage = h.garbage
      /\ g.live = h.live \ cells /\ g.broken = h.broken
  BY <1>1, <1>2, <1>3, FreedIs
<1>5. HeapOK(g)
  <2>1. IsFiniteSet(g.live)
    BY <1>1, <1>4, FS_Difference
  <2> QED
    BY <1>1, <1>4, <2>1, HeapIsOK
<1>6. /\ Owned(g, i) = Owned(h, i)
      /\ TableCells(g) = TableCells(h) /\ GarbageCells(g, i) = GarbageCells(h, i)
      /\ GarbageApart(g, i) = GarbageApart(h, i)
  BY <1>4, SameOwned
<1>7. Owned(g, i) \subseteq g.live
  BY <1>4, <1>6 DEF Good, Sound, Lost
<1>8. Sound(g, i)
  BY <1>4, <1>6, <1>7 DEF Good, Sound
<1> QED
  BY <1>1, <1>3, <1>4, <1>5, <1>6, <1>8 DEF Good, Lost

LEMMA AllocKeeps ==
  ASSUME NEW h, NEW i, Good(h, i), NEW cells \in SUBSET Cell, IsFiniteSet(cells),
         cells \cap h.live = {}
  PROVE  Good(Alloc(h, cells), i) /\ Lost(Alloc(h, cells), i) = Lost(h, i) \cup cells
<1>1. HeapOK(h) /\ h \in Heap /\ IsFiniteSet(h.live) /\ ~h.broken
  BY HeapTyped DEF Good
<1>2. PICK g : g = Alloc(h, cells)
  OBVIOUS
<1>3. /\ g \in Heap /\ g.table = h.table /\ g.garbage = h.garbage
      /\ g.live = h.live \cup cells /\ g.broken = h.broken
  BY <1>1, <1>2, AllocIs
<1>4. HeapOK(g)
  <2>1. IsFiniteSet(g.live)
    BY <1>1, <1>3, FS_Union
  <2> QED
    BY <1>1, <1>3, <2>1, HeapIsOK
<1>5. /\ Owned(g, i) = Owned(h, i)
      /\ TableCells(g) = TableCells(h) /\ GarbageCells(g, i) = GarbageCells(h, i)
      /\ GarbageApart(g, i) = GarbageApart(h, i)
  BY <1>3, SameOwned
<1>6. Owned(g, i) \subseteq g.live
  BY <1>3, <1>5 DEF Good, Sound
<1>7. Sound(g, i)
  BY <1>3, <1>5, <1>6 DEF Good, Sound
<1>8. Lost(g, i) = Lost(h, i) \cup cells
  BY <1>3, <1>5 DEF Good, Sound, Lost
<1> QED
  BY <1>1, <1>2, <1>3, <1>4, <1>7, <1>8 DEF Good

LEMMA DelIs ==
  ASSUME NEW h \in Heap, NEW k \in Keys, h.table[k] # NULL, h.table[k].key \in h.live
  PROVE  LET g == del(h, k)
         IN  /\ g \in Heap /\ g.table = [h.table EXCEPT ![k] = NULL]
             /\ g.live = h.live \ {h.table[k].key}
             /\ g.garbage = Append(h.garbage, h.table[k].val) /\ g.broken = h.broken
<1> DEFINE node == h.table[k]
<1>1. node \in Node /\ node.val \in Value
  BY DEF Heap, Node
<1>2. PICK h1 : h1 = Freed(h, {node.key})
  OBVIOUS
<1>3. h1 \in Heap /\ h1.table = h.table /\ h1.garbage = h.garbage
      /\ h1.live = h.live \ {node.key} /\ h1.broken = h.broken
  BY <1>2, FreedIs
<1>4. del(h, k) = [[h1 EXCEPT !.garbage = Append(@, node.val)] EXCEPT !.table[k] = NULL]
  BY <1>2 DEF del, freeListNode, freeExoVal
<1>5. PICK h2 : h2 = [h1 EXCEPT !.garbage = Append(@, node.val)]
  OBVIOUS
<1>6. Append(h.garbage, node.val) \in Seq(Value)
  BY <1>1 DEF Heap
<1>7. h2 \in Heap /\ h2.table = h.table /\ h2.garbage = Append(h.garbage, node.val)
      /\ h2.live = h.live \ {node.key} /\ h2.broken = h.broken
  BY <1>3, <1>5, <1>6 DEF Heap
<1>8. del(h, k) = [h2 EXCEPT !.table[k] = NULL]
  BY <1>4, <1>5
<1> HIDE DEF node
<1>9. /\ [h2 EXCEPT !.table[k] = NULL] \in Heap
      /\ [h2 EXCEPT !.table[k] = NULL].table = [h.table EXCEPT ![k] = NULL]
      /\ [h2 EXCEPT !.table[k] = NULL].live = h2.live
      /\ [h2 EXCEPT !.table[k] = NULL].garbage = h2.garbage
      /\ [h2 EXCEPT !.table[k] = NULL].broken = h2.broken
  BY <1>7 DEF Heap
<1> QED
  BY <1>7, <1>8, <1>9 DEF node

(* One more on the garbage list.                                           *)
LEMMA MoreGarbage ==
  ASSUME NEW h \in Heap, NEW g \in Heap, NEW v \in Value,
         g.garbage = Append(h.garbage, v), NEW i \in 1..(Len(h.garbage) + 1)
  PROVE  /\ GarbageCells(g, i) = GarbageCells(h, i) \cup CellsOf(v)
         /\ GarbageApart(h, i) /\ CellsOf(v) \cap GarbageCells(h, i) = {} => GarbageApart(g, i)
<1>1. PICK n \in Nat : n = Len(h.garbage)
  BY DEF Heap
<1>2. /\ Len(g.garbage) = n + 1 /\ g.garbage[n + 1] = v
      /\ \A j \in 1..n : g.garbage[j] = h.garbage[j]
  BY <1>1 DEF Heap
<1>3. GarbageCells(g, i) = GarbageCells(h, i) \cup CellsOf(v)
  <2>1. i..(n + 1) = (i..n) \cup {n + 1}
    BY <1>1
  <2>2. \A j \in i..n : g.garbage[j] = h.garbage[j]
    BY <1>2
  <2> QED
    BY <1>1, <1>2, <2>1, <2>2 DEF GarbageCells
<1>4. ASSUME GarbageApart(h, i), CellsOf(v) \cap GarbageCells(h, i) = {},
             NEW j \in i..(n + 1), NEW l \in i..(n + 1), j # l
      PROVE  CellsOf(g.garbage[j]) \cap CellsOf(g.garbage[l]) = {}
  <2>1. \A x \in i..n : x \in 1..n /\ g.garbage[x] = h.garbage[x]
    BY <1>2
  <2>2. \A x \in i..n : CellsOf(g.garbage[x]) \cap CellsOf(v) = {}
    BY <1>1, <1>4, <2>1 DEF GarbageCells
  <2>3. CASE j \in i..n /\ l \in i..n
    BY <1>1, <1>4, <2>1, <2>3 DEF GarbageApart
  <2>4. CASE j = n + 1 /\ l \in i..n
    BY <1>2, <2>2, <2>4
  <2>5. CASE l = n + 1 /\ j \in i..n
    BY <1>2, <2>2, <2>5
  <2>6. (j \in i..n \/ j = n + 1) /\ (l \in i..n \/ l = n + 1)
    OBVIOUS
  <2> QED
    BY <1>4, <2>3, <2>4, <2>5, <2>6
<1> QED
  BY <1>2, <1>3, <1>4 DEF GarbageApart

(* The cells of one key's exoVal.                                          *)
LEMMA TableSplits ==
  ASSUME NEW h, HeapOK(h), NEW g, NEW k \in Stored(h),
         Stored(g) \ {k} = Stored(h) \ {k},
         \A j \in Stored(h) \ {k} : g.table[j] = h.table[j]
  PROVE  LET others == UNION {CellsOf(h.table[j].val) : j \in Stored(h) \ {k}}
         IN  /\ TableCells(h) = others \cup CellsOf(h.table[k].val)
             /\ others \cap CellsOf(h.table[k].val) = {}
             /\ TableCells(g) = others \cup (IF k \in Stored(g) THEN CellsOf(g.table[k].val) ELSE {})
             /\ KeyCells(g) = {h.table[j].key : j \in Stored(h) \ {k}}
                              \cup (IF k \in Stored(g) THEN {g.table[k].key} ELSE {})
             /\ KeyCells(h) = {h.table[j].key : j \in Stored(h) \ {k}} \cup {h.table[k].key}
             /\ h.table[k].key \notin {h.table[j].key : j \in Stored(h) \ {k}}
<1> DEFINE others == UNION {CellsOf(h.table[j].val) : j \in Stored(h) \ {k}}
<1>1. TableCells(h) = others \cup CellsOf(h.table[k].val)
  BY DEF TableCells
<1>2. others \cap CellsOf(h.table[k].val) = {}
  <2>1. \A c \in CellsOf(h.table[k].val) : c.of[2] = k
    BY InTable
  <2>2. \A j \in Stored(h) \ {k} : \A c \in CellsOf(h.table[j].val) : c.of[2] = j
    BY InTable
  <2> QED
    BY <2>1, <2>2
<1>3. TableCells(g) = others \cup (IF k \in Stored(g) THEN CellsOf(g.table[k].val) ELSE {})
  BY DEF TableCells
<1>4. KeyCells(g) = {h.table[j].key : j \in Stored(h) \ {k}}
                    \cup (IF k \in Stored(g) THEN {g.table[k].key} ELSE {})
  BY DEF KeyCells
<1>5. KeyCells(h) = {h.table[j].key : j \in Stored(h) \ {k}} \cup {h.table[k].key}
  BY DEF KeyCells
<1>6. h.table[k].key \notin {h.table[j].key : j \in Stored(h) \ {k}}
  BY KeysApart, 1 \in Nat \ {0}
<1> QED
  BY <1>1, <1>2, <1>3, <1>4, <1>5, <1>6

LEMMA DelKeeps ==
  ASSUME NEW h, Good(h, 1), NEW k \in Keys
  PROVE  /\ Good(del(h, k), 1) /\ Lost(del(h, k), 1) = Lost(h, 1)
         /\ del(h, k).table = [h.table EXCEPT ![k] = NULL]
<1>1. HeapOK(h) /\ h \in Heap /\ IsFiniteSet(h.live) /\ ~h.broken /\ Sound(h, 1)
  BY HeapTyped DEF Good
<1>2. CASE h.table[k] = NULL
  <2>1. [h.table EXCEPT ![k] = NULL] = h.table
    BY <1>1, <1>2 DEF Heap
  <2> QED
    BY <1>2, <2>1 DEF del
<1>3. CASE h.table[k] # NULL
  <2> DEFINE node == h.table[k]
  <2>1. PICK g : g = del(h, k)
    OBVIOUS
  <2>2. k \in Stored(h)
    BY <1>3 DEF Stored
  <2>3. node.key \in h.live
    BY <1>1, <2>2 DEF Sound, Owned, KeyCells
  <2>4. /\ g \in Heap /\ g.table = [h.table EXCEPT ![k] = NULL]
        /\ g.live = h.live \ {node.key}
        /\ g.garbage = Append(h.garbage, node.val) /\ g.broken = h.broken
    BY <1>1, <1>3, <2>1, <2>3, DelIs
  <2>5. /\ node \in Node /\ node.val \in Value /\ FitsPurpose(node.val)
    BY <1>1, <2>2, InTable
  <2>6. Stored(g) = Stored(h) \ {k} /\ \A j \in Stored(g) : g.table[j] = h.table[j]
    BY <1>1, <2>2, <2>4 DEF Stored, Heap
  <2>7. HeapOK(g)
    <3>1. IsFiniteSet(g.live)
      <4>1. IsFiniteSet(h.live \ {node.key})
        BY <1>1, FS_RemoveElement
      <4> QED
        BY <2>4, <4>1
    <3>2. \A j \in Keys : g.table[j] # NULL => g.table[j] = h.table[j] /\ h.table[j] # NULL
      BY <2>6 DEF Stored
    <3>3. \A j \in DOMAIN g.garbage : FitsPurpose(g.garbage[j])
      <4>1. \A j \in DOMAIN h.garbage : FitsPurpose(h.garbage[j])
        BY <1>1 DEF HeapOK
      <4>2. ASSUME NEW j \in DOMAIN g.garbage
            PROVE  \/ g.garbage[j] = node.val
                   \/ j \in DOMAIN h.garbage /\ g.garbage[j] = h.garbage[j]
        BY <1>1, <2>4, <2>5 DEF Heap
      <4> QED
        BY <2>5, <4>1, <4>2
    <3> QED
      BY <1>1, <2>4, <3>1, <3>2, <3>3 DEF HeapOK, Heap
  <2> DEFINE V == CellsOf(node.val)
             others == UNION {CellsOf(h.table[j].val) : j \in Stored(h) \ {k}}
             keys == {h.table[j].key : j \in Stored(h) \ {k}}
  <2>8. /\ TableCells(h) = others \cup V /\ others \cap V = {} /\ TableCells(g) = others
        /\ KeyCells(g) = keys /\ KeyCells(h) = keys \cup {node.key} /\ node.key \notin keys
    <3>1. Stored(g) \ {k} = Stored(h) \ {k} /\ k \notin Stored(g)
      BY <2>6
    <3> QED
      BY SMTT(20), <1>1, <2>2, <2>6, <3>1, TableSplits
  <2>9. /\ GarbageCells(g, 1) = GarbageCells(h, 1) \cup V
        /\ V \cap GarbageCells(h, 1) = {}
        /\ GarbageApart(g, 1)
    <3>1. 1 \in 1..(Len(h.garbage) + 1)
      BY <1>1, HeapTyped
    <3>2. V \cap GarbageCells(h, 1) = {} /\ GarbageApart(h, 1)
      BY <1>1, <2>8 DEF Sound
    <3> QED
      BY <1>1, <2>4, <2>5, <3>1, <3>2, MoreGarbage
  <2>10. node.key \notin TableCells(h) \cup GarbageCells(h, 1)
    BY <1>1, <2>2, KeysApart, 1 \in Nat \ {0}
  <2> HIDE DEF V, others, keys
  <2>11. Owned(g, 1) = Owned(h, 1) \ {node.key}
    BY <2>8, <2>9, <2>10 DEF Owned
  <2>12. Sound(g, 1) /\ Lost(g, 1) = Lost(h, 1)
    BY <1>1, <2>3, <2>4, <2>8, <2>9, <2>10, <2>11 DEF Sound, Lost, Owned
  <2> QED
    BY <1>1, <2>1, <2>4, <2>7, <2>12 DEF Good
<1> QED
  BY <1>2, <1>3

NodeFor(k, node) ==
  /\ node \in Node /\ node.key.of = <<"key", k>> /\ node.val.type # "entry"
  /\ node.val.cell.of[2] = k /\ FitsPurpose(node.val)

(* g is h but for the node, which h does not own.                          *)
StoresIn(h, g, k, node) ==
  /\ h.table[k] = NULL /\ NodeFor(k, node)
  /\ {node.key} \cup CellsOf(node.val) \subseteq Lost(h, 1)
  /\ g \in Heap /\ g.table = [h.table EXCEPT ![k] = node]
  /\ g.live = h.live /\ g.garbage = h.garbage /\ g.broken = h.broken

(* A node for a key that has none.                                         *)
LEMMA StoreKeeps ==
  ASSUME NEW h, Good(h, 1), NEW k \in Keys, NEW node, NEW g, StoresIn(h, g, k, node)
  PROVE  Good(g, 1) /\ Lost(g, 1) = Lost(h, 1) \ ({node.key} \cup CellsOf(node.val))
<1> USE DEF StoresIn, NodeFor
<1>1. HeapOK(h) /\ h \in Heap /\ IsFiniteSet(h.live) /\ ~h.broken /\ Sound(h, 1)
  BY HeapTyped DEF Good
<1>2. node # NULL
  BY OwnershipAssumption
<1>3. /\ g.table[k] = node /\ \A j \in Keys \ {k} : g.table[j] = h.table[j]
  BY <1>1 DEF Heap
<1>4. /\ Stored(g) = Stored(h) \cup {k} /\ k \notin Stored(h)
      /\ \A j \in Stored(h) : g.table[j] = h.table[j]
  BY <1>2, <1>3 DEF Stored
<1>5. HeapOK(g)
  BY <1>1, <1>3 DEF HeapOK, Heap
<1>6. /\ KeyCells(g) = KeyCells(h) \cup {node.key}
      /\ TableCells(g) = TableCells(h) \cup CellsOf(node.val)
  BY <1>3, <1>4 DEF KeyCells, TableCells
<1>7. GarbageCells(g, 1) = GarbageCells(h, 1) /\ GarbageApart(g, 1) = GarbageApart(h, 1)
  BY DEF GarbageCells, GarbageApart
<1>8. Owned(g, 1) = Owned(h, 1) \cup {node.key} \cup CellsOf(node.val)
  BY <1>6, <1>7 DEF Owned
<1>9. CellsOf(node.val) \cap GarbageCells(h, 1) = {}
  BY DEF Lost, Owned
<1>10. Sound(g, 1)
  BY <1>1, <1>6, <1>7, <1>8, <1>9 DEF Sound, Lost
<1> QED
  BY <1>1, <1>5, <1>8, <1>10 DEF Good, Lost

LEMMA SetIs ==
  ASSUME NEW h \in Heap, NEW k \in Keys, h.table[k] # NULL => h.table[k].key \in h.live,
         NEW key \in Cell, NEW val \in Value
  PROVE  LET d == del(h, k)
             g == set(h, k, key, val)
         IN  /\ g \in Heap /\ g.table = [h.table EXCEPT ![k] = [key |-> key, val |-> val]]
             /\ g.live = d.live /\ g.garbage = d.garbage /\ g.broken = d.broken
<1>1. PICK node : node = [key |-> key, val |-> val]
  OBVIOUS
<1>2. node \in Node
  BY <1>1 DEF Node
<1>3. ASSUME NEW h1 \in Heap, h1.table = h.table
      PROVE  LET g == [h1 EXCEPT !.table[k] = node]
             IN  /\ g \in Heap /\ g.table = [h.table EXCEPT ![k] = node]
                 /\ g.live = h1.live /\ g.garbage = h1.garbage /\ g.broken = h1.broken
  BY <1>2, <1>3 DEF Heap
<1>4. CASE h.table[k] = NULL
  <2>1. set(h, k, key, val) = [h EXCEPT !.table[k] = node] /\ del(h, k) = h
    BY <1>1, <1>4 DEF set, del
  <2> QED
    BY <1>1, <1>3, <2>1
<1>5. CASE h.table[k] # NULL
  <2>1. PICK h1 : h1 = freeListNode(h, h.table[k])
    OBVIOUS
  <2>2. h1 \in Heap /\ h1.table = h.table
    <3>1. PICK h0 : h0 = Freed(h, {h.table[k].key})
      OBVIOUS
    <3>2. h0 \in Heap /\ h0.table = h.table
      BY <3>1, FreedIs
    <3>3. h.table[k].val \in Value
      BY <1>5 DEF Heap, Node
    <3>4. h1 = [h0 EXCEPT !.garbage = Append(@, h.table[k].val)]
      BY <2>1, <3>1 DEF freeListNode, freeExoVal
    <3>5. Append(h0.garbage, h.table[k].val) \in Seq(Value)
      BY <3>2, <3>3 DEF Heap
    <3> QED
      BY <3>2, <3>4, <3>5 DEF Heap
  <2>3. set(h, k, key, val) = [h1 EXCEPT !.table[k] = node]
    BY <1>1, <1>5, <2>1 DEF set
  <2>4. del(h, k) = [h1 EXCEPT !.table[k] = NULL]
    BY <1>5, <2>1 DEF del
  <2>5. del(h, k).live = h1.live /\ del(h, k).garbage = h1.garbage /\ del(h, k).broken = h1.broken
    BY <2>2, <2>4 DEF Heap
  <2> QED
    BY <1>1, <1>3, <2>2, <2>3, <2>5
<1> QED
  BY <1>4, <1>5

PurposeOf(type) == IF type = "string" THEN "val" ELSE type

LEMMA ValIs ==
  ASSUME NEW cell \in Cell, NEW type \in {"string", "bitmap", "set", "entry"},
         cell.of[1] = PurposeOf(type)
  PROVE  LET v == Val(cell, type)
         IN  /\ v \in Value /\ FitsPurpose(v) /\ CellsOf(v) = {cell} /\ MembersIn(v) = {}
             /\ v.cell = cell /\ v.type = type
<1>1. NoMembers \in [Members -> Entry \cup {NULL}] /\ \A m \in Members : NoMembers[m] = NULL
  BY DEF NoMembers
<1>2. PICK v : v = Val(cell, type)
  OBVIOUS
<1>3. v = [cell |-> cell, type |-> type, members |-> NoMembers]
  BY <1>2 DEF Val
<1>4. v \in Value /\ v.cell = cell /\ v.type = type /\ MembersIn(v) = {}
  BY <1>1, <1>3 DEF Value, MembersIn
<1>5. FitsPurpose(v) /\ CellsOf(v) = {cell}
  BY <1>4 DEF FitsPurpose, CellsOf, PurposeOf
<1> QED
  BY <1>2, <1>4, <1>5

(* Cells that a node for k may have.                                       *)
MaySet(h, k, key, cell, type) ==
  /\ k \in Keys /\ key \in Lost(h, 1) /\ cell \in Lost(h, 1)
  /\ type \in {"string", "bitmap", "set"}
  /\ key.of = <<"key", k>> /\ cell.of = <<PurposeOf(type), k>>

HasSet(h, g, k, key, cell, type) ==
  /\ Good(g, 1) /\ Lost(g, 1) = Lost(h, 1) \ {key, cell}
  /\ g.table = [h.table EXCEPT ![k] = [key |-> key, val |-> Val(cell, type)]]

LEMMA SetKeeps ==
  ASSUME NEW h, Good(h, 1), NEW k, NEW key, NEW cell, NEW type, MaySet(h, k, key, cell, type)
  PROVE  HasSet(h, set(h, k, key, Val(cell, type)), k, key, cell, type)
<1> USE DEF MaySet
<1>1. h \in Heap /\ HeapOK(h) /\ Sound(h, 1)
  BY HeapTyped DEF Good
<1>2. key \in Cell /\ cell \in Cell
  BY <1>1, HeapTyped DEF Lost
<1>3. PICK v : v = Val(cell, type)
  OBVIOUS
<1>4. /\ v \in Value /\ FitsPurpose(v) /\ CellsOf(v) = {cell} /\ v.cell = cell /\ v.type = type
  <2>1. cell.of[1] = PurposeOf(type)
    OBVIOUS
  <2> QED
    BY <1>2, <1>3, <2>1, ValIs
<1>5. h.table[k] # NULL => h.table[k].key \in h.live
  BY <1>1 DEF Sound, Owned, KeyCells, Stored
<1>6. PICK d, g : d = del(h, k) /\ g = set(h, k, key, v)
  OBVIOUS
<1>7. /\ g \in Heap /\ g.table = [h.table EXCEPT ![k] = [key |-> key, val |-> v]]
      /\ g.live = d.live /\ g.garbage = d.garbage /\ g.broken = d.broken
  BY <1>1, <1>2, <1>4, <1>5, <1>6, SetIs
<1>8. /\ Good(d, 1) /\ Lost(d, 1) = Lost(h, 1)
      /\ d.table = [h.table EXCEPT ![k] = NULL]
  BY <1>6, DelKeeps
<1>9. PICK node : node = [key |-> key, val |-> v]
  OBVIOUS
<1>10. node \in Node /\ node.key = key /\ node.val = v
  BY <1>2, <1>4, <1>9 DEF Node
<1>11. d.table[k] = NULL /\ g.table = [d.table EXCEPT ![k] = node]
  BY <1>1, <1>7, <1>8, <1>9 DEF Heap
<1>12. {node.key} \cup CellsOf(node.val) \subseteq Lost(d, 1)
  BY <1>4, <1>8, <1>10
<1>13. /\ node.key.of = <<"key", k>> /\ node.val.type # "entry" /\ node.val.cell.of[2] = k
       /\ FitsPurpose(node.val)
  BY <1>4, <1>10
<1>14. Good(g, 1) /\ Lost(g, 1) = Lost(d, 1) \ ({node.key} \cup CellsOf(node.val))
  <2>1. StoresIn(d, g, k, node)
    BY <1>7, <1>10, <1>11, <1>12, <1>13 DEF StoresIn, NodeFor
  <2> QED
    BY <1>8, <2>1, StoreKeeps
<1>15. Lost(g, 1) = Lost(h, 1) \ {key, cell}
  BY <1>4, <1>8, <1>10, <1>14
<1>16. HasSet(h, g, k, key, cell, type)
  BY <1>3, <1>7, <1>14, <1>15 DEF HasSet
<1> QED
  BY <1>3, <1>6, <1>16

-----------------------------------------------------------------------------
(* Members of sorted sets                                                  *)

LEMMA ValueWithout ==
  ASSUME NEW v \in Value, FitsPurpose(v), NEW m \in MembersIn(v)
  PROVE  LET w == [v EXCEPT !.members[m] = NULL]
             e == v.members[m]
         IN  /\ w \in Value /\ FitsPurpose(w) /\ w.cell = v.cell /\ w.type = v.type
             /\ MembersIn(w) = MembersIn(v) \ {m}
             /\ e \in Entry /\ e.key \in Cell
             /\ e.val \in Value /\ FitsPurpose(e.val) /\ CellsOf(e.val) = {e.val.cell}
             /\ CellsOf(v) = CellsOf(w) \cup {e.key, e.val.cell}
             /\ e.key \notin CellsOf(w) /\ e.val.cell \notin CellsOf(w) /\ e.key # e.val.cell
<1>1. PICK w, e : w = [v EXCEPT !.members[m] = NULL] /\ e = v.members[m]
  OBVIOUS
<1>2. m \in Members /\ e \in Entry /\ \A n \in MembersIn(v) : v.members[n] \in Entry
  BY <1>1 DEF MembersIn, Value
<1>3. w \in Value /\ w.cell = v.cell /\ w.type = v.type
      /\ w.members[m] = NULL /\ \A n \in Members \ {m} : w.members[n] = v.members[n]
  BY <1>1, <1>2 DEF Value
<1>4. MembersIn(w) = MembersIn(v) \ {m}
  BY <1>2, <1>3 DEF MembersIn
<1>5. FitsPurpose(w)
  BY <1>3, <1>4 DEF FitsPurpose, MembersIn
<1>6. e.key \in Cell /\ e.val.cell \in Cell /\ e.val.type = "entry" /\ e.val.members = NoMembers
      /\ e.val = [cell |-> e.val.cell, type |-> "entry", members |-> NoMembers]
  BY <1>2 DEF Entry
<1>7. e.key.of = <<"member", v.cell.of[2], m>> /\ e.val.cell.of = <<"entry", v.cell.of[2], m>>
  BY <1>1 DEF FitsPurpose
<1>8. e.val \in Value /\ FitsPurpose(e.val) /\ CellsOf(e.val) = {e.val.cell}
  <2>1. e.val = Val(e.val.cell, "entry")
    BY <1>6 DEF Val
  <2>2. e.val.cell.of[1] = PurposeOf("entry")
    BY <1>7 DEF PurposeOf
  <2> QED
    BY <1>6, <2>1, <2>2, ValIs
<1>9. CellsOf(v) = CellsOf(w) \cup {e.key, e.val.cell}
  <2>1. \A n \in MembersIn(w) : w.members[n] = v.members[n]
    BY <1>3, <1>4 DEF MembersIn
  <2>2. MembersIn(v) = MembersIn(w) \cup {m}
    BY <1>4
  <2> QED
    BY <1>1, <1>3, <2>1, <2>2 DEF CellsOf
<1>10. e.key \notin CellsOf(w) /\ e.val.cell \notin CellsOf(w) /\ e.key # e.val.cell
  <2>1. ASSUME NEW n \in MembersIn(w)
        PROVE  /\ w.members[n].key.of = <<"member", w.cell.of[2], n>>
               /\ w.members[n].val.cell.of = <<"entry", w.cell.of[2], n>>
               /\ n # m
    BY <1>4, <1>5 DEF FitsPurpose
  <2>2. w.cell.of[1] \in {"val", "bitmap", "set", "entry"}
    BY <1>3, <1>5 DEF FitsPurpose, Value
  <2>3. CASE e.key \in CellsOf(w) \/ e.key = e.val.cell
    <3>1. e.key.of[1] = "member" /\ e.key.of[3] = m /\ e.val.cell.of[1] = "entry"
      BY <1>7
    <3>2. CASE \E n \in MembersIn(w) : e.key = w.members[n].key
      <4>1. PICK n \in MembersIn(w) : e.key = w.members[n].key
        BY <3>2
      <4>2. e.key.of[3] = n
        BY <2>1, <4>1
      <4> QED
        BY <2>1, <3>1, <4>2
    <3>3. CASE \E n \in MembersIn(w) : e.key = w.members[n].val.cell
      <4>1. PICK n \in MembersIn(w) : e.key = w.members[n].val.cell
        BY <3>3
      <4>2. e.key.of[1] = "entry"
        BY <2>1, <4>1
      <4> QED
        BY <3>1, <4>2
    <3>4. e.key # w.cell /\ e.key # e.val.cell
      BY <2>2, <3>1
    <3> QED
      BY <2>3, <3>2, <3>3, <3>4 DEF CellsOf
  <2>4. CASE e.val.cell = w.cell
    <3>1. w.cell.of[1] = "set"
      BY <1>3 DEF FitsPurpose
    <3> QED
      BY <1>7, <2>4, <3>1
  <2>5. CASE e.val.cell \in CellsOf(w) \ {w.cell}
    BY <1>7, <2>1, <2>5 DEF CellsOf
  <2> QED
    BY <2>3, <2>4, <2>5
<1> QED
  BY <1>1, <1>2, <1>3, <1>4, <1>5, <1>6, <1>8, <1>9, <1>10

LEMMA ValueWith ==
  ASSUME NEW v \in Value, FitsPurpose(v), v.type = "set", NEW m \in Members,
         v.members[m] = NULL, NEW str \in Cell, NEW cell \in Cell,
         str.of = <<"member", v.cell.of[2], m>>, cell.of = <<"entry", v.cell.of[2], m>>
  PROVE  LET w == [v EXCEPT !.members[m] = [key |-> str, val |-> Val(cell, "entry")]]
         IN  /\ w \in Value /\ FitsPurpose(w) /\ w.cell = v.cell /\ w.type = v.type
             /\ MembersIn(w) = MembersIn(v) \cup {m}
             /\ w.members[m].key = str /\ w.members[m].val = Val(cell, "entry")
             /\ CellsOf(w) = CellsOf(v) \cup {str, cell}
<1>1. PICK e : e = [key |-> str, val |-> Val(cell, "entry")]
  OBVIOUS
<1>2. PICK w : w = [v EXCEPT !.members[m] = e]
  OBVIOUS
<1>3. e \in Entry /\ e.key = str /\ e.val = Val(cell, "entry") /\ e.val.cell = cell
  BY <1>1 DEF Entry, Val
<1>4. e # NULL
  BY <1>3, OwnershipAssumption
<1>5. w \in Value /\ w.cell = v.cell /\ w.type = v.type
      /\ w.members[m] = e /\ \A n \in Members \ {m} : w.members[n] = v.members[n]
  BY <1>2, <1>3 DEF Value
<1>6. MembersIn(w) = MembersIn(v) \cup {m} /\ m \notin MembersIn(v)
      /\ \A n \in MembersIn(v) : w.members[n] = v.members[n]
  BY <1>4, <1>5 DEF MembersIn
<1>7. FitsPurpose(w)
  BY <1>3, <1>5, <1>6 DEF FitsPurpose
<1>8. CellsOf(w) = CellsOf(v) \cup {str, cell}
  BY <1>3, <1>5, <1>6 DEF CellsOf
<1> QED
  BY <1>1, <1>2, <1>3, <1>5, <1>6, <1>7, <1>8

(* g is h but for what is in the exoVal of k.                              *)
RevaluesIn(h, g, k, w) ==
  /\ w \in Value /\ FitsPurpose(w)
  /\ w.cell = h.table[k].val.cell /\ w.type = h.table[k].val.type
  /\ g \in Heap /\ g.table = [h.table EXCEPT ![k].val = w]

LEMMA Revalued ==
  ASSUME NEW h, HeapOK(h), NEW k \in Stored(h), NEW g, NEW w, RevaluesIn(h, g, k, w),
         IsFiniteSet(g.live), \A i \in DOMAIN g.garbage : FitsPurpose(g.garbage[i])
  PROVE  /\ HeapOK(g) /\ Stored(g) = Stored(h) /\ KeyCells(g) = KeyCells(h)
         /\ TableCells(g) = (TableCells(h) \ CellsOf(h.table[k].val)) \cup CellsOf(w)
<1> USE DEF RevaluesIn
<1>1. /\ h \in Heap /\ k \in Keys /\ h.table[k] \in Node /\ h.table[k].key \in Cell
      /\ h.table[k].key.of = <<"key", k>>
  BY HeapTyped, InTable
<1>2. PICK node : node = [h.table[k] EXCEPT !.val = w]
  OBVIOUS
<1>3. node \in Node /\ node.key = h.table[k].key /\ node.val = w /\ node # NULL
  BY <1>1, <1>2, OwnershipAssumption DEF Node
<1>4. g.table[k] = node /\ \A j \in Keys \ {k} : g.table[j] = h.table[j]
  BY <1>1, <1>2 DEF Heap
<1>5. Stored(g) = Stored(h)
  BY <1>3, <1>4 DEF Stored
<1>6. HeapOK(g)
  <2>1. h.table[k].val.type # "entry" /\ h.table[k].val.cell.of[2] = k
    BY DEF HeapOK, Stored
  <2>2. \A j \in Keys \ {k} : g.table[j] # NULL =>
          /\ g.table[j].key.of = <<"key", j>>
          /\ g.table[j].val.type # "entry" /\ g.table[j].val.cell.of[2] = j
          /\ FitsPurpose(g.table[j].val)
    BY <1>4 DEF HeapOK
  <2>3. /\ g.table[k].key.of = <<"key", k>>
        /\ g.table[k].val.type # "entry" /\ g.table[k].val.cell.of[2] = k
        /\ FitsPurpose(g.table[k].val)
    BY <1>1, <1>3, <1>4, <2>1
  <2> QED
    BY <2>2, <2>3 DEF HeapOK, Heap
<1>7. KeyCells(g) = KeyCells(h) /\ TableCells(g) = (TableCells(h) \ CellsOf(h.table[k].val)) \cup CellsOf(w)
  <2>1. Stored(g) \ {k} = Stored(h) \ {k} /\ \A j \in Stored(h) \ {k} : g.table[j] = h.table[j]
    BY <1>4, <1>5 DEF Stored
  <2>2. k \in Stored(g)
    BY <1>5
  <2> DEFINE others == UNION {CellsOf(h.table[j].val) : j \in Stored(h) \ {k}}
             keys == {h.table[j].key : j \in Stored(h) \ {k}}
  <2>3. /\ TableCells(h) = others \cup CellsOf(h.table[k].val)
        /\ others \cap CellsOf(h.table[k].val) = {}
        /\ TableCells(g) = others \cup CellsOf(g.table[k].val)
        /\ KeyCells(g) = keys \cup {g.table[k].key}
        /\ KeyCells(h) = keys \cup {h.table[k].key}
    <3>1. HeapOK(h) /\ k \in Stored(h)
      OBVIOUS
    <3>2. /\ TableCells(h) = others \cup CellsOf(h.table[k].val)
          /\ others \cap CellsOf(h.table[k].val) = {}
          /\ TableCells(g) = others \cup (IF k \in Stored(g) THEN CellsOf(g.table[k].val) ELSE {})
          /\ KeyCells(g) = keys \cup (IF k \in Stored(g) THEN {g.table[k].key} ELSE {})
          /\ KeyCells(h) = keys \cup {h.table[k].key}
      BY ONLY <2>1, <3>1, TableSplits
    <3> HIDE DEF others, keys
    <3> QED
      BY ONLY <2>2, <3>2
  <2> HIDE DEF others, keys
  <2> QED
    BY <1>3, <1>4, <2>3
<1> QED
  BY <1>5, <1>6, <1>7

LEMMA RemoveKeeps ==
  ASSUME NEW h, Good(h, 1), NEW k \in Stored(h), NEW m \in MembersIn(h.table[k].val)
  PROVE  LET g == removeNodeFromSkipList(h, k, m)
         IN  /\ Good(g, 1) /\ Lost(g, 1) = Lost(h, 1)
             /\ g.table = [h.table EXCEPT ![k].val = [h.table[k].val EXCEPT !.members[m] = NULL]]
<1>1. HeapOK(h) /\ h \in Heap /\ IsFiniteSet(h.live) /\ ~h.broken /\ Sound(h, 1)
  BY HeapTyped DEF Good
<1>2. PICK v, w, e : /\ v = h.table[k].val /\ w = [v EXCEPT !.members[m] = NULL]
                     /\ e = v.members[m]
  OBVIOUS
<1>3. k \in Keys /\ h.table[k] \in Node /\ v \in Value /\ FitsPurpose(v) /\ m \in MembersIn(v)
  BY <1>1, <1>2, InTable
<1>4. /\ w \in Value /\ FitsPurpose(w) /\ w.cell = v.cell /\ w.type = v.type
      /\ e.val \in Value /\ FitsPurpose(e.val) /\ CellsOf(e.val) = {e.val.cell}
      /\ CellsOf(v) = CellsOf(w) \cup {e.key, e.val.cell}
      /\ e.key \notin CellsOf(w) /\ e.val.cell \notin CellsOf(w) /\ e.key # e.val.cell
  <2> DEFINE W == [v EXCEPT !.members[m] = NULL]
             E == v.members[m]
  <2>1. /\ W \in Value /\ FitsPurpose(W) /\ W.cell = v.cell /\ W.type = v.type
        /\ E.val \in Value /\ FitsPurpose(E.val) /\ CellsOf(E.val) = {E.val.cell}
        /\ CellsOf(v) = CellsOf(W) \cup {E.key, E.val.cell}
        /\ E.key \notin CellsOf(W) /\ E.val.cell \notin CellsOf(W) /\ E.key # E.val.cell
    BY ONLY <1>3, ValueWithout
  <2>2. w = W /\ e = E
    BY <1>2
  <2> HIDE DEF W, E
  <2> QED
    BY <2>1, <2>2
<1>5. CellsOf(v) \subseteq TableCells(h)
  BY <1>2 DEF TableCells
<1>6. e.key \in h.live
  BY <1>1, <1>4, <1>5 DEF Sound, Owned
<1>7. PICK h1 : h1 = Freed(h, {e.key})
  OBVIOUS
<1>8. /\ h1 \in Heap /\ h1.table = h.table /\ h1.garbage = h.garbage
      /\ h1.live = h.live \ {e.key} /\ h1.broken = h.broken
  BY <1>1, <1>6, <1>7, FreedIs
<1>9. PICK h2 : h2 = [h1 EXCEPT !.garbage = Append(@, e.val)]
  OBVIOUS
<1>10. /\ h2 \in Heap /\ h2.table = h.table /\ h2.garbage = Append(h.garbage, e.val)
       /\ h2.live = h.live \ {e.key} /\ h2.broken = h.broken
  <2>1. Append(h.garbage, e.val) \in Seq(Value)
    BY <1>1, <1>4 DEF Heap
  <2> QED
    BY <1>8, <1>9, <2>1 DEF Heap
<1>11. PICK g : g = removeNodeFromSkipList(h, k, m)
  OBVIOUS
<1>12. g = [h2 EXCEPT !.table[k].val.members[m] = NULL]
  BY <1>2, <1>7, <1>9, <1>11 DEF removeNodeFromSkipList, freeListNode, freeExoVal
<1>13. /\ g \in Heap /\ g.table = [h.table EXCEPT ![k].val = w]
       /\ g.live = h2.live /\ g.garbage = h2.garbage /\ g.broken = h2.broken
  <2>1. PICK node : node = [h.table[k] EXCEPT !.val = w]
    OBVIOUS
  <2>2. node \in Node
    BY <1>3, <1>4, <2>1 DEF Node
  <2>3. g = [h2 EXCEPT !.table = [h.table EXCEPT ![k] = node]]
    BY <1>2, <1>10, <1>12, <2>1
  <2>4. [h.table EXCEPT ![k] = node] = [h.table EXCEPT ![k].val = w]
    BY <2>1
  <2>5. [h.table EXCEPT ![k] = node] \in [Keys -> Node \cup {NULL}]
    BY <1>1, <2>2 DEF Heap
  <2> QED
    BY <1>10, <2>3, <2>4, <2>5 DEF Heap
<1>14. IsFiniteSet(g.live)
  <2>1. IsFiniteSet(h.live \ {e.key})
    BY <1>1, FS_RemoveElement
  <2> QED
    BY <1>10, <1>13, <2>1
<1>15. \A i \in DOMAIN g.garbage : FitsPurpose(g.garbage[i])
  <2>1. \A i \in DOMAIN h.garbage : FitsPurpose(h.garbage[i])
    BY <1>1 DEF HeapOK
  <2>2. ASSUME NEW i \in DOMAIN g.garbage
        PROVE  g.garbage[i] = e.val \/ (i \in DOMAIN h.garbage /\ g.garbage[i] = h.garbage[i])
    BY <1>1, <1>4, <1>10, <1>13 DEF Heap
  <2> QED
    BY <1>4, <2>1, <2>2
<1>16. /\ HeapOK(g) /\ KeyCells(g) = KeyCells(h)
       /\ TableCells(g) = (TableCells(h) \ CellsOf(v)) \cup CellsOf(w)
  <2>1. RevaluesIn(h, g, k, w)
    BY <1>2, <1>4, <1>13 DEF RevaluesIn
  <2> QED
    BY <1>1, <1>2, <1>14, <1>15, <2>1, Revalued
<1>17. TableCells(g) = TableCells(h) \ {e.key, e.val.cell}
  BY <1>4, <1>5, <1>16
<1>18. /\ GarbageCells(g, 1) = GarbageCells(h, 1) \cup {e.val.cell}
       /\ GarbageApart(g, 1) /\ TableCells(h) \cap GarbageCells(h, 1) = {}
  <2>1. 1 \in 1..(Len(h.garbage) + 1)
    BY <1>1, HeapTyped
  <2>2. CellsOf(e.val) \cap GarbageCells(h, 1) = {} /\ GarbageApart(h, 1)
        /\ TableCells(h) \cap GarbageCells(h, 1) = {}
    BY <1>1, <1>4, <1>5 DEF Sound
  <2>3. g.garbage = Append(h.garbage, e.val)
    BY <1>10, <1>13
  <2>4. /\ GarbageCells(g, 1) = GarbageCells(h, 1) \cup CellsOf(e.val)
        /\ GarbageApart(h, 1) /\ CellsOf(e.val) \cap GarbageCells(h, 1) = {} => GarbageApart(g, 1)
    BY ONLY <1>1, <1>4, <1>13, <2>1, <2>3, MoreGarbage
  <2> QED
    BY <1>4, <2>2, <2>4
<1>19. KeyCells(h) \cap TableCells(h) = {}
  BY <1>1, KeysApart, 1 \in Nat \ {0} DEF KeyCells
<1>20. /\ e.key \in TableCells(h) /\ e.val.cell \in TableCells(h)
  BY <1>4, <1>5
<1>21. Owned(g, 1) = Owned(h, 1) \ {e.key}
  BY <1>4, <1>16, <1>17, <1>18, <1>19, <1>20 DEF Owned
<1>22. Sound(g, 1)
  BY <1>1, <1>10, <1>13, <1>17, <1>18, <1>21 DEF Sound
<1>23. Lost(g, 1) = Lost(h, 1)
  BY <1>10, <1>13, <1>20, <1>21 DEF Lost, Owned
<1> QED
  BY <1>1, <1>2, <1>10, <1>11, <1>13, <1>16, <1>22, <1>23 DEF Good

LEMMA AddKeeps ==
  ASSUME NEW h, Good(h, 1), NEW k \in Stored(h), h.table[k].val.type = "set",
         NEW m \in Members, h.table[k].val.members[m] = NULL,
         NEW str \in Lost(h, 1), str.of = <<"member", k, m>>
  PROVE  LET g == addNodeToSkiplist(h, k, m, str)
         IN  /\ Good(g, 1) /\ Lost(g, 1) = Lost(h, 1) \ {str}
             /\ Stored(g) = Stored(h) /\ g.table[k].val.type = "set"
             /\ MembersIn(g.table[k].val) = MembersIn(h.table[k].val) \cup {m}
<1>1. HeapOK(h) /\ h \in Heap /\ IsFiniteSet(h.live) /\ ~h.broken /\ Sound(h, 1)
  BY HeapTyped DEF Good
<1>2. PICK v, cell : v = h.table[k].val /\ cell = Fresh(<<"entry", k, m>>, h.live)
  OBVIOUS
<1>3. k \in Keys /\ h.table[k] \in Node /\ v \in Value /\ FitsPurpose(v) /\ v.type = "set"
      /\ v.cell.of[2] = k
  BY <1>1, <1>2, InTable DEF HeapOK, Stored
<1>4. cell \in Cell /\ cell.of = <<"entry", k, m>> /\ cell \notin h.live
  <2>1. cell \in [of : {<<"entry", k, m>>}, n : Nat] /\ cell \notin h.live
    BY <1>1, <1>2, FreshIsNew
  <2>2. <<"entry", k, m>> \in Purpose
    BY <1>3 DEF Purpose
  <2> QED
    BY <2>1, <2>2 DEF Cell
<1>5. str \in Cell /\ str \in h.live
  BY <1>1, HeapTyped DEF Lost
<1>6. PICK h1 : h1 = Alloc(h, {cell})
  OBVIOUS
<1>7. /\ Good(h1, 1) /\ Lost(h1, 1) = Lost(h, 1) \cup {cell}
      /\ h1 \in Heap /\ h1.table = h.table /\ h1.garbage = h.garbage
      /\ h1.live = h.live \cup {cell} /\ h1.broken = h.broken
  <2>1. IsFiniteSet({cell}) /\ {cell} \in SUBSET Cell /\ {cell} \cap h.live = {}
    BY <1>4, FS_Singleton
  <2>2. Good(h1, 1) /\ Lost(h1, 1) = Lost(h, 1) \cup {cell}
    <3>1. PICK cells : cells = {cell}
      OBVIOUS
    <3>2. cells \in SUBSET Cell /\ IsFiniteSet(cells) /\ cells \cap h.live = {}
      BY <2>1, <3>1
    <3>3. Good(Alloc(h, cells), 1) /\ Lost(Alloc(h, cells), 1) = Lost(h, 1) \cup cells
      BY ONLY Good(h, 1), <3>2, AllocKeeps
    <3> QED
      BY <1>6, <3>1, <3>3
  <2>3. /\ h1 \in Heap /\ h1.table = h.table /\ h1.garbage = h.garbage
        /\ h1.live = h.live \cup {cell} /\ h1.broken = h.broken
    BY <1>1, <1>6, <2>1, AllocIs
  <2> QED
    BY <2>2, <2>3
<1>8. PICK w : w = [v EXCEPT !.members[m] = [key |-> str, val |-> Val(cell, "entry")]]
  OBVIOUS
<1>9. /\ w \in Value /\ FitsPurpose(w) /\ w.cell = v.cell /\ w.type = v.type
      /\ MembersIn(w) = MembersIn(v) \cup {m}
      /\ CellsOf(w) = CellsOf(v) \cup {str, cell}
  <2> DEFINE W == [v EXCEPT !.members[m] = [key |-> str, val |-> Val(cell, "entry")]]
  <2>1. /\ v.members[m] = NULL
        /\ str.of = <<"member", v.cell.of[2], m>> /\ cell.of = <<"entry", v.cell.of[2], m>>
    BY <1>2, <1>3, <1>4
  <2>2. /\ W \in Value /\ FitsPurpose(W) /\ W.cell = v.cell /\ W.type = v.type
        /\ MembersIn(W) = MembersIn(v) \cup {m}
        /\ CellsOf(W) = CellsOf(v) \cup {str, cell}
    BY ONLY <1>3, <1>4, <1>5, <2>1, m \in Members, ValueWith, SMTT(20)
  <2>3. w = W
    BY <1>8
  <2> HIDE DEF W
  <2> QED
    BY <2>2, <2>3
<1>10. PICK g : g = addNodeToSkiplist(h, k, m, str)
  OBVIOUS
<1>11. g = [h1 EXCEPT !.table[k].val.members[m] = [key |-> str, val |-> Val(cell, "entry")]]
  BY <1>2, <1>6, <1>10 DEF addNodeToSkiplist
<1>12. /\ g \in Heap /\ g.table = [h.table EXCEPT ![k].val = w]
       /\ g.live = h1.live /\ g.garbage = h1.garbage /\ g.broken = h1.broken
  <2>1. PICK node : node = [h.table[k] EXCEPT !.val = w]
    OBVIOUS
  <2>2. node \in Node
    BY <1>3, <1>9, <2>1 DEF Node
  <2>3. g = [h1 EXCEPT !.table = [h.table EXCEPT ![k] = node]]
    BY <1>2, <1>7, <1>8, <1>11, <2>1
  <2>4. [h.table EXCEPT ![k] = node] = [h.table EXCEPT ![k].val = w]
    BY <2>1
  <2>5. [h.table EXCEPT ![k] = node] \in [Keys -> Node \cup {NULL}]
    BY <1>1, <2>2 DEF Heap
  <2> QED
    BY <1>7, <2>3, <2>4, <2>5 DEF Heap
<1>13. /\ HeapOK(g) /\ Stored(g) = Stored(h) /\ KeyCells(g) = KeyCells(h)
       /\ TableCells(g) = (TableCells(h) \ CellsOf(v)) \cup CellsOf(w)
  <2>1. RevaluesIn(h, g, k, w)
    BY <1>2, <1>9, <1>12 DEF RevaluesIn
  <2>2. IsFiniteSet(g.live) /\ \A i \in DOMAIN g.garbage : FitsPurpose(g.garbage[i])
    BY <1>7, <1>12 DEF Good, HeapOK
  <2> QED
    BY <1>1, <1>2, <2>1, <2>2, Revalued
<1>14. TableCells(g) = TableCells(h) \cup {str, cell}
  <2>1. CellsOf(v) \subseteq TableCells(h)
    BY <1>2 DEF TableCells
  <2> QED
    BY <1>9, <1>13, <2>1
<1>15. GarbageCells(g, 1) = GarbageCells(h, 1) /\ GarbageApart(g, 1) = GarbageApart(h, 1)
  BY <1>7, <1>12 DEF GarbageCells, GarbageApart
<1>16. Owned(g, 1) = Owned(h, 1) \cup {str, cell}
  BY <1>13, <1>14, <1>15 DEF Owned
<1>17. cell \notin Owned(h, 1) /\ str \notin Owned(h, 1)
  BY <1>1, <1>4 DEF Sound, Lost
<1>18. Sound(g, 1)
  BY <1>1, <1>5, <1>7, <1>12, <1>14, <1>15, <1>16, <1>17 DEF Sound, Owned
<1>19. Lost(g, 1) = Lost(h, 1) \ {str}
  BY <1>4, <1>7, <1>12, <1>16 DEF Lost
<1>20. g.table[k].val = w
  BY <1>1, <1>3, <1>12 DEF Heap, Node
<1> QED
  BY <1>1, <1>2, <1>3, <1>7, <1>9, <1>10, <1>12, <1>13, <1>18, <1>19, <1>20 DEF Good

-----------------------------------------------------------------------------
(* One key after the other                                                 *)

LEMMA DeletedIn ==
  ASSUME NEW S, NEW h \in S, NEW ks \in Seq(Keys),
         \A g \in S : \A k \in Keys : del(g, k) \in S
  PROVE  Deleted(h, ks) \in S
<1>1. PICK N \in Nat : N = Len(ks) /\ \A i \in 1..N : ks[i] \in Keys
  OBVIOUS
<1> DEFINE all == CHOOSE f : f = [i \in 0..N |-> IF i = 0 THEN h ELSE del(f[i - 1], ks[i])]
<1>2. PICK Step : Step = [x \in S \X (1..N) |-> del(x[1], ks[x[2]])]
  OBVIOUS
<1>3. Step \in [S \X (1..N) -> S]
  BY <1>1, <1>2
<1>4. PICK f \in [0..N -> S] : f[0] = h /\ \A i \in 1..N : f[i] = Step[<<f[i - 1], i>>]
  <2>1. Solvable(N, S, h, Step)
    BY <1>3, Solution
  <2> QED
    BY <2>1 DEF Solvable
<1>5. \A i \in 1..N : f[i] = del(f[i - 1], ks[i])
  <2> TAKE i \in 1..N
  <2>1. f[i - 1] \in S
    BY <1>4
  <2>2. Step[<<f[i - 1], i>>] = del(f[i - 1], ks[i])
    BY <1>2, <2>1
  <2> QED
    BY <1>4, <2>2
<1>6. f = [i \in 0..N |-> IF i = 0 THEN h ELSE del(f[i - 1], ks[i])]
  BY <1>4, <1>5
<1>7. all = [i \in 0..N |-> IF i = 0 THEN h ELSE del(all[i - 1], ks[i])]
  BY <1>6
<1>8. Deleted(h, ks) = all[N]
  BY <1>1 DEF Deleted
<1> HIDE DEF all
<1>9. all[0] = h /\ \A i \in 1..N : all[i] = del(all[i - 1], ks[i])
  BY <1>7
<1> DEFINE T == {i \in 0..N : all[i] \in S}
<1>10. 0 \in T /\ \A i \in 1..N : i - 1 \in T => i \in T
  BY <1>1, <1>9
<1>11. \A i \in 0..N : i \in T
  <2> HIDE DEF T
  <2> QED
    BY <1>10, UpTo
<1> QED
  BY <1>8, <1>11

LEMMA DeletedKeeps ==
  ASSUME NEW h, Good(h, 1), NEW ks \in Seq(Keys)
  PROVE  Good(Deleted(h, ks), 1) /\ Lost(Deleted(h, ks), 1) = Lost(h, 1)
<1>1. PICK S : S = {g \in Heap : Good(g, 1) /\ Lost(g, 1) = Lost(h, 1)}
  OBVIOUS
<1>2. h \in S
  BY <1>1, HeapTyped DEF Good
<1>3. ASSUME NEW g \in S, NEW k \in Keys
      PROVE  del(g, k) \in S
  <2>1. Good(del(g, k), 1) /\ Lost(del(g, k), 1) = Lost(h, 1)
    BY <1>1, DelKeeps
  <2>2. del(g, k) \in Heap
    BY <2>1, HeapTyped DEF Good
  <2> QED
    BY <1>1, <2>1, <2>2
<1>4. Deleted(h, ks) \in S
  BY <1>2, <1>3, DeletedIn
<1> QED
  BY <1>1, <1>4

(* Broken or not, what is deleted has its type.                            *)
LEMMA DelOK ==
  ASSUME NEW h, HeapOK(h), NEW k \in Keys
  PROVE  HeapOK(del(h, k))
<1>1. h \in Heap /\ IsFiniteSet(h.live)
  BY HeapTyped
<1>2. CASE h.table[k] = NULL
  BY <1>2 DEF del
<1>3. CASE h.table[k] # NULL
  <2>1. PICK node, h1, h2, g :
          /\ node = h.table[k] /\ h1 = Freed(h, {node.key})
          /\ h2 = [h1 EXCEPT !.garbage = Append(@, node.val)]
          /\ g = [h2 EXCEPT !.table[k] = NULL]
    OBVIOUS
  <2>2. del(h, k) = g
    BY <1>3, <2>1 DEF del, freeListNode, freeExoVal
  <2>3. node.val \in Value /\ FitsPurpose(node.val)
    BY <1>3, <2>1, InTable DEF Stored
  <2>4. h1 \in Heap /\ h1.table = h.table /\ h1.garbage = h.garbage /\ IsFiniteSet(h1.live)
    <3>1. h1 \in Heap /\ h1.table = h.table /\ h1.garbage = h.garbage
      BY <1>1, <2>1, FreedIs
    <3>2. h1.live \subseteq h.live
      BY <1>1, <2>1, FreedIs
    <3> QED
      BY <1>1, <3>1, <3>2, FS_Subset
  <2>5. h2 \in Heap /\ h2.table = h.table /\ h2.garbage = Append(h.garbage, node.val)
        /\ h2.live = h1.live
    <3>1. Append(h.garbage, node.val) \in Seq(Value)
      BY <1>1, <2>3 DEF Heap
    <3> QED
      BY <2>1, <2>4, <3>1 DEF Heap
  <2>6. g \in Heap /\ g.table = [h.table EXCEPT ![k] = NULL] /\ g.garbage = h2.garbage
        /\ g.live = h2.live
    BY <2>1, <2>5 DEF Heap
  <2>7. \A j \in Keys : g.table[j] # NULL => g.table[j] = h.table[j] /\ h.table[j] # NULL
    BY <1>1, <2>6 DEF Heap
  <2>8. \A j \in DOMAIN g.garbage : FitsPurpose(g.garbage[j])
    <3>1. \A j \in DOMAIN h.garbage : FitsPurpose(h.garbage[j])
      BY DEF HeapOK
    <3>2. ASSUME NEW j \in DOMAIN g.garbage
          PROVE  \/ g.garbage[j] = node.val
                 \/ j \in DOMAIN h.garbage /\ g.garbage[j] = h.garbage[j]
      BY <1>1, <2>3, <2>5, <2>6 DEF Heap
    <3> QED
      BY <2>3, <3>1, <3>2
  <2>9. IsFiniteSet(g.live)
    BY <2>4, <2>5, <2>6
  <2> QED
    BY <2>2, <2>6, <2>7, <2>8, <2>9 DEF HeapOK, Heap
<1> QED
  BY <1>2, <1>3

LEMMA DeletedOK ==
  ASSUME NEW h, HeapOK(h), NEW ks \in Seq(Keys)
  PROVE  HeapOK(Deleted(h, ks))
<1>1. PICK S : S = {g \in Heap : HeapOK(g)}
  OBVIOUS
<1>2. h \in S
  BY <1>1, HeapTyped
<1>3. ASSUME NEW g \in S, NEW k \in Keys
      PROVE  del(g, k) \in S
  BY <1>1, DelOK, HeapTyped
<1>4. Deleted(h, ks) \in S
  BY <1>2, <1>3, DeletedIn
<1> QED
  BY <1>1, <1>4

LEMMA FoundKeeps ==
  ASSUME NEW h, Good(h, 1), NEW k \in Keys, NEW expired \in BOOLEAN
  PROVE  Good(Found(h, k, expired), 1) /\ Lost(Found(h, k, expired), 1) = Lost(h, 1)
BY DelKeeps DEF Found

-----------------------------------------------------------------------------
(* ZADD                                                                    *)

IsSet(h, k) == k \in Stored(h) /\ h.table[k].val.type = "set"

LEMMA PairKeeps ==
  ASSUME NEW h, Good(h, 1), NEW k, IsSet(h, k), NEW sw, NEW m \in Members,
         NEW str \in Lost(h, 1), str.of = <<"member", k, m>>
  PROVE  LET g == Pair(h, k, sw, m, str)
         IN  /\ Good(g, 1) /\ IsSet(g, k)
             /\ Lost(h, 1) \ {str} \subseteq Lost(g, 1) /\ Lost(g, 1) \subseteq Lost(h, 1)
<1>1. k \in Stored(h) /\ h.table[k].val.type = "set" /\ HeapOK(h)
  BY DEF IsSet, Good
<1>2. ASSUME NEW g, Good(g, 1), IsSet(g, k), Lost(g, 1) = Lost(h, 1),
             g.table[k].val.members[m] = NULL
      PROVE  LET a == addNodeToSkiplist(g, k, m, str)
             IN  Good(a, 1) /\ IsSet(a, k) /\ Lost(a, 1) = Lost(h, 1) \ {str}
  <2>1. k \in Stored(g) /\ g.table[k].val.type = "set" /\ str \in Lost(g, 1)
    BY <1>2 DEF IsSet
  <2>2. PICK a : a = addNodeToSkiplist(g, k, m, str)
    OBVIOUS
  <2>3. /\ Good(a, 1) /\ Lost(a, 1) = Lost(g, 1) \ {str}
        /\ Stored(a) = Stored(g) /\ a.table[k].val.type = "set"
    BY <1>2, <2>1, <2>2, AddKeeps
  <2> QED
    BY <1>2, <2>1, <2>2, <2>3 DEF IsSet
<1>3. CASE Has(h, k, m) /\ "NX" \notin sw
  <2>1. m \in MembersIn(h.table[k].val)
    BY <1>3 DEF Has
  <2>2. PICK r, w : /\ r = removeNodeFromSkipList(h, k, m)
                    /\ w = [h.table[k].val EXCEPT !.members[m] = NULL]
    OBVIOUS
  <2>3. /\ Good(r, 1) /\ Lost(r, 1) = Lost(h, 1) /\ r.table = [h.table EXCEPT ![k].val = w]
    BY <1>1, <2>1, <2>2, RemoveKeeps
  <2>4. h.table \in [Keys -> Node \cup {NULL}] /\ k \in Keys /\ h.table[k] \in Node
        /\ h.table[k].val \in Value
    BY <1>1, InTable, HeapTyped
  <2>5. r.table[k].val = w /\ r.table[k] \in Node
    <3>1. w \in Value
      BY <1>1, <2>1, <2>2, <2>4, InTable, ValueWithout
    <3>2. r.table[k] = [h.table[k] EXCEPT !.val = w]
      BY <2>3, <2>4
    <3> QED
      BY <2>4, <3>1, <3>2 DEF Node
  <2>6. IsSet(r, k) /\ r.table[k].val.members[m] = NULL
    <3>1. w.type = "set" /\ w.members[m] = NULL
      BY <1>1, <2>1, <2>2, <2>4 DEF Value, MembersIn
    <3>2. r.table[k] # NULL
      BY <2>5, OwnershipAssumption
    <3> QED
      BY <2>4, <2>5, <3>1, <3>2 DEF IsSet, Stored
  <2>7. Pair(h, k, sw, m, str) = addNodeToSkiplist(r, k, m, str)
    BY <1>3, <2>2 DEF Pair
  <2> QED
    BY <1>2, <2>3, <2>6, <2>7
<1>4. CASE ~Has(h, k, m) /\ ~("XX" \in sw /\ "INCR" \notin sw)
  <2>1. Pair(h, k, sw, m, str) = addNodeToSkiplist(h, k, m, str)
    BY <1>4 DEF Pair
  <2>2. h.table[k].val.members[m] = NULL
    BY <1>4 DEF Has, MembersIn
  <2> QED
    BY <1>2, <2>1, <2>2
<1>5. CASE Pair(h, k, sw, m, str) = h
  BY <1>5
<1> QED
  BY <1>3, <1>4, <1>5 DEF Pair

LEMMA SwitchCount ==
  ASSUME NEW sw \in SUBSET {"NX", "XX", "INCR"}
  PROVE  Cardinality(sw) \in Nat
<1>1. IsFiniteSet({"NX"}) /\ IsFiniteSet({"XX"}) /\ IsFiniteSet({"INCR"})
  BY FS_Singleton
<1>2. IsFiniteSet({"NX"} \cup {"XX"})
  BY <1>1, FS_Union
<1>3. IsFiniteSet(({"NX"} \cup {"XX"}) \cup {"INCR"})
  BY <1>1, <1>2, FS_Union
<1>4. sw \subseteq ({"NX"} \cup {"XX"}) \cup {"INCR"}
  OBVIOUS
<1> QED
  BY <1>3, <1>4, FS_Subset, FS_CardinalityType

(* The arguments of a ZADD are what its roles say.                         *)
RolesFit(roles, k, sw, ms) ==
  /\ roles \in Seq(Purpose) /\ Len(roles) \in Nat /\ 2 \in 1..Len(roles)
  /\ roles[2] = <<"key", k>>
  /\ \A j \in 1..Len(ms) :
       /\ ScoreAt(sw, j) \in 1..Len(roles) /\ ScoreAt(sw, j) + 1 \in 1..Len(roles)
       /\ roles[ScoreAt(sw, j)] = <<"score">>
       /\ roles[ScoreAt(sw, j) + 1] = <<"member", k, ms[j]>>
  /\ \A i \in 1..Len(roles) :
       /\ roles[i][1] \in {"cmd", "key", "switch", "score", "member"}
       /\ roles[i][1] = "score" => \E j \in 1..Len(ms) : i = ScoreAt(sw, j)

LEMMA RolesOfZadd ==
  ASSUME NEW k \in Keys, NEW sw \in SUBSET {"NX", "XX", "INCR"}, NEW ms \in Seq(Members)
  PROVE  RolesFit(ZaddRoles(k, sw, ms), k, sw, ms)
<1>1. PICK C : C = Cardinality(sw)
  OBVIOUS
<1>2. C \in Nat
  BY <1>1, SwitchCount
<1>3. PICK L \in Nat : L = Len(ms)
  OBVIOUS
<1>4. \A j \in Int : ScoreAt(sw, j) = 1 + C + 2 * j
  BY <1>1 DEF ScoreAt
<1>5. PICK roles : roles = ZaddRoles(k, sw, ms)
  OBVIOUS
<1> DEFINE N == 2 + C + 2 * L
           role(i) == IF i = 1 THEN <<"cmd">> ELSE IF i = 2 THEN <<"key", k>>
                      ELSE IF i < C + 3 THEN <<"switch">>
                      ELSE IF (i - (C + 3)) % 2 = 0 THEN <<"score">>
                      ELSE <<"member", k, ms[(i - (C + 3)) \div 2 + 1]>>
<1>6. roles = [i \in 1..N |-> role(i)]
  <2>1. ScoreAt(sw, 1) = C + 3
    BY <1>2, <1>4
  <2> QED
    BY <1>1, <1>3, <1>5, <2>1 DEF ZaddRoles
<1>7. ASSUME NEW i \in 1..N
      PROVE  \/ role(i) = <<"cmd">> \/ role(i) = <<"key", k>> \/ role(i) = <<"switch">>
             \/ role(i) = <<"score">> /\ \E j \in 1..L : i = 1 + C + 2 * j
             \/ \E j \in 1..L : role(i) = <<"member", k, ms[j]>>
  <2>1. CASE i < C + 3
    BY <1>2, <2>1
  <2>2. CASE i >= C + 3
    <3>1. PICK d \in Nat : i = C + 3 + d
      <4>1. i - (C + 3) \in Nat
        BY <1>2, <2>2
      <4> QED
        BY <1>2, <4>1
    <3>2. d \in 0..(2 * L - 1) /\ i - (C + 3) = d
      BY <1>2, <1>3, <3>1
    <3>3. PICK q \in Nat : q = d \div 2 /\ (d = 2 * q \/ d = 2 * q + 1)
                           /\ (d % 2 = 0 => d = 2 * q)
      BY <3>1
    <3>4. q + 1 \in 1..L
      BY <1>3, <3>2, <3>3
    <3>5. CASE d % 2 = 0
      <4>1. i = 1 + C + 2 * (q + 1)
        BY <1>2, <3>1, <3>3, <3>5
      <4>2. role(i) = <<"score">>
        BY <1>2, <3>1, <3>2, <3>5
      <4> QED
        BY <3>4, <4>1, <4>2
    <3>6. CASE d % 2 # 0
      <4>1. role(i) = <<"member", k, ms[q + 1]>>
        BY <1>2, <3>1, <3>2, <3>3, <3>6
      <4> QED
        BY <3>4, <4>1
    <3> QED
      BY <3>5, <3>6
  <2>3. i < C + 3 \/ i >= C + 3
    BY <1>2
  <2> HIDE DEF role
  <2> QED
    BY <2>1, <2>2, <2>3
<1>8. ASSUME NEW j \in 1..L
      PROVE  /\ 1 + C + 2 * j \in 1..N /\ role(1 + C + 2 * j) = <<"score">>
             /\ 2 + C + 2 * j \in 1..N /\ role(2 + C + 2 * j) = <<"member", k, ms[j]>>
  <2>1. 1 + C + 2 * j \in 1..N /\ 2 + C + 2 * j \in 1..N
    BY <1>2, <1>3
  <2>2. 1 + C + 2 * j >= C + 3 /\ 2 + C + 2 * j >= C + 3
    BY <1>2
  <2>3. (1 + C + 2 * j) - (C + 3) = 2 * (j - 1) /\ (2 + C + 2 * j) - (C + 3) = 2 * (j - 1) + 1
    BY <1>2
  <2>4. /\ (2 * (j - 1)) % 2 = 0 /\ (2 * (j - 1) + 1) % 2 = 1
        /\ (2 * (j - 1) + 1) \div 2 + 1 = j
    OBVIOUS
  <2> QED
    BY <1>2, <2>1, <2>2, <2>3, <2>4
<1> HIDE DEF role
<1>9. ms \in [1..L -> Members]
  BY <1>3
<1>10. \A i \in 1..N : role(i) \in Purpose /\ role(i)[1] \in {"cmd", "key", "switch", "score", "member"}
                       /\ (role(i)[1] = "score" => \E j \in 1..L : i = 1 + C + 2 * j)
  <2> TAKE i \in 1..N
  <2>1. CASE role(i) = <<"cmd">> \/ role(i) = <<"key", k>> \/ role(i) = <<"switch">>
    BY <2>1 DEF Purpose
  <2>2. CASE role(i) = <<"score">> /\ \E j \in 1..L : i = 1 + C + 2 * j
    BY <2>2 DEF Purpose
  <2>3. CASE \E j \in 1..L : role(i) = <<"member", k, ms[j]>>
    BY <1>9, <2>3 DEF Purpose
  <2> QED
    BY <1>7, <2>1, <2>2, <2>3
<1>11. N \in Nat /\ 2 \in 1..N /\ role(2) = <<"key", k>>
  BY <1>2, <1>3 DEF role
<1>12. roles \in Seq(Purpose) /\ Len(roles) = N /\ \A i \in 1..N : roles[i] = role(i)
  <2>1. roles \in [1..N -> Purpose]
    BY <1>6, <1>10
  <2> QED
    BY <1>6, <1>11, <2>1
<1> HIDE DEF N
<1>13. \A j \in 1..L : /\ ScoreAt(sw, j) = 1 + C + 2 * j /\ ScoreAt(sw, j) + 1 = 2 + C + 2 * j
  BY SMTT(20), <1>2, <1>4
<1> QED
  BY <1>3, <1>5, <1>8, <1>10, <1>11, <1>12, <1>13 DEF RolesFit

(* The members that a ZADD may store, one for each of its pairs.           *)
MembersReady(h, k, sw, ms, strs) ==
  /\ \A j \in 1..Len(ms) : /\ strs[ScoreAt(sw, j) + 1] \in Lost(h, 1)
                           /\ strs[ScoreAt(sw, j) + 1].of = <<"member", k, ms[j]>>
  /\ \A i, j \in 1..Len(ms) : strs[ScoreAt(sw, i) + 1] = strs[ScoreAt(sw, j) + 1] => i = j

Pairs(h, k, sw, ms, strs) ==
  LET hs[i \in 0..Len(ms)] ==
        IF i = 0 THEN h ELSE Pair(hs[i - 1], k, sw, ms[i], strs[ScoreAt(sw, i) + 1])
  IN hs[Len(ms)]

LEMMA PairsKeep ==
  ASSUME NEW h, Good(h, 1), NEW k, IsSet(h, k), NEW sw, NEW ms \in Seq(Members), NEW strs,
         MembersReady(h, k, sw, ms, strs)
  PROVE  LET g == Pairs(h, k, sw, ms, strs)
         IN  /\ Good(g, 1) /\ IsSet(g, k) /\ Lost(g, 1) \subseteq Lost(h, 1)
             /\ \A c \in Lost(h, 1) : c.of[1] # "member" => c \in Lost(g, 1)
<1>1. PICK N \in Nat : N = Len(ms) /\ \A i \in 1..N : ms[i] \in Members
  OBVIOUS
<1> DEFINE str(i) == strs[ScoreAt(sw, i) + 1]
           all == CHOOSE f : f = [i \in 0..N |->
                    IF i = 0 THEN h ELSE Pair(f[i - 1], k, sw, ms[i], str(i))]
<1>2. PICK M : M = [i \in 1..N |-> str(i)]
  OBVIOUS
<1>3. /\ \A j \in 1..N : M[j] = str(j) /\ M[j] \in Lost(h, 1) /\ M[j].of = <<"member", k, ms[j]>>
      /\ \A i, j \in 1..N : M[i] = M[j] => i = j
  BY <1>1, <1>2 DEF MembersReady
<1>4. PICK S : S = {g \in Heap : Good(g, 1) /\ IsSet(g, k)}
  OBVIOUS
<1>5. h \in S
  BY <1>4, HeapTyped DEF Good
<1>6. PICK Step : Step = [x \in S \X (1..N) |->
                    IF M[x[2]] \in Lost(x[1], 1) THEN Pair(x[1], k, sw, ms[x[2]], M[x[2]])
                    ELSE x[1]]
  OBVIOUS
<1>7. ASSUME NEW g \in S, NEW i \in 1..N, M[i] \in Lost(g, 1)
      PROVE  LET p == Pair(g, k, sw, ms[i], M[i])
             IN  /\ p \in S
                 /\ Lost(g, 1) \ {M[i]} \subseteq Lost(p, 1) /\ Lost(p, 1) \subseteq Lost(g, 1)
  <2>1. PICK p : p = Pair(g, k, sw, ms[i], M[i])
    OBVIOUS
  <2>2. /\ Good(p, 1) /\ IsSet(p, k)
        /\ Lost(g, 1) \ {M[i]} \subseteq Lost(p, 1) /\ Lost(p, 1) \subseteq Lost(g, 1)
    BY <1>1, <1>3, <1>4, <1>7, <2>1, PairKeeps
  <2>3. p \in Heap
    BY <2>2, HeapTyped DEF Good
  <2> QED
    BY <1>4, <2>1, <2>2, <2>3
<1>8. Step \in [S \X (1..N) -> S]
  <2> SUFFICES ASSUME NEW g \in S, NEW i \in 1..N
               PROVE  (IF M[i] \in Lost(g, 1) THEN Pair(g, k, sw, ms[i], M[i]) ELSE g) \in S
    BY <1>6
  <2> QED
    BY <1>7
<1>9. PICK f \in [0..N -> S] : f[0] = h /\ \A i \in 1..N : f[i] = Step[<<f[i - 1], i>>]
  <2>1. Solvable(N, S, h, Step)
    BY <1>5, <1>8, Solution
  <2> QED
    BY <2>1 DEF Solvable
<1> DEFINE Fits(g, n) ==
             /\ g \in S /\ Lost(g, 1) \subseteq Lost(h, 1)
             /\ \A c \in Lost(h, 1) : c \in Lost(g, 1) \/ \E i \in 1..n : c = M[i]
           T == {i \in 0..N : Fits(f[i], i)}
<1>10. 0 \in T
  BY <1>5, <1>9
<1>11. ASSUME NEW i \in 1..N, Fits(f[i - 1], i - 1)
       PROVE  Fits(f[i], i) /\ f[i] = Pair(f[i - 1], k, sw, ms[i], M[i])
  <2>1. PICK g : g = f[i - 1]
    OBVIOUS
  <2>2. M[i] \in Lost(g, 1)
    <3>1. M[i] \in Lost(h, 1) /\ \A j \in 1..(i - 1) : M[i] # M[j]
      BY <1>3
    <3> QED
      BY <1>11, <2>1, <3>1
  <2>3. g \in S
    BY <1>11, <2>1
  <2>4. f[i] = Pair(g, k, sw, ms[i], M[i])
    BY <1>6, <1>9, <2>1, <2>2, <2>3
  <2>5. /\ f[i] \in S /\ Lost(g, 1) \ {M[i]} \subseteq Lost(f[i], 1)
        /\ Lost(f[i], 1) \subseteq Lost(g, 1)
    BY <1>7, <2>2, <2>3, <2>4
  <2>6. ASSUME NEW c \in Lost(h, 1)
        PROVE  c \in Lost(f[i], 1) \/ \E j \in 1..i : c = M[j]
    BY <1>11, <2>1, <2>5
  <2> QED
    BY <1>11, <2>1, <2>4, <2>5, <2>6
<1> HIDE DEF Fits
<1>12. \A i \in 0..N : Fits(f[i], i)
  <2>1. \A i \in 1..N : i - 1 \in T => i \in T
    BY <1>11
  <2>2. \A i \in 0..N : i \in T
    <3> HIDE DEF T
    <3> QED
      BY <1>10, <2>1, UpTo
  <2> QED
    BY <2>2
<1>13. \A i \in 1..N : f[i] = Pair(f[i - 1], k, sw, ms[i], str(i))
  BY <1>3, <1>11, <1>12
<1> HIDE DEF str
<1>14. f = [i \in 0..N |-> IF i = 0 THEN h ELSE Pair(f[i - 1], k, sw, ms[i], str(i))]
  BY <1>9, <1>13
<1>15. all = [i \in 0..N |-> IF i = 0 THEN h ELSE Pair(all[i - 1], k, sw, ms[i], str(i))]
  BY <1>14
<1>16. Pairs(h, k, sw, ms, strs) = all[N]
  BY <1>1 DEF Pairs, str
<1> HIDE DEF all
<1>17. all[N] = f[N]
  <2>1. all[0] = f[0] /\ \A i \in 1..N : all[i - 1] = f[i - 1] => all[i] = f[i]
    BY <1>9, <1>13, <1>15
  <2>2. Agree(all, f, N)
    BY <2>1, SameSolution
  <2> QED
    BY <2>2 DEF Agree
<1>18. Fits(f[N], N)
  BY <1>12
<1> QED
  BY <1>3, <1>4, <1>16, <1>17, <1>18 DEF Fits

LEMMA OnePair ==
  ASSUME NEW h, NEW k, NEW sw, NEW ms \in Seq(Members), Len(ms) = 1, NEW strs
  PROVE  Pairs(h, k, sw, ms, strs) = Pair(h, k, sw, ms[1], strs[ScoreAt(sw, 1) + 1])
<1> DEFINE pair(g, i) == Pair(g, k, sw, ms[i], strs[ScoreAt(sw, i) + 1])
           all == CHOOSE f : f = [i \in 0..1 |-> IF i = 0 THEN h ELSE pair(f[i - 1], i)]
<1>1. PICK f : f = [i \in 0..1 |-> IF i = 0 THEN h ELSE pair(h, 1)]
  OBVIOUS
<1>2. Pairs(h, k, sw, ms, strs) = all[1]
  BY DEF Pairs
<1> HIDE DEF pair
<1>3. f = [i \in 0..1 |-> IF i = 0 THEN h ELSE pair(f[i - 1], i)]
  <2>1. f[0] = h /\ \A i \in 0..1 : i # 0 => i = 1
    BY <1>1
  <2> QED
    BY <1>1, <2>1
<1>4. all = [i \in 0..1 |-> IF i = 0 THEN h ELSE pair(all[i - 1], i)]
  BY <1>3
<1> HIDE DEF all
<1>5. all[0] = h /\ all[1] = pair(all[0], 1)
  BY <1>4
<1> QED
  BY <1>2, <1>5 DEF pair

(* The arguments of a request, all that is lost in h.                      *)
AreArgs(h, strs, roles) ==
  /\ strs \in Seq(Cell) /\ Len(strs) = Len(roles)
  /\ \A i \in 1..Len(strs) : strs[i].of = roles[i]
  /\ \A i, j \in 1..Len(strs) : strs[i] = strs[j] => i = j
  /\ Lost(h, 1) = {strs[i] : i \in 1..Len(strs)}

(* A new object for a key that may have had another.                       *)
NewObject(h, k, key, type) ==
  LET cell == Fresh(<<type, k>>, h.live)
  IN  set(Alloc(h, {cell}), k, key, Val(cell, type))

HasNew(h, g, k, key, type) ==
  /\ Good(g, 1) /\ Lost(g, 1) = Lost(h, 1) \ {key}
  /\ k \in Stored(g) /\ g.table[k].val.type = type
  /\ MembersIn(g.table[k].val) = {} /\ g.table[k].key = key

LEMMA NewKeeps ==
  ASSUME NEW h, Good(h, 1), NEW k \in Keys, NEW key \in Lost(h, 1), key.of = <<"key", k>>,
         NEW type \in {"bitmap", "set"}
  PROVE  HasNew(h, NewObject(h, k, key, type), k, key, type)
<1>1. PICK cell : cell = Fresh(<<type, k>>, h.live)
  OBVIOUS
<1>2. h \in Heap /\ IsFiniteSet(h.live)
  BY HeapTyped DEF Good
<1>3. cell \in Cell /\ cell.of = <<type, k>> /\ cell \notin h.live
  <2>1. cell \in [of : {<<type, k>>}, n : Nat] /\ cell \notin h.live
    BY <1>1, <1>2, FreshIsNew
  <2>2. <<type, k>> \in Purpose
    BY DEF Purpose
  <2> QED
    BY <2>1, <2>2 DEF Cell
<1>4. PICK a : a = Alloc(h, {cell})
  OBVIOUS
<1>5. Good(a, 1) /\ Lost(a, 1) = Lost(h, 1) \cup {cell}
  <2>1. PICK cells : cells = {cell}
    OBVIOUS
  <2>2. cells \in SUBSET Cell /\ IsFiniteSet(cells) /\ cells \cap h.live = {}
    BY <1>3, <2>1, FS_Singleton
  <2>3. Good(Alloc(h, cells), 1) /\ Lost(Alloc(h, cells), 1) = Lost(h, 1) \cup cells
    BY ONLY Good(h, 1), <2>2, AllocKeeps
  <2> QED
    BY <1>4, <2>1, <2>3
<1>6. PICK g : g = set(a, k, key, Val(cell, type))
  OBVIOUS
<1>7. /\ Good(g, 1) /\ Lost(g, 1) = Lost(a, 1) \ {key, cell}
      /\ g.table = [a.table EXCEPT ![k] = [key |-> key, val |-> Val(cell, type)]]
  <2>1. key \in Lost(a, 1) /\ cell \in Lost(a, 1) /\ cell.of = <<PurposeOf(type), k>>
        /\ type \in {"string", "bitmap", "set"}
    BY <1>3, <1>5 DEF PurposeOf
  <2>2. MaySet(a, k, key, cell, type)
    BY <2>1 DEF MaySet
  <2> QED
    <3>1. HasSet(a, g, k, key, cell, type)
      BY ONLY <1>5, <1>6, <2>2, SetKeeps
    <3> QED
      BY <3>1 DEF HasSet
<1>8. Lost(g, 1) = Lost(h, 1) \ {key}
  BY <1>3, <1>5, <1>7 DEF Lost
<1>9. /\ k \in Stored(g) /\ g.table[k].val.type = type
      /\ MembersIn(g.table[k].val) = {} /\ g.table[k].key = key
  <2>1. a.table \in [Keys -> Node \cup {NULL}]
    BY <1>5, HeapTyped DEF Good
  <2>2. g.table[k] = [key |-> key, val |-> Val(cell, type)]
    BY <1>7, <2>1
  <2>3. g.table[k].val = Val(cell, type) /\ g.table[k].key = key
    BY <2>2
  <2>4. Val(cell, type) \in Value /\ MembersIn(Val(cell, type)) = {} /\ Val(cell, type).type = type
    <3>1. cell.of[1] = PurposeOf(type)
      BY <1>3 DEF PurposeOf
    <3> QED
      BY <1>3, <3>1, ValIs
  <2>5. g.table[k] \in Node
    <3>1. key \in Cell
      BY HeapTyped DEF Good, Lost
    <3> QED
      BY <2>2, <2>4, <3>1 DEF Node
  <2>6. g.table[k] # NULL
    BY <2>5, OwnershipAssumption
  <2> QED
    BY <2>3, <2>4, <2>6 DEF Stored
<1> QED
  BY <1>1, <1>4, <1>6, <1>7, <1>8, <1>9 DEF HasNew, NewObject

Illegal(sw, ms, fault) ==
  {"NX", "XX"} \subseteq sw \/ fault = "odd" \/ ("INCR" \in sw /\ Len(ms) # 1)

(* The set that is there when the pairs come.                              *)
SetFor(h, k, strs) ==
  IF h.table[k] = NULL THEN NewObject(h, k, strs[2], "set") ELSE h

Paired(h, k, sw, ms, fault, strs) ==
  IF Illegal(sw, ms, fault) \/ fault = "float" THEN h ELSE Pairs(h, k, sw, ms, strs)

Kept(h, k, sw, ms, fault) ==
  {"NX", "INCR"} \subseteq sw /\ ~Illegal(sw, ms, fault) /\ fault # "float" /\ Has(h, k, ms[1])

NotEmpty(h, k) == IF MembersIn(h.table[k].val) = {} THEN del(h, k) ELSE h

ZaddIs(z, h, k, sw, ms, fault, strs) ==
  LET g == SetFor(h, k, strs)
      scores == {ScoreAt(sw, i) : i \in DOMAIN ms}
  IN  /\ z.heap = NotEmpty(Paired(g, k, sw, ms, fault, strs), k)
      /\ z.dead = IF Illegal(sw, ms, fault) THEN DOMAIN strs
                  ELSE IF Kept(g, k, sw, ms, fault) THEN scores \cup {ScoreAt(sw, 1) + 1}
                  ELSE scores
      /\ z.error = (Illegal(sw, ms, fault) \/ fault = "float")
      /\ z.made = (h.table[k] = NULL)

ZaddIsNot(z, h, strs) ==
  z.heap = h /\ z.dead \in {{}, DOMAIN strs} /\ z.error = TRUE /\ z.made = FALSE

Finds(h, k, fault) == fault # "few" /\ (h.table[k] = NULL \/ IsA(h, k, "set"))

LEMMA ZaddedIs ==
  ASSUME NEW h, NEW k, NEW sw, NEW ms, NEW fault, NEW strs
  PROVE  IF Finds(h, k, fault)
         THEN ZaddIs(Zadded(h, k, sw, ms, fault, strs), h, k, sw, ms, fault, strs)
         ELSE ZaddIsNot(Zadded(h, k, sw, ms, fault, strs), h, strs)
<1>1. CASE Finds(h, k, fault)
  BY <1>1 DEF Zadded, SetFor, NewObject, Paired, Kept, NotEmpty, Illegal, Pairs, ZaddIs, Finds
<1>2. CASE ~Finds(h, k, fault)
  BY <1>2 DEF Zadded, ZaddIsNot, Finds
<1> QED
  BY <1>1, <1>2

(* What the command table and freeDeadArgs rely on.                        *)
ZaddOK(h, z, sw, ms, fault, strs) ==
  LET dead == {strs[i] : i \in z.dead}
  IN  /\ Good(z.heap, 1) /\ Lost(z.heap, 1) \subseteq Lost(h, 1)
      /\ z.made \in BOOLEAN /\ z.error \in BOOLEAN /\ z.dead \subseteq 1..Len(strs)
      /\ z.made /\ z.error => strs[2] \notin z.heap.live
      /\ ~z.made /\ z.error => Lost(z.heap, 1) = Lost(h, 1)
      /\ ~z.error \/ (z.made /\ ~Illegal(sw, ms, fault)) => dead \subseteq Lost(z.heap, 1)
      /\ ~z.error => \A c \in Lost(z.heap, 1) : c.of[1] = "score" => c \in dead

LEMMA ZaddedKeeps ==
  ASSUME NEW h, Good(h, 1), NEW k \in Keys, NEW sw \in SUBSET {"NX", "XX", "INCR"},
         NEW ms \in Seq(Members), NEW fault, NEW strs, AreArgs(h, strs, ZaddRoles(k, sw, ms))
  PROVE  ZaddOK(h, Zadded(h, k, sw, ms, fault, strs), sw, ms, fault, strs)
<1>1. PICK z : z = Zadded(h, k, sw, ms, fault, strs)
  OBVIOUS
<1>2. PICK N \in Nat : /\ N = Len(strs) /\ 2 \in 1..N /\ DOMAIN strs = 1..N
                       /\ Lost(h, 1) = {strs[i] : i \in 1..N}
                       /\ \A i, j \in 1..N : strs[i] = strs[j] => i = j
                       /\ strs[2] \in Lost(h, 1) /\ strs[2].of = <<"key", k>>
  <2>1. RolesFit(ZaddRoles(k, sw, ms), k, sw, ms)
    BY RolesOfZadd
  <2> QED
    BY SMTT(20), <2>1 DEF AreArgs, RolesFit
<1>3. /\ \A j \in 1..Len(ms) :
           /\ ScoreAt(sw, j) \in 1..N /\ ScoreAt(sw, j) + 1 \in 1..N
           /\ strs[ScoreAt(sw, j)].of = <<"score">>
           /\ strs[ScoreAt(sw, j) + 1].of = <<"member", k, ms[j]>>
      /\ \A i \in 1..N : strs[i].of[1] = "score" => \E j \in 1..Len(ms) : i = ScoreAt(sw, j)
  <2>1. RolesFit(ZaddRoles(k, sw, ms), k, sw, ms)
    BY RolesOfZadd
  <2> QED
    BY <1>2, <2>1 DEF AreArgs, RolesFit
<1>4. CASE ~Finds(h, k, fault)
  <2>1. z.heap = h /\ z.dead \in {{}, DOMAIN strs} /\ z.error = TRUE /\ z.made = FALSE
    <3>1. ZaddIsNot(z, h, strs)
      BY <1>1, <1>4, ZaddedIs
    <3> QED
      BY <3>1 DEF ZaddIsNot
  <2> QED
    BY <1>1, <1>2, <2>1 DEF ZaddOK
<1>5. CASE Finds(h, k, fault)
  <2>1. PICK g, p, x, scores :
          /\ g = SetFor(h, k, strs) /\ p = Paired(g, k, sw, ms, fault, strs)
          /\ x = NotEmpty(p, k) /\ scores = {ScoreAt(sw, i) : i \in 1..Len(ms)}
    OBVIOUS
  <2>2. /\ z.heap = x
        /\ z.dead = IF Illegal(sw, ms, fault) THEN 1..N
                    ELSE IF Kept(g, k, sw, ms, fault) THEN scores \cup {ScoreAt(sw, 1) + 1}
                    ELSE scores
        /\ z.error = (Illegal(sw, ms, fault) \/ fault = "float")
        /\ z.made = (h.table[k] = NULL)
    <3>1. DOMAIN ms = 1..Len(ms)
      OBVIOUS
    <3> QED
      <4>1. ZaddIs(z, h, k, sw, ms, fault, strs)
        BY <1>1, <1>5, ZaddedIs
      <4> QED
        BY <1>2, <2>1, <3>1, <4>1 DEF ZaddIs
  <2>3. /\ Good(g, 1) /\ IsSet(g, k) /\ Lost(g, 1) \subseteq Lost(h, 1)
        /\ Lost(h, 1) \ {strs[2]} \subseteq Lost(g, 1)
        /\ h.table[k] # NULL => Lost(g, 1) = Lost(h, 1)
        /\ h.table[k] = NULL => MembersIn(g.table[k].val) = {} /\ g.table[k].key = strs[2]
    <3>1. CASE h.table[k] = NULL
      <4>1. PICK key : key = strs[2]
        OBVIOUS
      <4>2. key \in Lost(h, 1) /\ key.of = <<"key", k>>
        BY <1>2, <4>1
      <4>3. /\ Good(g, 1) /\ Lost(g, 1) = Lost(h, 1) \ {key}
            /\ k \in Stored(g) /\ g.table[k].val.type = "set"
            /\ MembersIn(g.table[k].val) = {} /\ g.table[k].key = key
        <5>1. g = NewObject(h, k, key, "set")
          BY <2>1, <3>1, <4>1 DEF SetFor
        <5>2. HasNew(h, g, k, key, "set")
          BY <4>2, <5>1, NewKeeps
        <5> QED
          BY <5>2 DEF HasNew
      <4> QED
        BY <3>1, <4>1, <4>3 DEF IsSet
    <3>2. CASE h.table[k] # NULL
      <4>1. g = h
        BY <2>1, <3>2 DEF SetFor
      <4> QED
        BY <1>5, <3>2, <4>1 DEF IsA, IsSet, Stored, Finds
    <3> QED
      BY <3>1, <3>2
  <2>4. MembersReady(g, k, sw, ms, strs)
    <3>1. \A j \in 1..Len(ms) : ScoreAt(sw, j) + 1 \in 1..N /\ strs[ScoreAt(sw, j) + 1] # strs[2]
      BY <1>2, <1>3
    <3>2. ASSUME NEW i \in 1..Len(ms), NEW j \in 1..Len(ms),
                 strs[ScoreAt(sw, i) + 1] = strs[ScoreAt(sw, j) + 1]
          PROVE  i = j
      <4>1. ScoreAt(sw, i) + 1 = ScoreAt(sw, j) + 1
        BY <1>2, <1>3, <3>2
      <4>2. ScoreAt(sw, i) = 1 + Cardinality(sw) + 2 * i /\ ScoreAt(sw, j) = 1 + Cardinality(sw) + 2 * j
        BY DEF ScoreAt
      <4>3. Cardinality(sw) \in Nat
        BY SwitchCount
      <4> QED
        BY <4>1, <4>2, <4>3
    <3> QED
      BY <1>2, <1>3, <2>3, <3>1, <3>2 DEF MembersReady
  <2>5. /\ Good(p, 1) /\ IsSet(p, k) /\ Lost(p, 1) \subseteq Lost(g, 1)
        /\ \A c \in Lost(g, 1) : c.of[1] # "member" => c \in Lost(p, 1)
        /\ Illegal(sw, ms, fault) \/ fault = "float" => p = g
    <3>1. CASE Illegal(sw, ms, fault) \/ fault = "float"
      BY <2>1, <2>3, <3>1 DEF Paired
    <3>2. CASE ~(Illegal(sw, ms, fault) \/ fault = "float")
      <4>1. p = Pairs(g, k, sw, ms, strs)
        BY <2>1, <3>2 DEF Paired
      <4> QED
        BY <2>3, <2>4, <3>2, <4>1, PairsKeep
    <3> QED
      BY <3>1, <3>2
  <2>6. Good(x, 1) /\ Lost(x, 1) = Lost(p, 1)
    BY <2>1, <2>5, DelKeeps DEF NotEmpty
  <2>7. {strs[i] : i \in scores} \subseteq Lost(x, 1) /\ scores \subseteq 1..N
    <3>1. ASSUME NEW j \in 1..Len(ms)
          PROVE  ScoreAt(sw, j) \in 1..N /\ strs[ScoreAt(sw, j)] \in Lost(x, 1)
      <4>1. PICK c : c = strs[ScoreAt(sw, j)]
        OBVIOUS
      <4>2. c.of = <<"score">> /\ ScoreAt(sw, j) \in 1..N
        BY <1>3, <4>1
      <4>3. c \in Lost(h, 1) /\ c # strs[2]
        BY <1>2, <4>1, <4>2
      <4>4. c.of[1] # "member"
        BY <4>2
      <4> QED
        BY <2>3, <2>5, <2>6, <4>1, <4>2, <4>3, <4>4
    <3> QED
      BY <2>1, <3>1
  <2>8. ASSUME Kept(g, k, sw, ms, fault)
        PROVE  ScoreAt(sw, 1) + 1 \in 1..N /\ strs[ScoreAt(sw, 1) + 1] \in Lost(x, 1)
    <3>1. Len(ms) = 1 /\ "NX" \in sw /\ Has(g, k, ms[1])
          /\ ~Illegal(sw, ms, fault) /\ fault # "float"
      BY <2>8 DEF Kept, Illegal
    <3>2. p = g
      BY <2>1, <3>1, OnePair DEF Paired, Pair
    <3>3. 1 \in 1..Len(ms)
      BY <3>1
    <3> QED
      BY <1>3, <2>4, <2>6, <3>2, <3>3 DEF MembersReady
  <2>9. ASSUME z.made, z.error
        PROVE  strs[2] \notin x.live
    <3>1. p = g /\ MembersIn(g.table[k].val) = {} /\ g.table[k].key = strs[2]
      BY <2>2, <2>3, <2>5, <2>9
    <3>2. x = del(g, k)
      BY <2>1, <3>1 DEF NotEmpty
    <3>3. g \in Heap /\ g.table[k] # NULL /\ g.table[k].key \in g.live
      BY <2>3, HeapTyped DEF Good, IsSet, Stored, Sound, Owned, KeyCells
    <3>4. x.live = g.live \ {g.table[k].key}
      BY <3>2, <3>3, DelIs
    <3> QED
      BY <3>1, <3>4
  <2>10. z.dead \subseteq 1..N
    BY <2>2, <2>7, <2>8
  <2>11. ASSUME ~Illegal(sw, ms, fault)
         PROVE  {strs[i] : i \in z.dead} \subseteq Lost(x, 1)
    BY <2>2, <2>7, <2>8, <2>11
  <2>12. ASSUME ~z.error, NEW c \in Lost(x, 1), c.of[1] = "score"
         PROVE  c \in {strs[i] : i \in z.dead}
    <3>1. PICK i \in 1..N : c = strs[i]
      BY <1>2, <2>3, <2>5, <2>6
    <3>2. i \in scores
      BY <1>3, <2>1, <2>12, <3>1
    <3>3. scores \subseteq z.dead
      BY <2>2, <2>12
    <3> QED
      BY <3>1, <3>2, <3>3
  <2>13. ~z.made /\ z.error => Lost(x, 1) = Lost(h, 1)
    BY <2>2, <2>3, <2>5, <2>6
  <2>14. z.made \in BOOLEAN /\ z.error \in BOOLEAN
    BY <2>2
  <2>15. ~z.error => ~Illegal(sw, ms, fault)
    BY <2>2
  <2>16. Lost(x, 1) \subseteq Lost(h, 1)
    BY <2>3, <2>5, <2>6
  <2>17. ZaddOK(h, z, sw, ms, fault, strs)
    BY <1>2, <2>2, <2>6, <2>9, <2>10, <2>11, <2>12, <2>13, <2>14, <2>15, <2>16 DEF ZaddOK
  <2> QED
    BY <1>1, <2>17
<1> QED
  BY <1>4, <1>5

-----------------------------------------------------------------------------
(* The inductive invariant                                                 *)

First == IF at = 0 THEN 1 ELSE at

(* The strings a list of arguments or of a reply has, and those of them    *)
(* that the command table or freeDeadArgs frees, or the written reply.     *)
Freeing(c, as, err) ==
  {as[i].str : i \in IF free_args(c) \/ err THEN DOMAIN as ELSE {i \in DOMAIN as : as[i].dead}}
StrsOf(rep) == {a.str : a \in rep}
OwnOf(rep) == {a.str : a \in {b \in rep : b.dead}}

LeakableOf(c) ==
  {"entry"} \cup CASE c = "SET" -> {"cmd", "key", "val", "switch"}
                   [] c = "ZADD" -> {"cmd", "key", "member", "switch"}
                   [] OTHER -> {}
Leaks(c, cells) == \A cell \in cells : cell.of[1] \in LeakableOf(c)

(* A command has been executed: what its arguments and its reply have is   *)
(* lost to the table, so it is freed once, but for a refused ZADD.         *)
Answered(h, c, as, err, rep, ref) ==
  LET freed == Freeing(c, as, err)
  IN  /\ OwnOf(rep) \subseteq Lost(h, 1) \ freed
      /\ IF ref THEN ~(freed \subseteq h.live) ELSE freed \subseteq Lost(h, 1)
      /\ Leaks(c, Lost(h, 1) \ (freed \cup OwnOf(rep)))

(* Its reply points to what stays, but for ZRANGE where a tower was left.   *)
Pointed(h, c, as, err, rep, mis) ==
  (c = "ZRANGE" /\ mis # {}) \/ StrsOf(rep) \subseteq h.live \ Freeing(c, as, err)

(* A tower left behind may break the memory at any time.                   *)
Whole == heap.broken => missed # {}

AtIdle == pc = "idle" => Whole /\ ~refused /\ Lost(heap, 1) = {}
AtFree ==
  pc = "free" => /\ Whole /\ Answered(heap, cmd, args, error, reply, refused)
                 /\ Pointed(heap, cmd, args, error, reply, missed)
AtWrite ==
  pc = "write" =>
    /\ (cmd = "ZRANGE" /\ missed # {}) \/ StrsOf(reply) \subseteq heap.live
    /\ ~heap.broken => /\ ~refused /\ OwnOf(reply) \subseteq Lost(heap, 1)
                       /\ Leaks(cmd, Lost(heap, 1) \ OwnOf(reply))
AtDrain ==
  pc = "drain" /\ cmd # "EXIT" => Whole /\ ~refused /\ Leaks(cmd, Lost(heap, at))
AtDone == pc = "done" => Whole /\ ~refused /\ Leaks(cmd, Lost(heap, 1))

ByPc ==
  /\ cmd = "EXIT" => pc \in {"drain", "gone"}
  /\ pc \notin {"free", "write"} => reply = {}
  /\ AtIdle /\ AtFree /\ AtWrite /\ AtDrain /\ AtDone

IInv ==
  /\ TypeOK
  /\ ~heap.broken => Sound(heap, First)
  /\ heap.broken => refused \/ signalled \/ missed # {}
  /\ ByPc

-----------------------------------------------------------------------------
(* Requests                                                                *)

LEMMA AtRest ==
  ASSUME IInv, ~heap.broken, pc = "idle"
  PROVE  /\ Good(heap, 1) /\ Lost(heap, 1) = {} /\ ~refused
         /\ args = <<>> /\ reply = {} /\ error \in BOOLEAN /\ signalled \in BOOLEAN
         /\ at = 0 /\ cmd = "none" /\ missed \in SUBSET Keys
<1>1. at = 0 /\ First = 1
  BY DEF IInv, TypeOK, First
<1> QED
  BY <1>1 DEF IInv, TypeOK, ByPc, AtIdle, Good

LEMMA ParsedKeeps ==
  ASSUME IInv, ~heap.broken, pc = "idle", NEW roles \in Seq(Purpose)
  PROVE  Good(Parsed(Strings(roles)), 1) /\ AreArgs(Parsed(Strings(roles)), Strings(roles), roles)
<1>1. PICK strs, cells : strs = Strings(roles) /\ cells = ToSet(strs)
  OBVIOUS
<1>2. Good(heap, 1) /\ Lost(heap, 1) = {} /\ IsFiniteSet(heap.live)
  BY AtRest, HeapTyped DEF Good
<1>3. AreStrings(strs, roles)
  BY <1>1, <1>2, StringsAre
<1>4. strs \in Seq(Cell) /\ cells = {strs[i] : i \in 1..Len(strs)}
  BY <1>1, <1>3 DEF AreStrings, ToSet
<1>5. cells \in SUBSET Cell /\ IsFiniteSet(cells) /\ cells \cap heap.live = {}
  <2>a. strs \in Seq(Cell)
    BY <1>4
  <2>b. IsFiniteSet(ToSet(strs)) /\ ToSet(strs) \subseteq Cell
    BY ONLY <2>a, FiniteToSet
  <2>1. IsFiniteSet(cells) /\ cells \subseteq Cell
    BY <1>1, <2>b
  <2>2. cells \cap heap.live = {}
    BY <1>3, <1>4 DEF AreStrings
  <2> QED
    BY <2>1, <2>2
<1>6. Good(Alloc(heap, cells), 1) /\ Lost(Alloc(heap, cells), 1) = Lost(heap, 1) \cup cells
  BY ONLY <1>2, <1>5, AllocKeeps
<1>7. Parsed(strs) = Alloc(heap, cells)
  BY <1>1 DEF Parsed
<1>8. Good(Parsed(strs), 1) /\ Lost(Parsed(strs), 1) = {strs[i] : i \in 1..Len(strs)}
  BY <1>2, <1>4, <1>6, <1>7
<1>9. AreArgs(Parsed(strs), strs, roles)
  BY <1>3, <1>8 DEF AreStrings, AreArgs
<1> QED
  BY <1>1, <1>8, <1>9

(* The list of arguments that Executed makes.                              *)
ArgList(strs, dead) == [i \in DOMAIN strs |-> [str |-> strs[i], dead |-> i \in dead]]

Outcome(c, h, strs, dead, err, rep, ref) ==
  /\ c \notin {"none", "EXIT"} /\ Good(h, 1) /\ strs \in Seq(Cell)
  /\ rep \subseteq [str : Cell, dead : BOOLEAN] /\ err \in BOOLEAN /\ ref \in BOOLEAN
  /\ Answered(h, c, ArgList(strs, dead), err, rep, ref)
  /\ Pointed(h, c, ArgList(strs, dead), err, rep, missed')

(* A reply without strings points to nothing that is freed.                *)
LEMMA NothingPointed ==
  ASSUME NEW h, NEW c, NEW as, NEW err, NEW mis
  PROVE  Pointed(h, c, as, err, {}, mis) /\ StrsOf({}) = {} /\ OwnOf({}) = {}
<1>1. StrsOf({}) = {} /\ OwnOf({}) = {}
  BY DEF StrsOf, OwnOf
<1> QED
  BY <1>1 DEF Pointed

LEMMA ExecutedKeeps ==
  ASSUME IInv, ~heap.broken, NEW c, NEW h, NEW strs, NEW dead, NEW err, NEW rep,
         Executed(c, h, strs, dead, err, rep), Outcome(c, h, strs, dead, err, rep, refused'),
         missed' \in SUBSET Keys
  PROVE  IInv'
<1>1. /\ pc = "idle" /\ pc' = "free" /\ cmd' = c /\ heap' = h /\ error' = err /\ reply' = rep
      /\ args' = ArgList(strs, dead) /\ at' = at /\ signalled' = signalled
  BY DEF Executed, ArgList
<1>2. at = 0 /\ signalled \in BOOLEAN
  BY <1>1, AtRest
<1>3. Good(h, 1) /\ HeapOK(h) /\ ~h.broken /\ Sound(h, 1)
  BY DEF Outcome, Good
<1>4. args' \in Seq([str : Cell, dead : BOOLEAN])
  <2>1. strs \in Seq(Cell) /\ DOMAIN strs = 1..Len(strs) /\ Len(strs) \in Nat
    BY DEF Outcome
  <2>2. PICK T, n : T = [str : Cell, dead : BOOLEAN] /\ n = Len(strs)
    OBVIOUS
  <2> DEFINE arg(i) == [str |-> strs[i], dead |-> i \in dead]
  <2>3. \A i \in 1..n : arg(i) \in T
    BY <2>1, <2>2
  <2>4. ArgList(strs, dead) = [i \in 1..n |-> arg(i)]
    BY <2>1, <2>2 DEF ArgList
  <2> HIDE DEF arg
  <2>5. n \in Nat
    BY <2>1, <2>2
  <2>6. [i \in 1..n |-> arg(i)] \in Seq(T)
    BY ONLY <2>3, <2>5
  <2> QED
    BY <1>1, <2>2, <2>4, <2>6
<1>5. HeapOK(heap')
  BY <1>1, <1>3
<1>6. TypeOK'
  <2>1. HeapOK(heap)'
    BY <1>5 DEF HeapOK, FitsPurpose, MembersIn
  <2> QED
    BY <1>1, <1>2, <1>4, <2>1 DEF TypeOK, Outcome
<1>7. (~heap.broken => Sound(heap, First))'
  BY <1>1, <1>2, <1>3 DEF First
<1>8. ~heap'.broken
  BY <1>1, <1>3
<1>9. ByPc'
  BY <1>1, <1>8 DEF ByPc, AtIdle, AtFree, AtWrite, AtDrain, AtDone, Whole, Outcome
<1> QED
  BY <1>6, <1>7, <1>8, <1>9 DEF IInv

ArgsOf(strs) == {strs[i] : i \in 1..Len(strs)}

FreedOf(c, strs, dead, err) ==
  IF free_args(c) \/ err THEN ArgsOf(strs) ELSE {strs[i] : i \in (1..Len(strs)) \cap dead}

LEMMA FreeingIs ==
  ASSUME NEW c, NEW strs \in Seq(Cell), NEW dead, NEW err
  PROVE  Freeing(c, ArgList(strs, dead), err) = FreedOf(c, strs, dead, err)
<1> USE DEF FreedOf
<1>1. PICK n : n = Len(strs) /\ DOMAIN strs = 1..n
  OBVIOUS
<1>2. PICK as : as = ArgList(strs, dead)
  OBVIOUS
<1>3. DOMAIN as = 1..n /\ \A i \in 1..n : as[i].str = strs[i] /\ as[i].dead = (i \in dead)
  BY <1>1, <1>2 DEF ArgList
<1>4. {i \in DOMAIN as : as[i].dead} = (1..n) \cap dead
  BY <1>3
<1>5. CASE free_args(c) \/ err
  BY <1>1, <1>2, <1>3, <1>5 DEF Freeing, ArgsOf
<1>6. CASE ~(free_args(c) \/ err)
  BY <1>1, <1>2, <1>3, <1>4, <1>6 DEF Freeing
<1> QED
  BY <1>5, <1>6

(* All arguments are freed, and all that is lost is theirs or the reply's. *)
FreesAll(c, h, strs, err, rep) ==
  /\ c \notin {"none", "EXIT"} /\ Good(h, 1) /\ strs \in Seq(Cell) /\ err \in BOOLEAN
  /\ free_args(c) \/ err
  /\ rep \subseteq [str : Cell, dead : BOOLEAN]
  /\ (c = "ZRANGE" /\ missed' # {}) \/ StrsOf(rep) \subseteq h.live \ ArgsOf(strs)
  /\ OwnOf(rep) \cap ArgsOf(strs) = {}
  /\ Lost(h, 1) = ArgsOf(strs) \cup OwnOf(rep)

LEMMA AllFreed ==
  ASSUME NEW c, NEW h, NEW strs, NEW dead, NEW err, NEW rep, FreesAll(c, h, strs, err, rep)
  PROVE  Outcome(c, h, strs, dead, err, rep, FALSE)
<1> USE DEF FreesAll
<1>1. PICK freed : freed = Freeing(c, ArgList(strs, dead), err)
  OBVIOUS
<1>2. freed = ArgsOf(strs)
  BY <1>1, FreeingIs DEF FreedOf
<1>3. Answered(h, c, ArgList(strs, dead), err, rep, FALSE)
  BY <1>1, <1>2 DEF Answered, Leaks
<1>4. Pointed(h, c, ArgList(strs, dead), err, rep, missed')
  BY <1>1, <1>2 DEF Pointed
<1> QED
  BY <1>3, <1>4 DEF Outcome

(* The same without a reply, for an h that has lost no less.               *)
FreesAllOnly(c, h, strs, err) ==
  /\ c \notin {"none", "EXIT"} /\ Good(h, 1) /\ strs \in Seq(Cell) /\ err \in BOOLEAN
  /\ free_args(c) \/ err
  /\ Lost(h, 1) = ArgsOf(strs)

LEMMA AllFreedOnly ==
  ASSUME NEW c, NEW h, NEW strs, NEW dead, NEW err, FreesAllOnly(c, h, strs, err)
  PROVE  Outcome(c, h, strs, dead, err, {}, FALSE)
<1>1. StrsOf({}) = {} /\ OwnOf({}) = {}
  BY DEF StrsOf, OwnOf
<1>2. FreesAll(c, h, strs, err, {})
  BY <1>1 DEF FreesAll, FreesAllOnly
<1> QED
  BY <1>2, AllFreed

LEMMA PingKeeps ==
  ASSUME IInv, ~heap.broken, pingCommand
  PROVE  IInv'
<1>1. PICK strs, roles : strs = Strings(roles) /\ roles = <<<<"cmd">>>>
  OBVIOUS
<1>2. PICK unknown \in BOOLEAN : Executed("PING", Parsed(strs), strs, {}, unknown, {})
  BY <1>1 DEF pingCommand
<1>3. pc = "idle" /\ refused' = FALSE /\ missed' \in SUBSET Keys
  BY <1>2, AtRest DEF Executed, pingCommand
<1>4. roles \in Seq(Purpose)
  BY <1>1 DEF Purpose
<1>5. Good(Parsed(strs), 1) /\ AreArgs(Parsed(strs), strs, roles)
  BY <1>1, <1>3, <1>4, ParsedKeeps
<1>6. Outcome("PING", Parsed(strs), strs, {}, unknown, {}, FALSE)
  <2>1. FreesAllOnly("PING", Parsed(strs), strs, unknown)
    BY <1>5 DEF FreesAllOnly, AreArgs, ArgsOf, free_args
  <2> QED
    BY <2>1, AllFreedOnly
<1> QED
  BY <1>2, <1>3, <1>6, ExecutedKeeps

LEMMA GetKeeps ==
  ASSUME IInv, ~heap.broken, NEW k \in Keys, getCommand(k)
  PROVE  IInv'
<1>1. PICK strs, roles : strs = Strings(roles) /\ roles = <<<<"cmd">>, <<"key", k>>>>
  OBVIOUS
<1>2. pc = "idle" /\ refused' = FALSE /\ missed' \in SUBSET Keys
  BY AtRest DEF Executed, getCommand
<1>3. roles \in Seq(Purpose)
  BY <1>1 DEF Purpose
<1>4. Good(Parsed(strs), 1) /\ AreArgs(Parsed(strs), strs, roles)
  BY <1>1, <1>2, <1>3, ParsedKeeps
<1>5. strs \in Seq(Cell) /\ Lost(Parsed(strs), 1) = ArgsOf(strs)
  BY <1>4 DEF AreArgs, ArgsOf
<1>6. CASE Executed("GET", Parsed(strs), strs, {}, TRUE, {})
  <2>1. Outcome("GET", Parsed(strs), strs, {}, TRUE, {}, FALSE)
    BY <1>4, <1>5, AllFreedOnly DEF FreesAllOnly
  <2> QED
    BY <1>2, <1>6, <2>1, ExecutedKeeps
<1>7. ASSUME NEW expired \in BOOLEAN, NEW h, h = Found(Parsed(strs), k, expired), NEW rep,
             rep = IF IsA(h, k, "string") THEN {Borrowed(h.table[k].val.cell)} ELSE {},
             Executed("GET", h, strs, {}, h.table[k] # NULL /\ ~IsA(h, k, "string"), rep)
      PROVE  IInv'
  <2>1. Good(h, 1) /\ Lost(h, 1) = ArgsOf(strs)
    BY <1>4, <1>5, <1>7, FoundKeeps
  <2>2. /\ rep \subseteq [str : Cell, dead : BOOLEAN] /\ OwnOf(rep) = {}
        /\ StrsOf(rep) \subseteq h.live \ ArgsOf(strs)
    <3>1. CASE IsA(h, k, "string")
      <4>1. k \in Stored(h) /\ HeapOK(h)
        BY <2>1, <3>1 DEF IsA, Stored, Good
      <4>2. PICK cell : cell = h.table[k].val.cell
        OBVIOUS
      <4>3. cell \in CellsOf(h.table[k].val)
        BY <4>2 DEF CellsOf
      <4>4. cell \in Cell
        BY <4>1, <4>3, InTable
      <4>5. cell \in Owned(h, 1)
        BY <4>1, <4>3 DEF Owned, TableCells
      <4>6. cell \in h.live \ ArgsOf(strs)
        BY <2>1, <4>5 DEF Good, Sound, Lost
      <4>7. rep = {[str |-> cell, dead |-> FALSE]}
        BY <1>7, <3>1, <4>2 DEF Borrowed
      <4> QED
        BY <4>4, <4>6, <4>7 DEF StrsOf, OwnOf
    <3>2. CASE ~IsA(h, k, "string")
      <4>1. rep = {}
        BY <1>7, <3>2
      <4> QED
        BY <4>1 DEF StrsOf, OwnOf
    <3> QED
      BY <3>1, <3>2
  <2>3. PICK err \in BOOLEAN : err = (h.table[k] # NULL /\ ~IsA(h, k, "string"))
    OBVIOUS
  <2>4. Outcome("GET", h, strs, {}, err, rep, FALSE)
    <3>1. FreesAll("GET", h, strs, err, rep)
      BY <1>5, <2>1, <2>2 DEF FreesAll, free_args
    <3> QED
      BY <3>1, AllFreed
  <2> QED
    BY <1>2, <1>7, <2>3, <2>4, ExecutedKeeps
<1> QED
  BY <1>1, <1>6, <1>7 DEF getCommand

(* What two heaps have lost alike is arguments alike.                      *)
LEMMA StillArgs ==
  ASSUME NEW g, NEW h, NEW strs, NEW roles, AreArgs(g, strs, roles), Lost(h, 1) = Lost(g, 1)
  PROVE  AreArgs(h, strs, roles)
BY DEF AreArgs

LEMMA SetCommandKeeps ==
  ASSUME IInv, ~heap.broken, NEW k \in Keys, NEW sw \in SUBSET {"NX", "XX"}, setCommand(k, sw)
  PROVE  IInv'
<1>1. PICK strs, roles :
        /\ strs = Strings(roles)
        /\ roles = <<<<"cmd">>, <<"key", k>>, <<"val", k>>>> \o (IF sw = {} THEN <<>> ELSE <<<<"switch">>>>)
  OBVIOUS
<1>2. pc = "idle" /\ refused' = FALSE /\ missed' \in SUBSET Keys
  BY AtRest DEF Executed, setCommand
<1>3. /\ roles \in Seq(Purpose) /\ Len(roles) \in {3, 4}
      /\ roles[1] = <<"cmd">> /\ roles[2] = <<"key", k>> /\ roles[3] = <<"val", k>>
      /\ Len(roles) = 4 => roles[4] = <<"switch">>
  <2>1. CASE sw = {}
    <3>1. roles = <<<<"cmd">>, <<"key", k>>, <<"val", k>>>>
      BY <1>1, <2>1
    <3> QED
      BY <3>1 DEF Purpose
  <2>2. CASE sw # {}
    <3>1. PICK a, b : a = <<<<"cmd">>, <<"key", k>>, <<"val", k>>>> /\ b = <<<<"switch">>>>
      OBVIOUS
    <3>2. a \in Seq(Purpose) /\ b \in Seq(Purpose)
      BY <3>1 DEF Purpose
    <3>3. Len(a) = 3 /\ Len(b) = 1 /\ b[1] = <<"switch">>
          /\ a[1] = <<"cmd">> /\ a[2] = <<"key", k>> /\ a[3] = <<"val", k>>
      BY <3>1
    <3>4. roles = a \o b
      BY <1>1, <2>2, <3>1
    <3>5. /\ a \o b \in Seq(Purpose) /\ Len(a \o b) = Len(a) + Len(b)
          /\ \A i \in 1..(Len(a) + Len(b)) :
               (a \o b)[i] = IF i <= Len(a) THEN a[i] ELSE b[i - Len(a)]
      BY <3>2, ConcatProperties
    <3>6. /\ Len(a \o b) = 4 /\ (a \o b)[1] = a[1] /\ (a \o b)[2] = a[2]
          /\ (a \o b)[3] = a[3] /\ (a \o b)[4] = b[1]
      BY <3>3, <3>5
    <3> QED
      BY <3>3, <3>4, <3>5, <3>6
  <2> QED
    BY <2>1, <2>2
<1>4. PICK h : h = Parsed(strs)
  OBVIOUS
<1>5. Good(h, 1) /\ AreArgs(h, strs, roles)
  BY <1>1, <1>2, <1>3, <1>4, ParsedKeeps
<1>6. strs \in Seq(Cell) /\ Lost(h, 1) = ArgsOf(strs)
  BY <1>5 DEF AreArgs, ArgsOf
<1>7. CASE Executed("SET", h, strs, {}, TRUE, {})
  <2>1. Outcome("SET", h, strs, {}, TRUE, {}, FALSE)
    BY <1>5, <1>6, AllFreedOnly DEF FreesAllOnly
  <2> QED
    BY <1>2, <1>7, <2>1, ExecutedKeeps
<1>8. ASSUME NEW stored \in BOOLEAN, NEW g,
             g = IF stored THEN set(h, k, strs[2], Val(strs[3], "string")) ELSE h,
             Executed("SET", g, strs, {}, FALSE, {})
      PROVE  IInv'
  <2>1. Good(g, 1) /\ Lost(g, 1) \subseteq Lost(h, 1)
    <3>1. PICK key, str : key = strs[2] /\ str = strs[3]
      OBVIOUS
    <3>2. MaySet(h, k, key, str, "string")
      BY <1>3, <1>5, <3>1 DEF AreArgs, MaySet, PurposeOf
    <3>3. CASE stored
      <4>1. HasSet(h, g, k, key, str, "string")
        BY <1>5, <1>8, <3>1, <3>2, <3>3, SetKeeps
      <4> QED
        BY <4>1 DEF HasSet
    <3>4. CASE ~stored
      BY <1>5, <1>8, <3>4
    <3> QED
      BY <3>3, <3>4
  <2>2. Freeing("SET", ArgList(strs, {}), FALSE) = {}
    <3>1. Freeing("SET", ArgList(strs, {}), FALSE) = FreedOf("SET", strs, {}, FALSE)
      BY <1>6, FreeingIs
    <3> QED
      BY <3>1 DEF FreedOf, free_args
  <2>3. \A c \in Lost(h, 1) : c.of[1] \in {"cmd", "key", "val", "switch"}
    <3>1. ASSUME NEW i \in 1..Len(strs)
          PROVE  strs[i].of[1] \in {"cmd", "key", "val", "switch"}
      <4>1. Len(strs) = Len(roles) /\ strs[i].of = roles[i]
        BY <1>5 DEF AreArgs
      <4>2. Len(roles) \in {3, 4} /\ i \in 1..Len(roles)
        BY <1>3, <4>1
      <4>3. i \in {1, 2, 3, 4} /\ (i = 4 => Len(roles) = 4)
        <5>1. PICK n : n = Len(roles)
          OBVIOUS
        <5>2. n = 3 \/ n = 4
          BY <4>2, <5>1
        <5>3. CASE n = 3
          BY <4>2, <5>1, <5>3
        <5>4. CASE n = 4
          BY <4>2, <5>1, <5>4
        <5> QED
          BY ONLY <5>1, <5>2, <5>3, <5>4
      <4> QED
        BY <1>3, <4>1, <4>3
    <3> QED
      BY <1>6, <3>1 DEF ArgsOf
  <2>4. StrsOf({}) = {} /\ OwnOf({}) = {}
    BY DEF StrsOf, OwnOf
  <2>5. Answered(g, "SET", ArgList(strs, {}), FALSE, {}, FALSE)
    BY <2>1, <2>2, <2>3, <2>4 DEF Answered, Leaks, LeakableOf
  <2>6. Outcome("SET", g, strs, {}, FALSE, {}, FALSE)
    BY <1>6, <2>1, <2>5, NothingPointed DEF Outcome
  <2> QED
    BY <1>2, <1>8, <2>6, ExecutedKeeps
<1>9. \/ Executed("SET", h, strs, {}, TRUE, {})
      \/ \E stored \in BOOLEAN :
           Executed("SET", IF stored THEN set(h, k, strs[2], Val(strs[3], "string")) ELSE h,
                    strs, {}, FALSE, {})
  BY <1>1, <1>4 DEF setCommand
<1> QED
  BY <1>7, <1>8, <1>9

LEMMA ExecutedAtIdle ==
  \A c, h, strs, dead, err, rep : Executed(c, h, strs, dead, err, rep) => pc = "idle"
BY DEF Executed

LEMMA SetbitKeeps ==
  ASSUME IInv, ~heap.broken, NEW k \in Keys, setbitCommand(k)
  PROVE  IInv'
<1>1. PICK strs, roles :
        strs = Strings(roles) /\ roles = <<<<"cmd">>, <<"key", k>>, <<"offset">>, <<"bit">>>>
  OBVIOUS
<1>2. pc = "idle" /\ refused' = FALSE /\ missed' = missed /\ missed' \in SUBSET Keys
  <2>1. pc = "idle" /\ refused' = refused /\ missed' = missed
    BY ExecutedAtIdle DEF setbitCommand
  <2> QED
    BY <2>1, AtRest
<1>3. roles \in Seq(Purpose) /\ Len(roles) = 4 /\ roles[2] = <<"key", k>>
  BY <1>1 DEF Purpose
<1>4. PICK p : p = Parsed(strs)
  OBVIOUS
<1>5. Good(p, 1) /\ AreArgs(p, strs, roles)
  BY <1>1, <1>2, <1>3, <1>4, ParsedKeeps
<1>6. strs \in Seq(Cell) /\ Lost(p, 1) = ArgsOf(strs) /\ Len(strs) = 4 /\ DOMAIN strs = 1..4
  BY <1>3, <1>5 DEF AreArgs, ArgsOf
<1>7. CASE Executed("SETBIT", p, strs, DOMAIN strs, TRUE, {})
  <2>1. Outcome("SETBIT", p, strs, DOMAIN strs, TRUE, {}, FALSE)
    BY <1>5, <1>6, AllFreedOnly DEF FreesAllOnly
  <2> QED
    BY <1>2, <1>7, <2>1, ExecutedKeeps
<1>8. CASE \E expired, there, err \in BOOLEAN : \E h, g, dead :
           /\ h = Found(p, k, expired) /\ there = (h.table[k] # NULL)
           /\ g = IF there THEN h ELSE NewObject(h, k, strs[2], "bitmap")
           /\ dead = setbitDead(strs, there) /\ err = (there /\ ~IsA(h, k, "bitmap"))
           /\ Executed("SETBIT", g, strs, dead, err, {})
  <2>a. PICK expired \in BOOLEAN, there \in BOOLEAN, err \in BOOLEAN : \E h, g, dead :
           /\ h = Found(p, k, expired) /\ there = (h.table[k] # NULL)
           /\ g = IF there THEN h ELSE NewObject(h, k, strs[2], "bitmap")
           /\ dead = setbitDead(strs, there) /\ err = (there /\ ~IsA(h, k, "bitmap"))
           /\ Executed("SETBIT", g, strs, dead, err, {})
    BY <1>8
  <2>0. PICK h, g, dead :
           /\ h = Found(p, k, expired) /\ there = (h.table[k] # NULL)
           /\ g = IF there THEN h ELSE NewObject(h, k, strs[2], "bitmap")
           /\ dead = setbitDead(strs, there) /\ err = (there /\ ~IsA(h, k, "bitmap"))
           /\ Executed("SETBIT", g, strs, dead, err, {})
    BY <2>a
  <2>1. Good(h, 1) /\ Lost(h, 1) = ArgsOf(strs)
    BY <1>5, <1>6, <2>0, FoundKeeps
  <2>2. CASE there
    <3>1. g = h /\ dead = 1..4
      BY <1>6, <2>0, <2>2 DEF setbitDead
    <3>2. Freeing("SETBIT", ArgList(strs, dead), err) = FreedOf("SETBIT", strs, dead, err)
      BY <1>6, FreeingIs
    <3>3. FreedOf("SETBIT", strs, dead, err) = ArgsOf(strs)
      <4>1. (1..Len(strs)) \cap dead = 1..Len(strs)
        BY <1>6, <3>1
      <4> QED
        BY <4>1 DEF FreedOf, ArgsOf
    <3>4. StrsOf({}) = {} /\ OwnOf({}) = {}
      BY DEF StrsOf, OwnOf
    <3>5. Answered(g, "SETBIT", ArgList(strs, dead), err, {}, FALSE)
      BY <2>1, <3>1, <3>2, <3>3, <3>4 DEF Answered, Leaks
    <3>6. Outcome("SETBIT", g, strs, dead, err, {}, FALSE)
      BY <1>6, <2>1, <3>1, <3>5, NothingPointed DEF Outcome
    <3> QED
      BY <1>2, <2>0, <3>6, ExecutedKeeps
  <2>3. CASE ~there
    <3>1. dead = {1, 3, 4} /\ err = FALSE /\ g = NewObject(h, k, strs[2], "bitmap")
      BY <2>0, <2>3 DEF setbitDead
    <3>2. PICK key : key = strs[2]
      OBVIOUS
    <3>3. key \in Lost(h, 1) /\ key.of = <<"key", k>>
      BY <1>3, <1>5, <1>6, <2>1, <3>2 DEF ArgsOf, AreArgs
    <3>4. Good(g, 1) /\ Lost(g, 1) = Lost(h, 1) \ {key}
      <4>1. HasNew(h, g, k, key, "bitmap")
        BY <2>1, <3>1, <3>2, <3>3, NewKeeps
      <4> QED
        BY <4>1 DEF HasNew
    <3>5. PICK freed : freed = Freeing("SETBIT", ArgList(strs, dead), err)
      OBVIOUS
    <3>6. freed = {strs[1], strs[3], strs[4]}
      <4>1. freed = FreedOf("SETBIT", strs, dead, err)
        BY <1>6, <3>5, FreeingIs
      <4>2. (1..Len(strs)) \cap dead = {1, 3, 4}
        BY <1>6, <3>1
      <4> QED
        BY <3>1, <4>1, <4>2 DEF FreedOf, free_args
    <3>7. Lost(g, 1) = freed
      <4>1. ArgsOf(strs) = {strs[1], strs[2], strs[3], strs[4]}
        <5>1. 1..Len(strs) = {1, 2, 3, 4}
          BY <1>6
        <5> QED
          BY <5>1 DEF ArgsOf
      <4>2. strs[2] # strs[1] /\ strs[2] # strs[3] /\ strs[2] # strs[4]
        BY <1>5, <1>6 DEF AreArgs
      <4> QED
        BY <2>1, <3>2, <3>4, <3>6, <4>1, <4>2
    <3>8. StrsOf({}) = {} /\ OwnOf({}) = {}
      BY DEF StrsOf, OwnOf
    <3>9. Answered(g, "SETBIT", ArgList(strs, dead), err, {}, FALSE)
      BY <3>5, <3>7, <3>8 DEF Answered, Leaks
    <3>10. Outcome("SETBIT", g, strs, dead, err, {}, FALSE)
      BY <1>6, <3>4, <3>9, NothingPointed DEF Outcome
    <3> QED
      BY <1>2, <2>0, <3>10, ExecutedKeeps
  <2> QED
    BY <2>2, <2>3
<1> QED
  BY <1>1, <1>4, <1>7, <1>8 DEF setbitCommand, NewObject

LEMMA DelKeysKeep ==
  ASSUME IInv, ~heap.broken, NEW roles \in Seq(Purpose), NEW ks \in Seq(Keys), NEW c \in {"DEL", "FLUSHALL"},
         Executed(c, Deleted(Parsed(Strings(roles)), ks), Strings(roles), {}, FALSE, {}),
         refused' = refused, missed' = missed
  PROVE  IInv'
<1>1. PICK strs, p, h : strs = Strings(roles) /\ p = Parsed(strs) /\ h = Deleted(p, ks)
  OBVIOUS
<1>2. pc = "idle" /\ refused' = FALSE /\ missed' \in SUBSET Keys
  BY AtRest DEF Executed
<1>3. Good(p, 1) /\ AreArgs(p, strs, roles)
  BY <1>1, <1>2, ParsedKeeps
<1>4. strs \in Seq(Cell) /\ Lost(p, 1) = ArgsOf(strs)
  BY <1>3 DEF AreArgs, ArgsOf
<1>5. Good(h, 1) /\ Lost(h, 1) = ArgsOf(strs)
  BY <1>1, <1>3, <1>4, DeletedKeeps
<1>6. Outcome(c, h, strs, {}, FALSE, {}, FALSE)
  <2>1. FreesAllOnly(c, h, strs, FALSE)
    BY <1>4, <1>5 DEF FreesAllOnly, free_args
  <2> QED
    BY <2>1, AllFreedOnly
<1> QED
  BY <1>1, <1>2, <1>6, ExecutedKeeps

LEMMA DelCommandKeeps ==
  ASSUME IInv, ~heap.broken, NEW ks \in DelLists, delCommand(ks)
  PROVE  IInv'
<1>1. ks \in Seq(Keys)
  BY OwnershipAssumption
<1>2. PICK a, b : a = <<<<"cmd">>>> /\ b = [i \in DOMAIN ks |-> <<"key", ks[i]>>]
  OBVIOUS
<1>3. a \in Seq(Purpose)
  BY <1>2 DEF Purpose
<1>4. b \in Seq(Purpose)
  <2>1. PICK n \in Nat : n = Len(ks) /\ DOMAIN ks = 1..n /\ \A i \in 1..n : ks[i] \in Keys
    BY <1>1
  <2>2. \A i \in 1..n : <<"key", ks[i]>> \in Purpose
    BY <2>1 DEF Purpose
  <2> QED
    BY <1>2, <2>1, <2>2
<1>5. a \o b \in Seq(Purpose)
  BY <1>3, <1>4, ConcatProperties
<1>6. /\ Executed("DEL", Deleted(Parsed(Strings(a \o b)), ks), Strings(a \o b), {}, FALSE, {})
      /\ refused' = refused /\ missed' = missed
  BY <1>2 DEF delCommand
<1> QED
  BY <1>1, <1>5, <1>6, DelKeysKeep

LEMMA FlushKeeps ==
  ASSUME IInv, ~heap.broken, flushCommand
  PROVE  IInv'
<1>1. PICK roles : roles = <<<<"cmd">>>>
  OBVIOUS
<1>2. roles \in Seq(Purpose)
  BY <1>1 DEF Purpose
<1>3. PICK ks \in FlushOrders :
        Executed("FLUSHALL", Deleted(Parsed(Strings(roles)), ks), Strings(roles), {}, FALSE, {})
  BY <1>1 DEF flushCommand
<1>4. refused' = refused /\ missed' = missed /\ ks \in Seq(Keys)
  BY OwnershipAssumption DEF flushCommand
<1> QED
  BY <1>2, <1>3, <1>4, DelKeysKeep

LEMMA ZaddCommandKeeps ==
  ASSUME IInv, ~heap.broken, NEW k \in Keys, NEW sw \in SUBSET {"NX", "XX", "INCR"}, NEW ms \in MemberLists,
         NEW fault, zaddCommand(k, sw, ms, fault)
  PROVE  IInv'
<1>1. PICK roles, strs, p : /\ roles = ZaddRoles(k, sw, ms) /\ strs = Strings(roles)
                            /\ p = Parsed(strs)
  OBVIOUS
<1>2. PICK expired \in BOOLEAN : \E h, z :
        /\ h = IF fault = "few" THEN p ELSE Found(p, k, expired)
        /\ z = Zadded(h, k, sw, ms, fault, strs)
        /\ Executed("ZADD", z.heap, strs, z.dead, z.error, {})
        /\ refused' = (refused \/ (z.made /\ z.error)) /\ MayMiss(k, z.tied)
  BY <1>1 DEF zaddCommand
<1>3. PICK h, z :
        /\ h = IF fault = "few" THEN p ELSE Found(p, k, expired)
        /\ z = Zadded(h, k, sw, ms, fault, strs)
        /\ Executed("ZADD", z.heap, strs, z.dead, z.error, {})
        /\ refused' = (refused \/ (z.made /\ z.error)) /\ MayMiss(k, z.tied)
  BY <1>2
<1>4. pc = "idle" /\ ~refused
  BY <1>3, AtRest DEF Executed
<1>5. ms \in Seq(Members)
  BY OwnershipAssumption
<1>6. RolesFit(roles, k, sw, ms)
  BY <1>1, <1>5, RolesOfZadd
<1>7. Good(p, 1) /\ AreArgs(p, strs, roles)
  BY <1>1, <1>4, <1>6, ParsedKeeps DEF RolesFit
<1>8. Good(h, 1) /\ Lost(h, 1) = Lost(p, 1)
  BY <1>3, <1>7, FoundKeeps
<1>9. AreArgs(h, strs, roles)
  BY <1>7, <1>8, StillArgs
<1>10. ZaddOK(h, z, sw, ms, fault, strs)
  BY <1>1, <1>3, <1>5, <1>8, <1>9, ZaddedKeeps
<1>11. /\ strs \in Seq(Cell) /\ Lost(h, 1) = ArgsOf(strs) /\ 2 \in 1..Len(strs)
       /\ \A c \in Lost(h, 1) : c.of[1] \in {"cmd", "key", "switch", "score", "member"}
  BY <1>6, <1>9 DEF AreArgs, ArgsOf, RolesFit
<1>12. PICK freed : freed = Freeing("ZADD", ArgList(strs, z.dead), z.error)
  OBVIOUS
<1>13. freed = IF z.error THEN ArgsOf(strs) ELSE {strs[i] : i \in z.dead}
  <2>1. freed = FreedOf("ZADD", strs, z.dead, z.error)
    BY <1>11, <1>12, FreeingIs
  <2>2. (1..Len(strs)) \cap z.dead = z.dead
    BY <1>10 DEF ZaddOK
  <2> QED
    BY <2>1, <2>2 DEF FreedOf, free_args
<1>14. refused' = (z.made /\ z.error) /\ refused' \in BOOLEAN
  BY <1>3, <1>4, <1>10 DEF ZaddOK
<1>15. IF refused' THEN ~(freed \subseteq z.heap.live) ELSE freed \subseteq Lost(z.heap, 1)
  <2>1. CASE z.made /\ z.error
    <3>1. strs[2] \in freed /\ strs[2] \notin z.heap.live
      BY <1>10, <1>11, <1>13, <2>1 DEF ZaddOK, ArgsOf
    <3> QED
      BY <1>14, <2>1, <3>1
  <2>2. CASE ~z.made /\ z.error
    BY <1>10, <1>11, <1>13, <1>14, <2>2 DEF ZaddOK
  <2>3. CASE ~z.error
    BY <1>10, <1>13, <1>14, <2>3 DEF ZaddOK
  <2> QED
    BY <2>1, <2>2, <2>3
<1>16. Leaks("ZADD", Lost(z.heap, 1) \ freed)
  <2>1. CASE z.error
    BY <1>10, <1>11, <1>13, <2>1 DEF ZaddOK, Leaks
  <2>2. CASE ~z.error
    <3>1. \A c \in Lost(z.heap, 1) : c.of[1] = "score" => c \in freed
      BY <1>10, <1>13, <2>2 DEF ZaddOK
    <3>2. \A c \in Lost(z.heap, 1) : c.of[1] \in {"cmd", "key", "switch", "score", "member"}
      BY <1>10, <1>11 DEF ZaddOK
    <3> QED
      BY <3>1, <3>2 DEF Leaks, LeakableOf
  <2> QED
    BY <2>1, <2>2
<1>17. StrsOf({}) = {} /\ OwnOf({}) = {}
  BY DEF StrsOf, OwnOf
<1>18. Answered(z.heap, "ZADD", ArgList(strs, z.dead), z.error, {}, refused')
  BY <1>12, <1>15, <1>16, <1>17 DEF Answered
<1>19. Outcome("ZADD", z.heap, strs, z.dead, z.error, {}, refused')
  BY <1>10, <1>11, <1>14, <1>18, NothingPointed DEF Outcome, ZaddOK
<1>20. missed' \in SUBSET Keys
  BY <1>3, <1>4, AtRest DEF MayMiss
<1> QED
  BY <1>3, <1>19, <1>20, ExecutedKeeps

LEMMA ZrangeKeeps ==
  ASSUME IInv, ~heap.broken, NEW k \in Keys, zrangeCommand(k)
  PROVE  IInv'
<1>1. PICK strs, roles : strs = Strings(roles) /\ roles = <<<<"cmd">>, <<"key", k>>>>
  OBVIOUS
<1>2. PICK p : p = Parsed(strs)
  OBVIOUS
<1>3. \/ Executed("ZRANGE", p, strs, {}, TRUE, {})
      \/ \E expired, withscores \in BOOLEAN : Ranged(Found(p, k, expired), strs, k, withscores)
  <2>1. \/ Executed("ZRANGE", Parsed(Strings(<<<<"cmd">>, <<"key", k>>>>)),
                    Strings(<<<<"cmd">>, <<"key", k>>>>), {}, TRUE, {})
        \/ \E expired, withscores \in BOOLEAN :
             Ranged(Found(Parsed(Strings(<<<<"cmd">>, <<"key", k>>>>)), k, expired),
                    Strings(<<<<"cmd">>, <<"key", k>>>>), k, withscores)
    BY ONLY zrangeCommand(k) DEF zrangeCommand
  <2>2. strs = Strings(<<<<"cmd">>, <<"key", k>>>>)
    BY ONLY <1>1
  <2> QED
    BY ONLY <1>2, <2>1, <2>2
<1>4. pc = "idle" /\ refused' = FALSE /\ missed' = missed /\ missed' \in SUBSET Keys
  <2>1. pc = "idle"
    <3>1. CASE Executed("ZRANGE", p, strs, {}, TRUE, {})
      BY ONLY <3>1, ExecutedAtIdle
    <3>2. ASSUME NEW h, NEW withscores \in BOOLEAN, Ranged(h, strs, k, withscores)
          PROVE  pc = "idle"
      <4>1. PICK dead, live, err, rep : Executed("ZRANGE", live, strs, dead, err, rep)
        BY ONLY <3>2 DEF Ranged
      <4> QED
        BY ONLY <4>1, ExecutedAtIdle
    <3> QED
      BY <1>3, <3>1, <3>2
  <2>2. refused' = refused /\ missed' = missed
    BY ONLY zrangeCommand(k) DEF zrangeCommand
  <2> QED
    BY <2>1, <2>2, AtRest
<1>5. roles \in Seq(Purpose)
  BY <1>1 DEF Purpose
<1>6. Good(p, 1) /\ AreArgs(p, strs, roles)
  BY <1>1, <1>4, <1>5, <1>2, ParsedKeeps
<1>7. strs \in Seq(Cell) /\ Lost(p, 1) = ArgsOf(strs)
  BY <1>6 DEF AreArgs, ArgsOf
<1>8. CASE Executed("ZRANGE", p, strs, {}, TRUE, {})
  <2>1. Outcome("ZRANGE", p, strs, {}, TRUE, {}, FALSE)
    BY <1>6, <1>7, AllFreedOnly DEF FreesAllOnly
  <2> QED
    BY <1>4, <1>8, <2>1, ExecutedKeeps
<1>9. ASSUME NEW expired \in BOOLEAN, NEW h, h = Found(p, k, expired), NEW keys, NEW scores,
             NEW left, left \in SUBSET LeftKeys(h, k), keys = MemberKeys(h, k),
             scores \in {{}, {Fresh(<<"score">>, h.live)}},
             Executed("ZRANGE", Alloc(h, scores), strs, {},
                      h.table[k] # NULL /\ ~IsA(h, k, "set"), RangeOf(keys \cup left, scores))
      PROVE  IInv'
  <2>1. Good(h, 1) /\ Lost(h, 1) = ArgsOf(strs)
    BY <1>6, <1>7, <1>9, FoundKeeps
  <2>2. scores \in SUBSET Cell /\ IsFiniteSet(scores) /\ scores \cap h.live = {}
    <3>1. IsFiniteSet(h.live)
      BY <2>1, HeapTyped DEF Good
    <3>2. PICK cell : cell = Fresh(<<"score">>, h.live)
      OBVIOUS
    <3>3. cell \in [of : {<<"score">>}, n : Nat] /\ cell \notin h.live
      BY <3>1, <3>2, FreshIsNew
    <3>4. cell \in Cell
      BY <3>3 DEF Cell, Purpose
    <3>5. IsFiniteSet({}) /\ IsFiniteSet({cell})
      BY FS_EmptySet, FS_Singleton
    <3> QED
      BY <1>9, <3>2, <3>3, <3>4, <3>5
  <2>3. PICK g : g = Alloc(h, scores)
    OBVIOUS
  <2>4. Good(g, 1) /\ Lost(g, 1) = Lost(h, 1) \cup scores
    BY <2>1, <2>2, <2>3, AllocKeeps
  <2>5. g.live = h.live \cup scores
    BY <2>1, <2>2, <2>3, HeapTyped, AllocIs DEF Good
  <2>6. keys \subseteq Cell /\ keys \subseteq h.live \ ArgsOf(strs)
    <3>1. CASE IsA(h, k, "set")
      <4>1. k \in Stored(h) /\ HeapOK(h)
        BY <2>1, <3>1 DEF IsA, Stored, Good
      <4>2. keys \subseteq CellsOf(h.table[k].val)
        <5>1. keys = {h.table[k].val.members[m].key : m \in MembersIn(h.table[k].val)}
          <6>1. keys = MemberKeys(h, k)
            BY ONLY <1>9
          <6> QED
            BY ONLY <3>1, <6>1, Zenon DEF MemberKeys
        <5> QED
          BY ONLY <5>1 DEF CellsOf
      <4>3. keys \subseteq Cell
        BY <4>1, <4>2, InTable
      <4>4. keys \subseteq Owned(h, 1)
        BY <4>1, <4>2 DEF Owned, TableCells
      <4> QED
        BY <2>1, <4>3, <4>4 DEF Good, Sound, Lost
    <3>2. CASE ~IsA(h, k, "set")
      BY <1>9, <3>2 DEF MemberKeys
    <3> QED
      BY <3>1, <3>2
  <2>a. left \subseteq Cell /\ (left # {} => missed' # {})
    <3>1. CASE left = {}
      BY <3>1
    <3>2. CASE left # {}
      <4>1. left \subseteq LeftKeys(h, k) /\ k \in missed
        BY <1>9, <3>2 DEF LeftKeys
      <4>2. IsFiniteSet(h.live) /\ MembersIn(h.table[k].val) \subseteq Members
        BY <2>1, HeapTyped DEF Good, MembersIn
      <4>3. ASSUME NEW m \in MembersIn(h.table[k].val)
            PROVE  Fresh(<<"member", k, m>>, h.live) \in Cell
        <5>1. <<"member", k, m>> \in Purpose
          BY <4>2 DEF Purpose
        <5>2. Fresh(<<"member", k, m>>, h.live) \in [of : {<<"member", k, m>>}, n : Nat]
          BY <4>2, FreshIsNew
        <5> QED
          BY <5>1, <5>2 DEF Cell
      <4>4. LeftKeys(h, k) \subseteq Cell
        BY <4>3 DEF LeftKeys
      <4> QED
        BY <1>4, <4>1, <4>4
    <3> QED
      BY <3>1, <3>2
  <2>b. PICK shown : shown = keys \cup left
    OBVIOUS
  <2>c. shown \subseteq Cell
    BY <2>6, <2>a, <2>b
  <2>7. PICK rep : rep = RangeOf(shown, scores)
    OBVIOUS
  <2>8. rep \subseteq [str : Cell, dead : BOOLEAN] /\ StrsOf(rep) = shown \cup scores
        /\ OwnOf(rep) = scores
    <3>1. /\ \A c \in shown : [str |-> c, dead |-> FALSE] \in rep
          /\ \A c \in scores : [str |-> c, dead |-> TRUE] \in rep
          /\ \A a \in rep : \/ \E c \in shown : a = [str |-> c, dead |-> FALSE]
                            \/ \E c \in scores : a = [str |-> c, dead |-> TRUE]
      BY <2>7 DEF RangeOf, Borrowed, Own
    <3>2. rep \subseteq [str : Cell, dead : BOOLEAN]
      <4>1. ASSUME NEW c \in Cell, NEW b \in BOOLEAN
            PROVE  [str |-> c, dead |-> b] \in [str : Cell, dead : BOOLEAN]
        OBVIOUS
      <4>2. /\ \A c \in shown : [str |-> c, dead |-> FALSE] \in [str : Cell, dead : BOOLEAN]
            /\ \A c \in scores : [str |-> c, dead |-> TRUE] \in [str : Cell, dead : BOOLEAN]
        BY <2>2, <2>c, <4>1
      <4>3. ASSUME NEW a \in rep
            PROVE  a \in [str : Cell, dead : BOOLEAN]
        BY <3>1, <4>2
      <4> QED
        BY <4>3
    <3>3. StrsOf(rep) = shown \cup scores
      <4>1. \A c \in shown \cup scores : \E a \in rep : a.str = c
        BY <3>1
      <4>2. \A a \in rep : a.str \in shown \cup scores
        BY <3>1
      <4> QED
        BY <4>1, <4>2 DEF StrsOf
    <3>4. OwnOf(rep) = scores
      <4>1. \A c \in scores : \E a \in rep : a.dead /\ a.str = c
        BY <3>1
      <4>2. \A a \in rep : a.dead => a.str \in scores
        BY <3>1
      <4> QED
        BY <4>1, <4>2 DEF OwnOf
    <3> QED
      BY <3>2, <3>3, <3>4
  <2>9. PICK err \in BOOLEAN : err = (h.table[k] # NULL /\ ~IsA(h, k, "set"))
    OBVIOUS
  <2>10. scores \cap ArgsOf(strs) = {}
    BY <2>1, <2>2 DEF Lost
  <2>11. FreesAll("ZRANGE", g, strs, err, rep)
    <3>1. missed' # {} \/ StrsOf(rep) \subseteq g.live \ ArgsOf(strs)
      BY <2>5, <2>6, <2>8, <2>10, <2>a, <2>b
    <3> QED
      BY <1>7, <2>1, <2>4, <2>8, <2>10, <3>1 DEF FreesAll, free_args
  <2>12. Outcome("ZRANGE", g, strs, {}, err, rep, FALSE)
    BY <2>11, AllFreed
  <2> QED
    BY <1>4, <1>9, <2>3, <2>7, <2>9, <2>12, <2>b, ExecutedKeeps
<1>10. ASSUME NEW expired \in BOOLEAN, NEW withscores \in BOOLEAN,
             Ranged(Found(p, k, expired), strs, k, withscores)
      PROVE  IInv'
  <2>1. PICK h : h = Found(p, k, expired)
    OBVIOUS
  <2>2. PICK keys : keys = MemberKeys(h, k)
    OBVIOUS
  <2>3. PICK scores : scores = IF withscores /\ keys # {} THEN {Fresh(<<"score">>, h.live)} ELSE {}
    OBVIOUS
  <2>4. Ranged(h, strs, k, withscores)
    BY ONLY <1>10, <2>1
  <2>5. PICK left \in SUBSET LeftKeys(h, k) :
          Executed("ZRANGE", Alloc(h, scores), strs, {},
                   h.table[k] # NULL /\ ~IsA(h, k, "set"), RangeOf(keys \cup left, scores))
    BY ONLY <2>2, <2>3, <2>4 DEF Ranged
  <2>6. scores \in {{}, {Fresh(<<"score">>, h.live)}}
    BY ONLY <2>3
  <2> QED
    BY <1>9, <2>1, <2>2, <2>5, <2>6
<1> QED
  BY <1>3, <1>8, <1>10

-----------------------------------------------------------------------------
(* The slots of Ownership: one for each cell that is owned                 *)

Waiting(h, i) == i..Len(h.garbage)
ValAt(h, x) == IF x \in Keys THEN h.table[x].val ELSE h.garbage[x]
InSets(h, i) ==
  {p \in (Stored(h) \cup Waiting(h, i)) \X Members : p[2] \in MembersIn(ValAt(h, p[1]))}

LEMMA PlacesApart ==
  ASSUME NEW h, HeapOK(h), NEW i \in Nat \ {0}
  PROVE  /\ \A j \in Waiting(h, i) : ValAt(h, j) = h.garbage[j] /\ j \notin Keys
         /\ \A k \in Stored(h) : ValAt(h, k) = h.table[k].val /\ k \in Keys
<1>1. \A j \in Waiting(h, i) : j \notin Keys
  BY HeapTyped, OwnershipAssumption DEF Waiting
<1>2. \A k \in Stored(h) : k \in Keys
  BY DEF Stored
<1> QED
  BY <1>1, <1>2 DEF ValAt

LEMMA SlotsAre ==
  ASSUME NEW h, HeapOK(h), NEW i \in Nat \ {0}
  PROVE  Slots(h, i) =
           (Stored(h) \X {"key"}) \cup ((Stored(h) \cup Waiting(h, i)) \X {"val"})
           \cup {<<p[1], "key", p[2]>> : p \in InSets(h, i)}
           \cup {<<p[1], "val", p[2]>> : p \in InSets(h, i)}
<1> DEFINE inSets == {p \in Stored(h) \X Members : Has(h, p[1], p[2])}
                     \cup {p \in Waiting(h, i) \X Members : p[2] \in MembersIn(h.garbage[p[1]])}
<1>1. inSets = InSets(h, i)
  <2>1. ASSUME NEW p \in Stored(h) \X Members
        PROVE  Has(h, p[1], p[2]) <=> p[2] \in MembersIn(ValAt(h, p[1]))
    BY PlacesApart DEF Has
  <2>2. ASSUME NEW p \in Waiting(h, i) \X Members
        PROVE  p[2] \in MembersIn(h.garbage[p[1]]) <=> p[2] \in MembersIn(ValAt(h, p[1]))
    BY PlacesApart
  <2> QED
    BY <2>1, <2>2 DEF InSets
<1>2. Slots(h, i) = (Stored(h) \X {"key"}) \cup ((Stored(h) \cup Waiting(h, i)) \X {"val"})
           \cup {<<p[1], "key", p[2]>> : p \in inSets}
           \cup {<<p[1], "val", p[2]>> : p \in inSets}
  BY DEF Slots, Stored, Waiting
<1> QED
  BY <1>1, <1>2

(* A slot, and the cell that is in it.                                     *)
OfKey(h, s, c) == \E k \in Stored(h) : s = <<k, "key">> /\ c = h.table[k].key
OfVal(h, i, s, c) ==
  \E x \in Stored(h) \cup Waiting(h, i) : s = <<x, "val">> /\ c = ValAt(h, x).cell
OfMemberKey(h, i, s, c) ==
  \E x \in Stored(h) \cup Waiting(h, i) : \E m \in MembersIn(ValAt(h, x)) :
    s = <<x, "key", m>> /\ c = ValAt(h, x).members[m].key
OfEntry(h, i, s, c) ==
  \E x \in Stored(h) \cup Waiting(h, i) : \E m \in MembersIn(ValAt(h, x)) :
    s = <<x, "val", m>> /\ c = ValAt(h, x).members[m].val.cell

IsSlot(h, i, s, c) ==
  OfKey(h, s, c) \/ OfVal(h, i, s, c) \/ OfMemberKey(h, i, s, c) \/ OfEntry(h, i, s, c)

LEMMA CellIsIn ==
  ASSUME NEW h, HeapOK(h), NEW i \in Nat \ {0}, NEW s, NEW c, IsSlot(h, i, s, c)
  PROVE  c = CellOf(h, s)
<1>1. CASE OfKey(h, s, c)
  <2>1. PICK k \in Stored(h) : s = <<k, "key">> /\ c = h.table[k].key
    BY <1>1 DEF OfKey
  <2> QED
    BY <2>1 DEF CellOf
<1>2. CASE OfVal(h, i, s, c)
  <2>1. PICK x \in Stored(h) \cup Waiting(h, i) : s = <<x, "val">> /\ c = ValAt(h, x).cell
    BY <1>2 DEF OfVal
  <2> QED
    BY <2>1 DEF CellOf, ValAt
<1>3. CASE OfMemberKey(h, i, s, c)
  <2>1. PICK x \in Stored(h) \cup Waiting(h, i) : \E m \in MembersIn(ValAt(h, x)) :
          s = <<x, "key", m>> /\ c = ValAt(h, x).members[m].key
    BY <1>3 DEF OfMemberKey
  <2> QED
    BY <2>1 DEF CellOf, ValAt
<1>4. CASE OfEntry(h, i, s, c)
  <2>1. PICK x \in Stored(h) \cup Waiting(h, i) : \E m \in MembersIn(ValAt(h, x)) :
          s = <<x, "val", m>> /\ c = ValAt(h, x).members[m].val.cell
    BY <1>4 DEF OfEntry
  <2> QED
    <3>1. PICK m \in MembersIn(ValAt(h, x)) : s = <<x, "val", m>> /\ c = ValAt(h, x).members[m].val.cell
      BY <2>1
    <3>2. Len(s) = 3 /\ s[1] = x /\ s[2] = "val" /\ s[3] = m
      BY <3>1
    <3>3. CellOf(h, s) = ValAt(h, x).members[m].val.cell
      BY <3>2 DEF CellOf, ValAt
    <3> QED
      BY <3>1, <3>3
<1> QED
  BY <1>1, <1>2, <1>3, <1>4 DEF IsSlot

LEMMA EachSlot ==
  ASSUME NEW h, HeapOK(h), NEW i \in Nat \ {0}, NEW s
  PROVE  s \in Slots(h, i) <=> \E c : IsSlot(h, i, s, c)
<1>1. s \in Stored(h) \X {"key"} <=> \E c : OfKey(h, s, c)
  BY DEF OfKey
<1>2. s \in (Stored(h) \cup Waiting(h, i)) \X {"val"} <=> \E c : OfVal(h, i, s, c)
  BY DEF OfVal
<1>3. \A x \in Stored(h) \cup Waiting(h, i) : \A m \in MembersIn(ValAt(h, x)) : <<x, m>> \in InSets(h, i)
  BY DEF InSets, MembersIn
<1>4. \A p \in InSets(h, i) : /\ p[1] \in Stored(h) \cup Waiting(h, i)
                              /\ p[2] \in MembersIn(ValAt(h, p[1]))
  BY DEF InSets
<1>5. s \in {<<p[1], "key", p[2]>> : p \in InSets(h, i)} <=> \E c : OfMemberKey(h, i, s, c)
  <2>1. ASSUME s \in {<<p[1], "key", p[2]>> : p \in InSets(h, i)}
        PROVE  \E c : OfMemberKey(h, i, s, c)
    BY <1>4, <2>1 DEF OfMemberKey
  <2>2. ASSUME NEW c, OfMemberKey(h, i, s, c)
        PROVE  s \in {<<p[1], "key", p[2]>> : p \in InSets(h, i)}
    <3>1. PICK x \in Stored(h) \cup Waiting(h, i) : \E m \in MembersIn(ValAt(h, x)) : s = <<x, "key", m>>
      BY <2>2 DEF OfMemberKey
    <3>2. PICK m \in MembersIn(ValAt(h, x)) : s = <<x, "key", m>>
      BY <3>1
    <3>3. PICK p : p = <<x, m>>
      OBVIOUS
    <3>4. p \in InSets(h, i) /\ s = <<p[1], "key", p[2]>>
      BY <1>3, <3>2, <3>3
    <3> QED
      BY <3>4
  <2> QED
    BY <2>1, <2>2
<1>6. s \in {<<p[1], "val", p[2]>> : p \in InSets(h, i)} <=> \E c : OfEntry(h, i, s, c)
  <2>1. ASSUME s \in {<<p[1], "val", p[2]>> : p \in InSets(h, i)}
        PROVE  \E c : OfEntry(h, i, s, c)
    BY <1>4, <2>1 DEF OfEntry
  <2>2. ASSUME NEW c, OfEntry(h, i, s, c)
        PROVE  s \in {<<p[1], "val", p[2]>> : p \in InSets(h, i)}
    <3>1. PICK x \in Stored(h) \cup Waiting(h, i) : \E m \in MembersIn(ValAt(h, x)) : s = <<x, "val", m>>
      BY <2>2 DEF OfEntry
    <3>2. PICK m \in MembersIn(ValAt(h, x)) : s = <<x, "val", m>>
      BY <3>1
    <3>3. PICK p : p = <<x, m>>
      OBVIOUS
    <3>4. p \in InSets(h, i) /\ s = <<p[1], "val", p[2]>>
      BY <1>3, <3>2, <3>3
    <3> QED
      BY <3>4
  <2> QED
    BY <2>1, <2>2
<1>7. s \in Slots(h, i) <=>
        \/ s \in Stored(h) \X {"key"} \/ s \in (Stored(h) \cup Waiting(h, i)) \X {"val"}
        \/ s \in {<<p[1], "key", p[2]>> : p \in InSets(h, i)}
        \/ s \in {<<p[1], "val", p[2]>> : p \in InSets(h, i)}
  BY SlotsAre
<1> QED
  BY <1>1, <1>2, <1>5, <1>6, <1>7 DEF IsSlot

(* What the slots hold is what is owned.                                   *)
LEMMA OwnedSlots ==
  ASSUME NEW h, HeapOK(h), NEW i \in Nat \ {0}, NEW c
  PROVE  c \in Owned(h, i) <=> \E s : IsSlot(h, i, s, c)
<1>1. c \in KeyCells(h) <=> \E s : OfKey(h, s, c)
  BY DEF KeyCells, OfKey
<1>2. c \in TableCells(h) \cup GarbageCells(h, i) <=>
        \E x \in Stored(h) \cup Waiting(h, i) : c \in CellsOf(ValAt(h, x))
  BY PlacesApart DEF TableCells, GarbageCells, Waiting
<1>3. (\E x \in Stored(h) \cup Waiting(h, i) : c \in CellsOf(ValAt(h, x))) <=>
        \E s : OfVal(h, i, s, c) \/ OfMemberKey(h, i, s, c) \/ OfEntry(h, i, s, c)
  BY DEF CellsOf, OfVal, OfMemberKey, OfEntry
<1> QED
  BY <1>1, <1>2, <1>3 DEF Owned, IsSlot

LEMMA SlotsOwn ==
  ASSUME NEW h, HeapOK(h), NEW i \in Nat \ {0}
  PROVE  {CellOf(h, s) : s \in Slots(h, i)} = Owned(h, i)
<1>1. ASSUME NEW s \in Slots(h, i)
      PROVE  CellOf(h, s) \in Owned(h, i)
  BY EachSlot, CellIsIn, OwnedSlots
<1>2. ASSUME NEW c \in Owned(h, i)
      PROVE  \E s \in Slots(h, i) : c = CellOf(h, s)
  BY EachSlot, CellIsIn, OwnedSlots
<1> QED
  BY <1>1, <1>2

LEMMA OwnedInIs ==
  ASSUME NEW h, HeapOK(h)
  PROVE  OwnedIn(h) = Owned(h, 1)
<1>1. 1 \in Nat \ {0}
  OBVIOUS
<1> QED
  BY <1>1, SlotsOwn DEF OwnedIn

(* What two values have is apart, so a cell is in one place.               *)
LEMMA ValuesApart ==
  ASSUME NEW h, NEW i \in Nat \ {0}, Good(h, i),
         NEW x \in Stored(h) \cup Waiting(h, i), NEW y \in Stored(h) \cup Waiting(h, i),
         NEW c \in CellsOf(ValAt(h, x)), c \in CellsOf(ValAt(h, y))
  PROVE  x = y
<1>1. HeapOK(h) /\ Sound(h, i)
  BY DEF Good
<1>2. CASE x \in Stored(h) /\ y \in Stored(h)
  <2>1. CellsOf(ValAt(h, x)) = CellsOf(h.table[x].val) /\ CellsOf(ValAt(h, y)) = CellsOf(h.table[y].val)
    BY <1>1, <1>2, PlacesApart
  <2>2. c.of[2] = x /\ c.of[2] = y
    BY <1>1, <1>2, <2>1, InTable
  <2> QED
    BY <2>2
<1>3. ASSUME NEW k \in Stored(h), NEW j \in Waiting(h, i),
             c \in CellsOf(ValAt(h, k)), c \in CellsOf(ValAt(h, j))
      PROVE  FALSE
  <2>1. c \in TableCells(h) /\ c \in GarbageCells(h, i)
    BY <1>1, <1>3, PlacesApart DEF TableCells, GarbageCells, Waiting
  <2> QED
    BY <1>1, <2>1 DEF Sound
<1>4. CASE x \in Waiting(h, i) /\ y \in Waiting(h, i)
  <2>1. ValAt(h, x) = h.garbage[x] /\ ValAt(h, y) = h.garbage[y]
    BY <1>1, <1>4, PlacesApart
  <2> QED
    BY <1>1, <1>4, <2>1 DEF Sound, GarbageApart, Waiting
<1> QED
  BY <1>2, <1>3, <1>4

LEMMA PlaceOK ==
  ASSUME NEW h, HeapOK(h), NEW i \in Nat \ {0}, NEW x \in Stored(h) \cup Waiting(h, i)
  PROVE  ValAt(h, x) \in Value /\ FitsPurpose(ValAt(h, x))
<1>1. \A j \in Waiting(h, i) : j \in 1..Len(h.garbage)
  BY HeapTyped DEF Waiting
<1> QED
  BY <1>1, PlacesApart, InTable, InGarbage

LEMMA SlotsApart ==
  ASSUME NEW h, NEW i \in Nat \ {0}, Good(h, i), NEW c, NEW s, IsSlot(h, i, s, c),
         NEW t, IsSlot(h, i, t, c)
  PROVE  s = t
<1>1. HeapOK(h)
  BY DEF Good
<1>2. ASSUME NEW r, OfKey(h, r, c)
      PROVE  c.of[1] = "key" /\ r = <<c.of[2], "key">>
  <2>1. PICK k \in Stored(h) : r = <<k, "key">> /\ c = h.table[k].key
    BY <1>2 DEF OfKey
  <2>2. c.of = <<"key", k>>
    BY <1>1, <2>1, InTable
  <2> QED
    BY <2>1, <2>2
<1>3. ASSUME NEW r, OfVal(h, i, r, c)
      PROVE  \E x \in Stored(h) \cup Waiting(h, i) :
               /\ r = <<x, "val">> /\ c \in CellsOf(ValAt(h, x)) /\ c = ValAt(h, x).cell
               /\ c.of[1] \in {"val", "bitmap", "set", "entry"}
               /\ MembersIn(ValAt(h, x)) # {} => c.of[1] = "set"
  <2>1. PICK x \in Stored(h) \cup Waiting(h, i) : r = <<x, "val">> /\ c = ValAt(h, x).cell
    BY <1>3 DEF OfVal
  <2>2. ValAt(h, x) \in Value /\ FitsPurpose(ValAt(h, x))
    BY <1>1, PlaceOK
  <2>3. c \in CellsOf(ValAt(h, x))
    BY <2>1 DEF CellsOf
  <2>4. /\ c.of[1] \in {"val", "bitmap", "set", "entry"}
        /\ MembersIn(ValAt(h, x)) # {} => c.of[1] = "set"
    BY <2>1, <2>2 DEF Value, FitsPurpose
  <2> QED
    BY <2>1, <2>3, <2>4
<1>4. ASSUME NEW r, OfMemberKey(h, i, r, c)
      PROVE  \E x \in Stored(h) \cup Waiting(h, i) :
               /\ r = <<x, "key", c.of[3]>> /\ c \in CellsOf(ValAt(h, x)) /\ c.of[1] = "member"
  <2>1. PICK x \in Stored(h) \cup Waiting(h, i) : \E m \in MembersIn(ValAt(h, x)) :
          r = <<x, "key", m>> /\ c = ValAt(h, x).members[m].key
    BY <1>4 DEF OfMemberKey
  <2>2. PICK m \in MembersIn(ValAt(h, x)) : r = <<x, "key", m>> /\ c = ValAt(h, x).members[m].key
    BY <2>1
  <2>3. c.of = <<"member", ValAt(h, x).cell.of[2], m>>
    BY <1>1, <2>2, PlaceOK DEF FitsPurpose
  <2>4. c.of[1] = "member" /\ c.of[3] = m /\ c \in CellsOf(ValAt(h, x))
    BY <2>2, <2>3 DEF CellsOf
  <2> QED
    BY <2>2, <2>4
<1>5. ASSUME NEW r, OfEntry(h, i, r, c)
      PROVE  \E x \in Stored(h) \cup Waiting(h, i) :
               /\ r = <<x, "val", c.of[3]>> /\ c \in CellsOf(ValAt(h, x)) /\ c.of[1] = "entry"
               /\ MembersIn(ValAt(h, x)) # {}
  <2>1. PICK x \in Stored(h) \cup Waiting(h, i) : \E m \in MembersIn(ValAt(h, x)) :
          r = <<x, "val", m>> /\ c = ValAt(h, x).members[m].val.cell
    BY <1>5 DEF OfEntry
  <2>2. PICK m \in MembersIn(ValAt(h, x)) : r = <<x, "val", m>> /\ c = ValAt(h, x).members[m].val.cell
    BY <2>1
  <2>3. c.of = <<"entry", ValAt(h, x).cell.of[2], m>>
    BY <1>1, <2>2, PlaceOK DEF FitsPurpose
  <2>4. c.of[1] = "entry" /\ c.of[3] = m /\ c \in CellsOf(ValAt(h, x))
    <3>1. c.of[1] = "entry" /\ c.of[3] = m
      BY <2>3
    <3>2. PICK v : v = ValAt(h, x)
      OBVIOUS
    <3>3. m \in MembersIn(v) /\ c = v.members[m].val.cell
      BY <2>2, <3>2
    <3>4. c \in CellsOf(v)
      BY <3>3 DEF CellsOf
    <3> QED
      BY <3>1, <3>2, <3>4
  <2> QED
    BY <2>2, <2>4
<1>6. CASE OfKey(h, s, c) \/ OfKey(h, t, c)
  <2>1. c.of[1] = "key"
    BY <1>2, <1>6
  <2>2. OfKey(h, s, c) /\ OfKey(h, t, c)
    BY <2>1, <1>3, <1>4, <1>5 DEF IsSlot
  <2> QED
    BY <1>2, <2>2
<1>7. CASE OfMemberKey(h, i, s, c) \/ OfMemberKey(h, i, t, c)
  <2>1. c.of[1] = "member"
    BY <1>4, <1>7
  <2>2. OfMemberKey(h, i, s, c) /\ OfMemberKey(h, i, t, c)
    BY <2>1, <1>2, <1>3, <1>5 DEF IsSlot
  <2>3. PICK x \in Stored(h) \cup Waiting(h, i) : s = <<x, "key", c.of[3]>> /\ c \in CellsOf(ValAt(h, x))
    BY <1>4, <2>2
  <2>4. PICK y \in Stored(h) \cup Waiting(h, i) : t = <<y, "key", c.of[3]>> /\ c \in CellsOf(ValAt(h, y))
    BY <1>4, <2>2
  <2>5. x = y
    BY <2>3, <2>4, ValuesApart
  <2> QED
    BY <2>3, <2>4, <2>5
<1>8. CASE OfEntry(h, i, s, c) /\ OfEntry(h, i, t, c)
  <2>1. PICK x \in Stored(h) \cup Waiting(h, i) : s = <<x, "val", c.of[3]>> /\ c \in CellsOf(ValAt(h, x))
    BY <1>5, <1>8
  <2>2. PICK y \in Stored(h) \cup Waiting(h, i) : t = <<y, "val", c.of[3]>> /\ c \in CellsOf(ValAt(h, y))
    BY <1>5, <1>8
  <2>3. x = y
    BY <2>1, <2>2, ValuesApart
  <2> QED
    BY <2>1, <2>2, <2>3
<1>9. CASE OfVal(h, i, s, c) /\ OfVal(h, i, t, c)
  <2>1. PICK x \in Stored(h) \cup Waiting(h, i) : s = <<x, "val">> /\ c \in CellsOf(ValAt(h, x))
    BY <1>3, <1>9
  <2>2. PICK y \in Stored(h) \cup Waiting(h, i) : t = <<y, "val">> /\ c \in CellsOf(ValAt(h, y))
    BY <1>3, <1>9
  <2>3. x = y
    BY <2>1, <2>2, ValuesApart
  <2> QED
    BY <2>1, <2>2, <2>3
<1>10. ASSUME NEW r, NEW q, OfVal(h, i, r, c), OfEntry(h, i, q, c)
       PROVE  FALSE
  <2>1. PICK x \in Stored(h) \cup Waiting(h, i) :
          c \in CellsOf(ValAt(h, x)) /\ (MembersIn(ValAt(h, x)) # {} => c.of[1] = "set")
    BY <1>3, <1>10
  <2>2. PICK y \in Stored(h) \cup Waiting(h, i) :
          c \in CellsOf(ValAt(h, y)) /\ c.of[1] = "entry" /\ MembersIn(ValAt(h, y)) # {}
    BY <1>5, <1>10
  <2>3. x = y
    BY <2>1, <2>2, ValuesApart
  <2> QED
    BY <2>1, <2>2, <2>3
<1> QED
  BY <1>6, <1>7, <1>8, <1>9, <1>10 DEF IsSlot

(* As many cells are owned as there are slots.                             *)
LEMMA OneCellEach ==
  ASSUME NEW h, NEW i \in Nat \ {0}, Good(h, i)
  PROVE  Cardinality(Owned(h, i)) = Cardinality(Slots(h, i))
<1>1. PICK f, S, T : f = [s \in S |-> CellOf(h, s)] /\ S = Slots(h, i) /\ T = Owned(h, i)
  OBVIOUS
<1>2. HeapOK(h) /\ IsFiniteSet(h.live) /\ T \subseteq h.live
  BY <1>1, HeapTyped DEF Good, Sound
<1>3. T = {CellOf(h, s) : s \in S}
  BY <1>1, <1>2, SlotsOwn
<1>4. f \in [S -> T] /\ \A c \in T : \E s \in S : f[s] = c
  BY <1>1, <1>3
<1>5. \A s, t \in S : f[s] = f[t] => s = t
  <2>1. ASSUME NEW s \in S
        PROVE  IsSlot(h, i, s, f[s])
    BY <1>1, <1>2, EachSlot, CellIsIn
  <2> QED
    BY <2>1, SlotsApart
<1>6. f \in Bijection(S, T)
  <2>1. f \in Injection(S, T) /\ f \in Surjection(S, T)
    BY <1>4, <1>5, Fun_IsInj, Fun_IsSurj
  <2> QED
    BY <2>1 DEF Bijection
<1>7. IsFiniteSet(T)
  BY <1>2, FS_Subset
<1>8. IsFiniteSet(S)
  BY <1>6, <1>7, FS_Injection DEF Bijection
<1>9. ExistsBijection(S, T)
  BY <1>6 DEF ExistsBijection
<1> QED
  BY <1>1, <1>8, <1>9, FS_Bijection

-----------------------------------------------------------------------------
(* Rows of the rdb file                                                    *)

LEMMA LoadedKeeps ==
  ASSUME IInv, ~heap.broken, NEW h, Good(h, 1), Loaded(h), missed' \in SUBSET Keys
  PROVE  IInv'
<1>1. PICK cells : cells = Lost(h, 1)
  OBVIOUS
<1>2. HeapOK(h) /\ h \in Heap /\ Owned(h, 1) \subseteq h.live /\ cells \subseteq h.live
  BY <1>1, HeapTyped DEF Good, Sound, Lost
<1>3. OwnedIn(h) = Owned(h, 1)
  BY <1>2, OwnedInIs
<1>4. h.live \cap OwnedIn(h) = h.live \ cells
  BY <1>1, <1>3 DEF Lost
<1>5. heap' = Freed(h, cells)
  BY <1>2, <1>4 DEF Loaded, Freed
<1>6. Good(heap', 1) /\ Lost(heap', 1) = {}
  BY <1>1, <1>5, FreedKeeps
<1>7. /\ pc = "idle" /\ at = 0 /\ ~refused
      /\ UNCHANGED <<cmd, args, error, reply, pc, at, refused, signalled>>
  BY AtRest DEF Loaded
<1>8. TypeOK'
  <2>1. HeapOK(heap)'
    BY <1>6 DEF HeapOK, FitsPurpose, MembersIn, Good
  <2> QED
    BY <1>7, <2>1 DEF IInv, TypeOK
<1>9. (~heap.broken => Sound(heap, First))' /\ ~heap'.broken
  BY <1>6, <1>7 DEF Good, First
<1>10. ByPc'
  BY <1>6, <1>7, <1>9, AtRest DEF ByPc, AtIdle, AtFree, AtWrite, AtDrain, AtDone, Whole, Lost
<1> QED
  BY <1>8, <1>9, <1>10 DEF IInv

(* A row that makes a node of its own for k.                               *)
NewRow(k, type) ==
  LET key == Fresh(<<"key", k>>, heap.live)
      cell == Fresh(<<PurposeOf(type), k>>, heap.live)
  IN  set(Alloc(heap, {key, cell}), k, key, Val(cell, type))

LEMMA NewRowKeeps ==
  ASSUME IInv, ~heap.broken, pc = "idle", NEW k \in Keys, NEW type \in {"string", "bitmap"}
  PROVE  Good(NewRow(k, type), 1)
<1>1. PICK key, cell, cells : /\ key = Fresh(<<"key", k>>, heap.live)
                              /\ cell = Fresh(<<PurposeOf(type), k>>, heap.live)
                              /\ cells = {key, cell}
  OBVIOUS
<1>2. Good(heap, 1) /\ Lost(heap, 1) = {} /\ IsFiniteSet(heap.live)
  BY AtRest, HeapTyped DEF Good
<1>3. /\ key \in Cell /\ key.of = <<"key", k>> /\ key \notin heap.live
      /\ cell \in Cell /\ cell.of = <<PurposeOf(type), k>> /\ cell \notin heap.live
  <2>1. /\ key \in [of : {<<"key", k>>}, n : Nat] /\ key \notin heap.live
        /\ cell \in [of : {<<PurposeOf(type), k>>}, n : Nat] /\ cell \notin heap.live
    BY <1>1, <1>2, FreshIsNew
  <2>2. <<"key", k>> \in Purpose /\ <<PurposeOf(type), k>> \in Purpose
    BY DEF Purpose, PurposeOf
  <2> QED
    BY <2>1, <2>2 DEF Cell
<1>4. IsFiniteSet(cells) /\ cells \in SUBSET Cell /\ cells \cap heap.live = {}
  <2>1. IsFiniteSet({key}) /\ IsFiniteSet({cell}) /\ cells = {key} \cup {cell}
    BY <1>1, FS_Singleton
  <2>2. IsFiniteSet(cells)
    BY <2>1, FS_Union
  <2> QED
    BY <1>1, <1>3, <2>2
<1>5. PICK h : h = Alloc(heap, cells)
  OBVIOUS
<1>6. Good(h, 1) /\ Lost(h, 1) = cells
  <2>1. Good(Alloc(heap, cells), 1) /\ Lost(Alloc(heap, cells), 1) = Lost(heap, 1) \cup cells
    BY ONLY <1>2, <1>4, AllocKeeps
  <2> QED
    BY <1>2, <1>5, <2>1
<1>7. MaySet(h, k, key, cell, type)
  BY <1>1, <1>3, <1>6 DEF MaySet
<1>8. HasSet(h, set(h, k, key, Val(cell, type)), k, key, cell, type)
  BY <1>6, <1>7, SetKeeps
<1> QED
  BY <1>1, <1>5, <1>8 DEF HasSet, NewRow

LEMMA LoadHashMapKeeps ==
  ASSUME IInv, ~heap.broken, NEW k \in Keys, loadHashMapEntry(k) \/ loadBitmapEntry(k)
  PROVE  IInv'
<1>1. PICK type \in {"string", "bitmap"} : Loaded(NewRow(k, type))
  BY DEF loadHashMapEntry, loadBitmapEntry, NewRow, PurposeOf
<1>2. pc = "idle" /\ missed' = missed
  BY <1>1 DEF Loaded, loadHashMapEntry, loadBitmapEntry
<1>3. missed' \in SUBSET Keys
  BY <1>2, AtRest
<1> QED
  BY <1>1, <1>2, <1>3, NewRowKeeps, LoadedKeeps

LEMMA LoadSkiplistKeeps ==
  ASSUME IInv, ~heap.broken, NEW k \in Keys, NEW m \in Members, NEW fault \in {"none", "float"},
         loadSkiplistEntry(k, m, fault)
  PROVE  IInv'
<1>1. PICK roles, strs, p, ms, sw : /\ roles = ZaddRoles(k, sw, ms) /\ strs = Strings(roles)
                                    /\ p = Parsed(strs) /\ ms = <<m>> /\ sw = {}
  OBVIOUS
<1>2. PICK expired \in BOOLEAN : \E h, z, dead :
        /\ h = Found(p, k, expired) /\ z = Zadded(h, k, sw, ms, fault, strs)
        /\ dead = {strs[i] : i \in z.dead} /\ Loaded(Freed(z.heap, dead)) /\ MayMiss(k, z.tied)
  BY <1>1 DEF loadSkiplistEntry
<1>3. PICK h, z, dead :
        /\ h = Found(p, k, expired) /\ z = Zadded(h, k, sw, ms, fault, strs)
        /\ dead = {strs[i] : i \in z.dead} /\ Loaded(Freed(z.heap, dead)) /\ MayMiss(k, z.tied)
  BY <1>2
<1>4. pc = "idle"
  BY <1>3 DEF Loaded
<1>5. ms \in Seq(Members) /\ sw \in SUBSET {"NX", "XX", "INCR"} /\ Len(ms) = 1
  BY <1>1
<1>6. roles \in Seq(Purpose)
  BY <1>1, <1>5, RolesOfZadd DEF RolesFit
<1>7. Good(p, 1) /\ AreArgs(p, strs, roles)
  BY <1>1, <1>4, <1>6, ParsedKeeps
<1>8. Good(h, 1) /\ AreArgs(h, strs, roles)
  BY <1>3, <1>7, FoundKeeps, StillArgs
<1>9. ZaddOK(h, z, sw, ms, fault, strs)
  BY <1>1, <1>3, <1>5, <1>8, ZaddedKeeps
<1>10. ~Illegal(sw, ms, fault)
  BY <1>1, <1>5 DEF Illegal
<1>11. Good(z.heap, 1) /\ dead \subseteq Lost(z.heap, 1)
  <2>1. dead \subseteq Lost(h, 1)
    BY <1>3, <1>8, <1>9 DEF ZaddOK, AreArgs
  <2> QED
    BY <1>3, <1>9, <1>10, <2>1 DEF ZaddOK
<1>12. Good(Freed(z.heap, dead), 1)
  BY <1>11, FreedKeeps
<1>13. missed' \in SUBSET Keys
  BY <1>3, <1>4, AtRest DEF MayMiss
<1> QED
  BY <1>3, <1>12, <1>13, LoadedKeeps

-----------------------------------------------------------------------------
(* After the command                                                       *)

LEMMA DispatchKeeps ==
  ASSUME IInv, ~heap.broken, commandDispatcher
  PROVE  IInv'
<1>1. PICK freed : freed = Freeing(cmd, args, error)
  OBVIOUS
<1>2. /\ pc = "free" /\ pc' = "write" /\ heap' = Freed(heap, freed) /\ args' = <<>>
      /\ UNCHANGED <<cmd, error, reply, at, refused, signalled, missed>>
  <2>1. {args[i].str : i \in IF free_args(cmd) \/ error THEN DOMAIN args
                             ELSE {i \in DOMAIN args : args[i].dead}} = freed
    BY <1>1 DEF Freeing
  <2> QED
    BY <2>1 DEF commandDispatcher
<1>3. /\ TypeOK /\ at = 0 /\ First = 1 /\ ~heap.broken /\ cmd \notin {"none", "EXIT"}
      /\ Answered(heap, cmd, args, error, reply, refused)
      /\ Pointed(heap, cmd, args, error, reply, missed)
  BY <1>2 DEF IInv, TypeOK, ByPc, AtFree, First
<1>4. Good(heap, 1) /\ HeapOK(heap) /\ heap \in Heap
  BY <1>3, HeapTyped DEF IInv, TypeOK, Good
<1>5. /\ (cmd = "ZRANGE" /\ missed # {}) \/ StrsOf(reply) \subseteq heap.live \ freed
      /\ OwnOf(reply) \subseteq Lost(heap, 1) \ freed
      /\ IF refused THEN ~(freed \subseteq heap.live) ELSE freed \subseteq Lost(heap, 1)
      /\ Leaks(cmd, Lost(heap, 1) \ (freed \cup OwnOf(reply)))
  BY <1>1, <1>3 DEF Answered, Pointed
<1>7. /\ HeapOK(heap') /\ ((cmd = "ZRANGE" /\ missed # {}) \/ StrsOf(reply) \subseteq heap'.live)
      /\ heap'.broken => refused
      /\ ~heap'.broken => /\ ~refused /\ Sound(heap', 1) /\ OwnOf(reply) \subseteq Lost(heap', 1)
                          /\ Leaks(cmd, Lost(heap', 1) \ OwnOf(reply))
  <2>1. CASE refused
    <3>1. /\ heap' \in Heap /\ heap'.table = heap.table /\ heap'.garbage = heap.garbage
          /\ heap'.live = heap.live /\ heap'.broken
      BY <1>2, <1>4, <1>5, <2>1, FreedIs
    <3>2. HeapOK(heap')
      BY <1>4, <3>1, HeapTyped, HeapIsOK
    <3> QED
      BY <1>5, <2>1, <3>1, <3>2
  <2>2. CASE ~refused
    <3>1. freed \subseteq Lost(heap, 1)
      BY <1>5, <2>2
    <3>2. Good(heap', 1) /\ Lost(heap', 1) = Lost(heap, 1) \ freed
      BY <1>2, <1>4, <3>1, FreedKeeps
    <3>3. heap'.live = heap.live \ freed
      BY <1>2, <1>4, <3>1, FreedIs DEF Lost
    <3>4. OwnOf(reply) \subseteq Lost(heap', 1)
      BY <1>5, <3>2
    <3>5. Leaks(cmd, Lost(heap', 1) \ OwnOf(reply))
      BY <1>5, <3>2 DEF Leaks
    <3> QED
      BY <1>5, <2>2, <3>2, <3>3, <3>4, <3>5 DEF Good
  <2> QED
    BY <2>1, <2>2
<1>8. TypeOK'
  <2>1. HeapOK(heap)'
    BY <1>7 DEF HeapOK, FitsPurpose, MembersIn
  <2> QED
    BY <1>2, <1>3, <2>1 DEF TypeOK
<1>9. ByPc'
  BY <1>2, <1>3, <1>7 DEF ByPc, AtIdle, AtFree, AtWrite, AtDrain, AtDone, Whole
<1> QED
  BY <1>2, <1>3, <1>7, <1>8, <1>9 DEF IInv, First

LEMMA WriteKeeps ==
  ASSUME IInv, ~heap.broken, writeToBuffer
  PROVE  IInv'
<1>1. PICK own : own = OwnOf(reply)
  OBVIOUS
<1>2. /\ pc = "write" /\ heap' = Freed(heap, own) /\ reply' = {} /\ error' = FALSE
      /\ IF heap.garbage = <<>> THEN pc' = "done" /\ at' = at ELSE pc' = "drain" /\ at' = 1
      /\ UNCHANGED <<cmd, args, refused, signalled, missed>>
  BY <1>1 DEF writeToBuffer, OwnOf
<1>3. /\ TypeOK /\ at = 0 /\ First = 1 /\ args = <<>> /\ cmd \notin {"none", "EXIT"}
      /\ ~refused /\ own \subseteq Lost(heap, 1) /\ Leaks(cmd, Lost(heap, 1) \ own)
  BY <1>1, <1>2 DEF IInv, TypeOK, ByPc, AtWrite, First
<1>4. Good(heap, 1) /\ heap \in Heap
  BY <1>3, HeapTyped DEF IInv, TypeOK, Good
<1>5. Good(heap', 1) /\ Lost(heap', 1) = Lost(heap, 1) \ own
  BY <1>2, <1>3, <1>4, FreedKeeps
<1>6. heap'.garbage = heap.garbage
  BY <1>2, <1>4, FreedIs
<1>7. /\ pc' \in {"done", "drain"} /\ at' = IF pc' = "done" THEN 0 ELSE 1
      /\ pc' = "done" => heap'.garbage = <<>>
      /\ pc' = "drain" => 1 \in DOMAIN heap'.garbage
  <2>1. heap.garbage # <<>> => 1 \in DOMAIN heap.garbage
    BY <1>4, EmptySeq DEF Heap
  <2> QED
    BY <1>2, <1>3, <1>6, <2>1
<1>8. TypeOK'
  <2>1. HeapOK(heap)'
    BY <1>5 DEF HeapOK, FitsPurpose, MembersIn, Good
  <2> QED
    BY <1>2, <1>3, <1>7, <2>1 DEF TypeOK
<1>9. First' = 1 /\ ~heap'.broken /\ Sound(heap', 1)
  BY <1>5, <1>7 DEF First, Good
<1>10. ByPc'
  BY <1>2, <1>3, <1>5, <1>7, <1>9 DEF ByPc, AtIdle, AtFree, AtWrite, AtDrain, AtDone, Whole
<1> QED
  BY <1>8, <1>9, <1>10 DEF IInv

-----------------------------------------------------------------------------
(* freeGarbage                                                             *)

(* What it frees of a value, and what it appends to the garbage.           *)
Heads(v) == {v.cell} \cup {v.members[m].key : m \in MembersIn(v)}
Tails(v) == {v.members[m].val.cell : m \in MembersIn(v)}

LEMMA HeadsAndTails ==
  ASSUME NEW v \in Value, FitsPurpose(v)
  PROVE  /\ CellsOf(v) = Heads(v) \cup Tails(v) /\ Heads(v) \cap Tails(v) = {}
         /\ \A c \in Tails(v) : c.of[1] = "entry"
         /\ \A c \in Heads(v) : MembersIn(v) # {} => c.of[1] # "entry"
<1>1. ASSUME NEW m \in MembersIn(v)
      PROVE  /\ v.members[m].key.of[1] = "member" /\ v.members[m].val.cell.of[1] = "entry"
             /\ v.cell.of[1] = "set"
  <2>1. m \in Members
    BY DEF MembersIn
  <2> QED
    BY <2>1 DEF FitsPurpose
<1>2. CellsOf(v) = Heads(v) \cup Tails(v)
  BY DEF CellsOf, Heads, Tails
<1>3. \A c \in Tails(v) : c.of[1] = "entry" /\ MembersIn(v) # {}
  BY <1>1 DEF Tails
<1>4. \A c \in Heads(v) : MembersIn(v) # {} => c.of[1] # "entry"
  BY <1>1 DEF Heads
<1> QED
  BY <1>2, <1>3, <1>4

(* The entries of a value, each of them once.                              *)
EntriesAre(v, es) ==
  /\ es \in Seq(Value)
  /\ \A j \in 1..Len(es) : FitsPurpose(es[j]) /\ CellsOf(es[j]) = {es[j].cell}
  /\ \A j, l \in 1..Len(es) : es[j].cell = es[l].cell => j = l
  /\ Tails(v) = {es[j].cell : j \in 1..Len(es)}

LEMMA EntriesOf ==
  ASSUME NEW v \in Value, FitsPurpose(v)
  PROVE  EntriesAre(v, Entries(v))
<1>1. PICK S, ms : S = MembersIn(v) /\ ms = SetToSeq(S)
  OBVIOUS
<1>2. S \subseteq Members /\ IsFiniteSet(S)
  BY <1>1, OwnershipAssumption, FS_Subset DEF MembersIn
<1>3. PICK n \in Nat : n = Cardinality(S)
  BY <1>2, FS_CardinalityType
<1>4. ms \in [1..n -> S] /\ IsInjective(ms)
  <2>1. \E f \in [1..n -> S] : IsInjective(f)
    <3>1. ExistsBijection(1..n, S)
      BY <1>2, <1>3, FS_CardinalityType
    <3>2. PICK f : f \in Bijection(1..n, S)
      BY <3>1 DEF ExistsBijection
    <3> QED
      BY <3>2 DEF Bijection, Injection
  <2> QED
    BY <1>1, <1>3, <2>1 DEF SetToSeq
<1>5. \A m \in S : \E j \in 1..n : ms[j] = m
  <2>1. ms \in Injection(1..n, S)
    BY <1>4 DEF Injection
  <2>2. IsFiniteSet(1..n) /\ Cardinality(1..n) = n
    BY <1>3, FS_Interval
  <2>3. ms \in Surjection(1..n, S)
    BY <1>2, <1>3, <2>1, <2>2, FS_Injection
  <2> QED
    BY <2>3 DEF Surjection
<1>6. ASSUME NEW m \in S
      PROVE  /\ v.members[m].val \in Value /\ FitsPurpose(v.members[m].val)
             /\ CellsOf(v.members[m].val) = {v.members[m].val.cell}
             /\ v.members[m].val.cell.of[3] = m
  <2>1. PICK e : e = v.members[m].val
    OBVIOUS
  <2>2. m \in Members /\ v.members[m] \in Entry
    BY <1>1 DEF MembersIn, Value
  <2>3. /\ e.cell \in Cell /\ e.type = "entry" /\ e.members = NoMembers
        /\ e \in [cell : Cell, type : {"entry"}, members : {NoMembers}]
    BY <2>1, <2>2 DEF Entry
  <2>4. e.cell.of = <<"entry", v.cell.of[2], m>>
    BY <1>1, <2>1, <2>2 DEF FitsPurpose
  <2>5. MembersIn(e) = {}
    BY <2>3 DEF MembersIn, NoMembers
  <2>6. e \in Value
    <3>1. NoMembers \in [Members -> Entry \cup {NULL}]
      BY DEF NoMembers
    <3> QED
      BY <2>3, <3>1 DEF Value
  <2>7. FitsPurpose(e)
    BY <2>3, <2>4, <2>5 DEF FitsPurpose
  <2>8. CellsOf(e) = {e.cell}
    BY <2>5 DEF CellsOf
  <2> QED
    BY <2>1, <2>4, <2>6, <2>7, <2>8
<1>7. PICK es : es = Entries(v)
  OBVIOUS
<1>8. es = [j \in 1..n |-> v.members[ms[j]].val]
  BY <1>1, <1>4, <1>7 DEF Entries
<1>9. \A j \in 1..n : ms[j] \in S /\ es[j] = v.members[ms[j]].val
  BY <1>4, <1>8
<1>10. es \in Seq(Value) /\ Len(es) = n
  <2>1. \A j \in 1..n : v.members[ms[j]].val \in Value
    BY <1>6, <1>9
  <2> DEFINE entry(j) == v.members[ms[j]].val
  <2>2. \A j \in 1..n : entry(j) \in Value
    BY <2>1
  <2>3. es = [j \in 1..n |-> entry(j)]
    BY <1>8
  <2> HIDE DEF entry
  <2>4. [j \in 1..n |-> entry(j)] \in Seq(Value)
    BY ONLY <2>2, n \in Nat
  <2> QED
    BY <2>3, <2>4
<1>11. \A j \in 1..n : FitsPurpose(es[j]) /\ CellsOf(es[j]) = {es[j].cell} /\ es[j].cell.of[3] = ms[j]
  BY <1>6, <1>9
<1>12. \A j, l \in 1..n : es[j].cell = es[l].cell => j = l
  <2>1. \A j, l \in 1..n : ms[j] = ms[l] => j = l
    BY <1>4 DEF IsInjective
  <2> QED
    BY <1>11, <2>1
<1>13. Tails(v) = {es[j].cell : j \in 1..n}
  BY <1>1, <1>5, <1>9 DEF Tails
<1> QED
  BY <1>7, <1>10, <1>11, <1>12, <1>13 DEF EntriesAre

(* The garbage node at i is freed, its entries are appended.               *)
DrainedIs(h, i, g, es) ==
  /\ i \in 1..Len(h.garbage) /\ EntriesAre(h.garbage[i], es)
  /\ g = [Freed(h, Heads(h.garbage[i])) EXCEPT !.garbage = @ \o es]

(* What has come to the garbage since i, once the entries are there.       *)
LEMMA DrainedGarbage ==
  ASSUME NEW h, NEW i, Good(h, i), NEW g, NEW es, DrainedIs(h, i, g, es)
  PROVE  /\ g \in Heap /\ g.table = h.table /\ ~g.broken
         /\ g.live = h.live \ Heads(h.garbage[i])
         /\ Len(g.garbage) = Len(h.garbage) + Len(es)
         /\ \A j \in 1..Len(h.garbage) : g.garbage[j] = h.garbage[j]
         /\ \A j \in 1..Len(es) : g.garbage[Len(h.garbage) + j] = es[j]
<1>1. HeapOK(h) /\ h \in Heap /\ h.garbage \in Seq(Value) /\ ~h.broken
  BY HeapTyped DEF Good
<1>2. PICK v : v = h.garbage[i]
  OBVIOUS
<1>3. v \in Value /\ FitsPurpose(v) /\ i \in 1..Len(h.garbage) /\ EntriesAre(v, es)
  BY <1>1, <1>2, InGarbage DEF DrainedIs
<1>4. Heads(v) \subseteq h.live
  <2>1. CellsOf(v) \subseteq GarbageCells(h, i)
    BY <1>1, <1>2, <1>3 DEF GarbageCells
  <2> QED
    BY <1>3, <2>1, HeadsAndTails DEF Good, Sound, Owned
<1>5. PICK f : f = Freed(h, Heads(v))
  OBVIOUS
<1>6. /\ f \in Heap /\ f.table = h.table /\ f.garbage = h.garbage
      /\ f.live = h.live \ Heads(v) /\ ~f.broken
  BY <1>1, <1>4, <1>5, FreedIs
<1>7. es \in Seq(Value)
  BY <1>3 DEF EntriesAre
<1>8. PICK G : G = h.garbage \o es
  OBVIOUS
<1>9. G \in Seq(Value)
  BY <1>1, <1>7, <1>8
<1>10. /\ Len(G) = Len(h.garbage) + Len(es)
       /\ \A j \in 1..Len(h.garbage) : G[j] = h.garbage[j]
       /\ \A j \in 1..Len(es) : G[Len(h.garbage) + j] = es[j]
  <2>1. Len(h.garbage) \in Nat /\ Len(es) \in Nat
    BY <1>1, <1>7
  <2> QED
    BY <1>1, <1>7, <1>8, <2>1
<1>11. g = [f EXCEPT !.garbage = G]
  BY <1>2, <1>5, <1>6, <1>8 DEF DrainedIs
<1>12. g \in Heap /\ g.table = f.table /\ g.live = f.live /\ g.broken = f.broken /\ g.garbage = G
  BY <1>6, <1>9, <1>11 DEF Heap
<1> QED
  BY <1>2, <1>6, <1>10, <1>12

LEMMA DrainKeeps ==
  ASSUME NEW h, NEW i, Good(h, i), NEW g, NEW es, DrainedIs(h, i, g, es)
  PROVE  /\ Good(g, i + 1) /\ Lost(g, i + 1) = Lost(h, i)
         /\ i = Len(h.garbage) => \A c \in GarbageCells(g, i + 1) : c.of[1] = "entry"
<1>1. PICK n, p, v : n = Len(h.garbage) /\ p = Len(es) /\ v = h.garbage[i]
  OBVIOUS
<1>2. HeapOK(h) /\ h \in Heap /\ n \in Nat /\ i \in 1..n /\ IsFiniteSet(h.live)
  BY <1>1, HeapTyped DEF Good, DrainedIs
<1>3. v \in Value /\ FitsPurpose(v) /\ EntriesAre(v, es)
  BY <1>1, <1>2, InGarbage DEF DrainedIs
<1>4. p \in Nat
  BY <1>1, <1>3 DEF EntriesAre
<1>5. /\ g \in Heap /\ g.table = h.table /\ ~g.broken /\ g.live = h.live \ Heads(v)
      /\ Len(g.garbage) = n + p
      /\ \A j \in 1..n : g.garbage[j] = h.garbage[j]
      /\ \A j \in 1..p : g.garbage[n + j] = es[j]
  <2>1. Good(h, i) /\ DrainedIs(h, i, g, es)
    OBVIOUS
  <2>2. /\ g \in Heap /\ g.table = h.table /\ ~g.broken
        /\ g.live = h.live \ Heads(h.garbage[i])
        /\ Len(g.garbage) = Len(h.garbage) + Len(es)
        /\ \A j \in 1..Len(h.garbage) : g.garbage[j] = h.garbage[j]
        /\ \A j \in 1..Len(es) : g.garbage[Len(h.garbage) + j] = es[j]
    BY ONLY <2>1, DrainedGarbage
  <2> QED
    BY ONLY <1>1, <2>2
<1>6. /\ CellsOf(v) = Heads(v) \cup Tails(v) /\ Heads(v) \cap Tails(v) = {}
      /\ \A c \in Tails(v) : c.of[1] = "entry"
  BY <1>3, HeadsAndTails
<1>7. /\ \A j \in 1..p : FitsPurpose(es[j]) /\ CellsOf(es[j]) = {es[j].cell}
      /\ \A j, l \in 1..p : es[j].cell = es[l].cell => j = l
      /\ Tails(v) = {es[j].cell : j \in 1..p}
  BY <1>1, <1>3 DEF EntriesAre
<1>8. PICK rest : rest = GarbageCells(h, i + 1)
  OBVIOUS
<1>9. GarbageCells(h, i) = CellsOf(v) \cup rest /\ CellsOf(v) \cap rest = {}
  <2>1. i..n = {i} \cup (i + 1)..n
    BY <1>2
  <2>2. \A j \in (i + 1)..n : j # i /\ j \in i..n
    BY <1>2
  <2>3. \A j \in (i + 1)..n : CellsOf(v) \cap CellsOf(h.garbage[j]) = {}
    BY <1>1, <1>2, <2>1, <2>2 DEF Good, Sound, GarbageApart
  <2> QED
    BY <1>1, <1>8, <2>1, <2>3 DEF GarbageCells
<1>10. \A j \in (i + 1)..(n + p) :
         \/ j \in (i + 1)..n /\ g.garbage[j] = h.garbage[j]
         \/ j - n \in 1..p /\ g.garbage[j] = es[j - n] /\ CellsOf(g.garbage[j]) = {es[j - n].cell}
  <2>1. ASSUME NEW j \in (i + 1)..(n + p)
        PROVE  \/ j \in (i + 1)..n /\ g.garbage[j] = h.garbage[j]
               \/ j - n \in 1..p /\ g.garbage[j] = es[j - n]
                  /\ CellsOf(g.garbage[j]) = {es[j - n].cell}
    <3>1. (j \in (i + 1)..n /\ j \in 1..n) \/ (j - n \in 1..p /\ n + (j - n) = j)
      BY <1>2, <1>4
    <3>2. j \in 1..n => g.garbage[j] = h.garbage[j]
      BY <1>5
    <3>3. CASE j - n \in 1..p /\ n + (j - n) = j
      <4>1. PICK x \in 1..p : x = j - n /\ n + x = j
        BY <3>3
      <4>2. g.garbage[n + x] = es[x] /\ CellsOf(es[x]) = {es[x].cell}
        BY <1>5, <1>7
      <4> QED
        BY <4>1, <4>2
    <3> QED
      BY <3>1, <3>2, <3>3
  <2> QED
    BY <2>1
<1>11. GarbageCells(g, i + 1) = rest \cup Tails(v)
  <2>1. \A j \in (i + 1)..n : j \in (i + 1)..(n + p) /\ j \in 1..n
    BY <1>2, <1>4
  <2>2. \A j \in 1..p : n + j \in (i + 1)..(n + p)
    BY <1>2, <1>4
  <2>3. rest \subseteq GarbageCells(g, i + 1)
    BY <1>1, <1>5, <1>8, <2>1 DEF GarbageCells
  <2>4. Tails(v) \subseteq GarbageCells(g, i + 1)
    BY <1>5, <1>7, <2>2 DEF GarbageCells
  <2>5. GarbageCells(g, i + 1) \subseteq rest \cup Tails(v)
    <3>1. ASSUME NEW j \in (i + 1)..(n + p)
          PROVE  CellsOf(g.garbage[j]) \subseteq rest \cup Tails(v)
      <4>1. CASE j \in (i + 1)..n /\ g.garbage[j] = h.garbage[j]
        BY <1>1, <1>8, <4>1 DEF GarbageCells
      <4>2. CASE j - n \in 1..p /\ CellsOf(g.garbage[j]) = {es[j - n].cell}
        BY <1>7, <4>2
      <4> QED
        BY <1>10, <4>1, <4>2
    <3> QED
      BY <1>5, <3>1 DEF GarbageCells
  <2> QED
    BY <2>3, <2>4, <2>5
<1>12. KeyCells(g) = KeyCells(h) /\ TableCells(g) = TableCells(h) /\ Stored(g) = Stored(h)
  BY <1>5 DEF KeyCells, TableCells, Stored
<1>13. /\ TableCells(h) \cap (CellsOf(v) \cup rest) = {}
       /\ KeyCells(h) \cap (CellsOf(v) \cup rest) = {}
       /\ KeyCells(h) \cup TableCells(h) \cup CellsOf(v) \cup rest \subseteq h.live
  <2>1. KeyCells(h) \cap GarbageCells(h, i) = {}
    BY <1>2, KeysApart DEF KeyCells
  <2> QED
    BY <1>9, <2>1 DEF Good, Sound, Owned
<1>14. Owned(g, i + 1) \subseteq g.live /\ Lost(g, i + 1) = Lost(h, i)
  <2>1. Owned(h, i) = KeyCells(h) \cup TableCells(h) \cup CellsOf(v) \cup rest
    BY <1>9 DEF Owned
  <2>2. Owned(g, i + 1) = KeyCells(h) \cup TableCells(h) \cup rest \cup Tails(v)
    BY <1>11, <1>12 DEF Owned
  <2> HIDE DEF Owned
  <2>3. Owned(g, i + 1) \subseteq g.live
    BY <1>5, <1>6, <1>9, <1>13, <2>2
  <2>4. Lost(g, i + 1) = Lost(h, i)
    BY <1>5, <1>6, <1>9, <1>13, <2>1, <2>2 DEF Lost
  <2> QED
    BY <2>3, <2>4
<1>15. GarbageApart(g, i + 1)
  <2>1. ASSUME NEW j \in (i + 1)..(n + p), NEW l \in (i + 1)..(n + p), j # l
        PROVE  CellsOf(g.garbage[j]) \cap CellsOf(g.garbage[l]) = {}
    <3>1. CASE j \in (i + 1)..n /\ g.garbage[j] = h.garbage[j]
               /\ l \in (i + 1)..n /\ g.garbage[l] = h.garbage[l]
      <4>1. j \in i..n /\ l \in i..n
        BY <1>2, <3>1
      <4> QED
        BY <1>1, <2>1, <3>1, <4>1 DEF Good, Sound, GarbageApart
    <3>2. ASSUME NEW x \in (i + 1)..n, NEW y \in 1..p
          PROVE  CellsOf(h.garbage[x]) \cap {es[y].cell} = {}
      <4>1. CellsOf(h.garbage[x]) \subseteq rest
        BY <1>1, <1>8 DEF GarbageCells
      <4>2. es[y].cell \in CellsOf(v)
        BY <1>6, <1>7
      <4> QED
        BY <1>9, <4>1, <4>2
    <3>3. CASE j - n \in 1..p /\ CellsOf(g.garbage[j]) = {es[j - n].cell}
               /\ l - n \in 1..p /\ CellsOf(g.garbage[l]) = {es[l - n].cell}
      <4>1. j - n # l - n
        BY <1>2, <2>1
      <4> QED
        BY <1>7, <3>3, <4>1
    <3> QED
      BY <1>10, <3>1, <3>2, <3>3
  <2> QED
    BY <1>5, <2>1 DEF GarbageApart
<1>16. HeapOK(g)
  <2>1. IsFiniteSet(g.live)
    <3>1. IsFiniteSet(h.live \ Heads(v))
      BY <1>2, FS_Difference
    <3> QED
      BY <1>5, <3>1
  <2>2. \A j \in DOMAIN g.garbage : FitsPurpose(g.garbage[j])
    <3>1. ASSUME NEW j \in 1..(n + p)
          PROVE  FitsPurpose(g.garbage[j])
      <4>1. j \in 1..n \/ (j - n \in 1..p /\ n + (j - n) = j)
        BY <1>2, <1>4
      <4>2. CASE j \in 1..n
        <5>1. FitsPurpose(h.garbage[j])
          BY ONLY <1>1, <1>2, <4>2 DEF HeapOK, Good
        <5>2. g.garbage[j] = h.garbage[j]
          BY ONLY <1>5, <4>2
        <5> QED
          BY ONLY <5>1, <5>2
      <4>3. CASE j - n \in 1..p /\ n + (j - n) = j
        <5>1. PICK x : x = j - n
          OBVIOUS
        <5>2. x \in 1..p /\ j = n + x
          BY ONLY <4>3, <5>1
        <5>3. FitsPurpose(es[x]) /\ g.garbage[n + x] = es[x]
          BY ONLY <1>5, <1>7, <5>2
        <5> QED
          BY ONLY <5>2, <5>3
      <4> QED
        BY ONLY <4>1, <4>2, <4>3
    <3>2. DOMAIN g.garbage = 1..(n + p)
      BY <1>5 DEF Heap
    <3> QED
      BY <3>1, <3>2
  <2> QED
    BY <1>2, <1>5, <2>1, <2>2 DEF HeapOK, Heap
<1>17. Good(g, i + 1)
  BY <1>5, <1>6, <1>11, <1>12, <1>13, <1>14, <1>15, <1>16 DEF Good, Sound
<1>18. i = n => rest = {}
  <2>1. i = n => (i + 1)..n = {}
    BY <1>2
  <2> QED
    BY <1>1, <1>8, <2>1 DEF GarbageCells
<1> QED
  BY <1>1, <1>6, <1>11, <1>14, <1>17, <1>18

LEMMA ToEndKeeps ==
  ASSUME NEW h, NEW i, Good(h, i)
  PROVE  LET g == ToEnd(h)
         IN  /\ Good(g, 1) /\ g.garbage = <<>>
             /\ Lost(g, 1) \subseteq Lost(h, i) \cup GarbageCells(h, i)
<1>1. HeapOK(h) /\ h \in Heap /\ IsFiniteSet(h.live) /\ ~h.broken
  BY HeapTyped DEF Good
<1>2. PICK g : g = ToEnd(h)
  OBVIOUS
<1>3. /\ g \in Heap /\ g.table = h.table /\ g.live = h.live /\ g.broken = h.broken
      /\ g.garbage = <<>> /\ Len(g.garbage) = 0
  <2>1. <<>> \in Seq(Value) /\ Len(<<>>) = 0
    OBVIOUS
  <2>2. PICK e : e = <<>> /\ e \in Seq(Value)
    BY <2>1
  <2>3. g = [h EXCEPT !.garbage = e]
    BY <1>2, <2>2 DEF ToEnd
  <2>4. /\ g \in Heap /\ g.table = h.table /\ g.live = h.live /\ g.broken = h.broken
        /\ g.garbage = e
    BY <1>1, <2>2, <2>3 DEF Heap
  <2> QED
    BY <2>2, <2>4
<1>4. KeyCells(g) = KeyCells(h) /\ TableCells(g) = TableCells(h)
  BY <1>3 DEF KeyCells, TableCells, Stored
<1>5. GarbageCells(g, 1) = {} /\ GarbageApart(g, 1)
  BY <1>3 DEF GarbageCells, GarbageApart
<1>6. HeapOK(g)
  BY <1>1, <1>3 DEF HeapOK, Heap
<1>7. Owned(g, 1) \subseteq g.live /\ Lost(g, 1) \subseteq Lost(h, i) \cup GarbageCells(h, i)
  BY <1>3, <1>4, <1>5 DEF Good, Sound, Owned, Lost
<1>8. Good(g, 1)
  BY <1>1, <1>3, <1>5, <1>6, <1>7 DEF Good, Sound
<1> QED
  BY <1>2, <1>3, <1>7, <1>8

LEMMA FreeGarbageKeeps ==
  ASSUME IInv, ~heap.broken, freeGarbage
  PROVE  IInv'
<1>1. PICK v, es, h : /\ v = heap.garbage[at] /\ es = Entries(v)
                      /\ h = [Freed(heap, Heads(v)) EXCEPT !.garbage = @ \o es]
  OBVIOUS
<1>2. /\ pc = "drain"
      /\ IF at = Len(heap.garbage)
         THEN heap' = ToEnd(h) /\ at' = 0 /\ pc' = (IF cmd = "EXIT" THEN "gone" ELSE "done")
         ELSE heap' = h /\ at' = at + 1 /\ pc' = pc
      /\ UNCHANGED <<cmd, args, error, reply, refused, signalled, missed>>
  <2> DEFINE w == heap.garbage[at]
             f == [Freed(heap, Heads(w)) EXCEPT !.garbage = @ \o Entries(w)]
  <2>1. /\ pc = "drain"
        /\ IF at = Len(heap.garbage)
           THEN heap' = ToEnd(f) /\ at' = 0 /\ pc' = (IF cmd = "EXIT" THEN "gone" ELSE "done")
           ELSE heap' = f /\ at' = at + 1 /\ pc' = pc
        /\ UNCHANGED <<cmd, args, error, reply, refused, signalled, missed>>
    BY DEF freeGarbage, Heads
  <2>2. h = f
    BY <1>1
  <2> HIDE DEF f
  <2> QED
    BY <2>1, <2>2
<1>3. TypeOK /\ HeapOK(heap) /\ ByPc /\ at \in DOMAIN heap.garbage
  BY <1>2 DEF IInv, TypeOK
<1>4. PICK n \in Nat : n = Len(heap.garbage) /\ at \in 1..n /\ DOMAIN heap.garbage = 1..n
  BY <1>3, HeapTyped
<1>5. First = at /\ Good(heap, at)
  BY <1>3, <1>4 DEF IInv, First, Good
<1>6. DrainedIs(heap, at, h, es)
  <2>1. v \in Value /\ FitsPurpose(v)
    BY <1>1, <1>3, <1>4, InGarbage
  <2> QED
    BY <1>1, <1>4, <2>1, EntriesOf DEF DrainedIs
<1>7. /\ Good(h, at + 1) /\ Lost(h, at + 1) = Lost(heap, at)
      /\ at = n => \A c \in GarbageCells(h, at + 1) : c.of[1] = "entry"
  BY <1>4, <1>5, <1>6, DrainKeeps
<1>8. cmd # "EXIT" => ~refused /\ Leaks(cmd, Lost(heap, at))
  BY <1>2, <1>3 DEF ByPc, AtDrain
<1>9. CASE at = n
  <2>1. heap' = ToEnd(h) /\ at' = 0 /\ pc' = (IF cmd = "EXIT" THEN "gone" ELSE "done")
    BY <1>2, <1>4, <1>9
  <2>2. /\ Good(heap', 1) /\ heap'.garbage = <<>>
        /\ Lost(heap', 1) \subseteq Lost(h, at + 1) \cup GarbageCells(h, at + 1)
    BY <1>7, <2>1, ToEndKeeps
  <2>3. HeapOK(heap)'
    BY <2>2 DEF HeapOK, FitsPurpose, MembersIn, Good
  <2>4. TypeOK'
    BY <1>2, <1>3, <2>1, <2>2, <2>3 DEF TypeOK
  <2>5. First' = 1 /\ ~heap'.broken /\ Sound(heap', 1)
    BY <2>1, <2>2 DEF First, Good
  <2>6. cmd # "EXIT" => Leaks(cmd, Lost(heap', 1))
    BY <1>7, <1>8, <1>9, <2>2 DEF Leaks, LeakableOf
  <2>7. ByPc'
    BY <1>2, <1>3, <1>8, <2>1, <2>5, <2>6 DEF ByPc, AtIdle, AtFree, AtWrite, AtDrain, AtDone, Whole
  <2> QED
    BY <2>4, <2>5, <2>7 DEF IInv
<1>10. CASE at # n
  <2>1. heap' = h /\ at' = at + 1 /\ pc' = "drain"
    BY <1>2, <1>4, <1>10
  <2>2. at' \in DOMAIN heap'.garbage
    <3>1. h \in Heap /\ Len(h.garbage) = n + Len(es)
      BY <1>4, <1>5, <1>6, DrainedGarbage
    <3>2. Len(es) \in Nat
      BY <1>6 DEF DrainedIs, EntriesAre
    <3> QED
      BY <1>4, <1>10, <2>1, <3>1, <3>2 DEF Heap
  <2>3. HeapOK(heap)'
    <3>1. HeapOK(heap')
      BY <1>7, <2>1 DEF Good
    <3> QED
      BY <3>1 DEF HeapOK, FitsPurpose, MembersIn
  <2>4. TypeOK'
    BY <1>2, <1>3, <2>1, <2>2, <2>3 DEF TypeOK
  <2>5. First' = at + 1 /\ ~heap'.broken /\ Sound(heap', at + 1)
    BY <1>4, <1>7, <2>1 DEF First, Good
  <2>6. ByPc'
    BY <1>2, <1>3, <1>7, <1>8, <2>1, <2>5 DEF ByPc, AtIdle, AtFree, AtWrite, AtDrain, AtDone, Whole
  <2> QED
    BY <2>4, <2>5, <2>6 DEF IInv
<1> QED
  BY <1>9, <1>10

LEMMA SigKeeps ==
  ASSUME IInv, ~heap.broken, sigHandler
  PROVE  IInv'
<1>1. PICK ks, h : /\ ks \in FlushOrders /\ h = Deleted(heap, ks)
                   /\ heap' = [h EXCEPT !.broken = @ \/ at > 1]
                   /\ IF h.garbage = <<>> THEN pc' = "gone" /\ at' = 0
                      ELSE pc' = "drain" /\ at' = 1
  BY DEF sigHandler
<1>2. /\ cmd' = "EXIT" /\ args' = <<>> /\ error' = FALSE /\ reply' = {}
      /\ signalled' = (at > 1) /\ refused' = refused /\ missed' = missed
  BY DEF sigHandler
<1>3. ks \in Seq(Keys)
  BY <1>1, OwnershipAssumption
<1>4. TypeOK /\ HeapOK(heap) /\ refused \in BOOLEAN /\ missed \subseteq Keys
  BY DEF IInv, TypeOK
<1>5. at \in Nat
  <2>1. DOMAIN heap.garbage = 1..Len(heap.garbage) /\ Len(heap.garbage) \in Nat
    BY <1>4, HeapTyped
  <2> QED
    BY <1>4, <2>1 DEF TypeOK
<1>6. HeapOK(h) /\ h \in Heap
  BY <1>1, <1>3, <1>4, DeletedOK, HeapTyped
<1>7. /\ heap' \in Heap /\ heap'.table = h.table /\ heap'.garbage = h.garbage
      /\ heap'.live = h.live /\ heap'.broken = (h.broken \/ at > 1)
  BY <1>1, <1>6 DEF Heap
<1>8. HeapOK(heap')
  BY <1>6, <1>7, HeapTyped, HeapIsOK
<1>10. /\ First' = 1 /\ pc' \in {"drain", "gone"}
       /\ IF pc' = "gone" THEN at' = 0 /\ heap'.garbage = <<>>
          ELSE at' = 1 /\ 1 \in DOMAIN heap'.garbage
  <2>1. h.garbage # <<>> => 1 \in DOMAIN h.garbage
    BY <1>6, EmptySeq DEF Heap
  <2> QED
    BY <1>1, <1>7, <2>1 DEF First
<1>11. /\ ~heap'.broken => Sound(heap', 1)
       /\ heap'.broken => signalled'
  <2>1. CASE at > 1
    BY <1>2, <1>7, <2>1
  <2>2. CASE ~(at > 1)
    <3>1. First = 1
      BY <1>5, <2>2 DEF First
    <3>2. Good(heap, 1)
      BY <1>4, <3>1 DEF IInv, Good
    <3>3. Good(h, 1)
      BY <1>1, <1>3, <3>2, DeletedKeeps
    <3>4. heap' = h
      BY <1>1, <1>6, <2>2, <3>3 DEF Heap, Good
    <3> QED
      BY <3>3, <3>4 DEF Good
  <2> QED
    BY <2>1, <2>2
<1>12. TypeOK'
  <2>1. HeapOK(heap)'
    BY <1>8 DEF HeapOK, FitsPurpose, MembersIn
  <2>2. signalled' \in BOOLEAN
    BY <1>2
  <2>3. /\ args' \in Seq([str : Cell, dead : BOOLEAN])
        /\ reply' \subseteq [str : Cell, dead : BOOLEAN]
    BY <1>2
  <2>4. refused' \in BOOLEAN /\ error' \in BOOLEAN /\ cmd' # "none" /\ args' = <<>>
        /\ missed' \subseteq Keys
    BY <1>2, <1>4
  <2> QED
    BY <1>10, <2>1, <2>2, <2>3, <2>4 DEF TypeOK
<1>13. ByPc'
  BY <1>2, <1>10 DEF ByPc, AtIdle, AtFree, AtWrite, AtDrain, AtDone, Whole
<1> QED
  BY <1>10, <1>11, <1>12, <1>13 DEF IInv

(* A node freed with its key, from a table that still leads to it.         *)
LEMMA FreeNodeOK ==
  ASSUME NEW h, HeapOK(h), NEW node \in Node, FitsPurpose(node.val)
  PROVE  LET g == freeListNode(h, node)
         IN  /\ HeapOK(g) /\ g.table = h.table /\ 1 \in DOMAIN g.garbage
             /\ node.key \notin g.live /\ (node.key \notin h.live => g.broken)
<1>1. h \in Heap /\ IsFiniteSet(h.live) /\ node.val \in Value
  BY HeapTyped DEF Node
<1>2. PICK f, v : f = Freed(h, {node.key}) /\ v = node.val
  OBVIOUS
<1>3. /\ f \in Heap /\ f.table = h.table /\ f.garbage = h.garbage
      /\ f.live = h.live \ {node.key} /\ (node.key \notin h.live => f.broken)
  <2>1. /\ f \in Heap /\ f.table = h.table /\ f.garbage = h.garbage
        /\ {node.key} \subseteq h.live => f.live = h.live \ {node.key} /\ f.broken = h.broken
        /\ ~({node.key} \subseteq h.live) => f.live = h.live /\ f.broken
    BY <1>1, <1>2, FreedIs
  <2> QED
    BY <2>1
<1>4. PICK g : g = [f EXCEPT !.garbage = Append(@, v)]
  OBVIOUS
<1>5. freeListNode(h, node) = g
  BY <1>2, <1>4 DEF freeListNode, freeExoVal
<1>6. /\ Append(h.garbage, v) \in Seq(Value) /\ 1 \in DOMAIN Append(h.garbage, v)
      /\ \A j \in DOMAIN Append(h.garbage, v) :
           \/ Append(h.garbage, v)[j] = v
           \/ j \in DOMAIN h.garbage /\ Append(h.garbage, v)[j] = h.garbage[j]
  BY <1>1, <1>2 DEF Heap
<1>7. /\ g \in Heap /\ g.table = h.table /\ g.garbage = Append(h.garbage, v)
      /\ g.live = h.live \ {node.key} /\ (node.key \notin h.live => g.broken)
  BY <1>3, <1>4, <1>6 DEF Heap
<1>8. \A j \in DOMAIN g.garbage : FitsPurpose(g.garbage[j])
  <2>1. \A j \in DOMAIN h.garbage : FitsPurpose(h.garbage[j])
    BY DEF HeapOK
  <2> QED
    BY <1>2, <1>6, <1>7, <2>1
<1>9. IsFiniteSet(g.live)
  BY <1>1, <1>7, FS_Subset
<1>10. HeapOK(g)
  BY <1>7, <1>8, <1>9 DEF HeapOK, Heap
<1> QED
  BY <1>5, <1>6, <1>7, <1>10

LEMMA SigAmidKeeps ==
  ASSUME IInv, ~heap.broken, sigHandlerAmid
  PROVE  IInv'
<1>1. /\ pc' = "drain" /\ at' = 1 /\ cmd' = "EXIT" /\ args' = <<>> /\ error' = FALSE
      /\ reply' = {} /\ signalled' = TRUE /\ refused' = refused /\ missed' = missed
  BY DEF sigHandlerAmid
<1>2. TypeOK /\ HeapOK(heap) /\ refused \in BOOLEAN /\ missed \subseteq Keys
  BY DEF IInv, TypeOK
<1>3. HeapOK(heap') /\ heap'.broken /\ 1 \in DOMAIN heap'.garbage
  <2>1. ASSUME NEW k \in Keys, heap.table[k] # NULL,
               heap' = freeListNode(freeListNode(heap, heap.table[k]), heap.table[k])
        PROVE  HeapOK(heap') /\ heap'.broken /\ 1 \in DOMAIN heap'.garbage
    <3>1. PICK node, g : node = heap.table[k] /\ g = freeListNode(heap, node)
      OBVIOUS
    <3>2. node \in Node /\ FitsPurpose(node.val)
      BY <1>2, <2>1, <3>1, InTable DEF Stored
    <3>3. HeapOK(g) /\ node.key \notin g.live
      BY <1>2, <3>1, <3>2, FreeNodeOK
    <3>4. heap' = freeListNode(g, node)
      BY <2>1, <3>1
    <3> QED
      BY <3>2, <3>3, <3>4, FreeNodeOK
  <2>2. ASSUME pc = "drain", NEW cell, cell = heap.garbage[at].cell,
               heap' = Freed(Freed(heap, {cell}), {cell})
        PROVE  HeapOK(heap') /\ heap'.broken /\ 1 \in DOMAIN heap'.garbage
    <3>1. heap \in Heap /\ IsFiniteSet(heap.live) /\ DOMAIN heap.garbage = 1..Len(heap.garbage)
          /\ Len(heap.garbage) \in Nat
      BY <1>2, HeapTyped
    <3>2. at \in 1..Len(heap.garbage)
      BY <1>2, <2>2, <3>1 DEF TypeOK
    <3>3. PICK g : g = Freed(heap, {cell})
      OBVIOUS
    <3>4. /\ g \in Heap /\ g.table = heap.table /\ g.garbage = heap.garbage
          /\ {cell} \subseteq heap.live => g.live = heap.live \ {cell}
          /\ ~({cell} \subseteq heap.live) => g.live = heap.live
      BY <3>1, <3>3, FreedIs
    <3>5. cell \notin g.live /\ g.live \subseteq heap.live
      BY <3>4
    <3>6. /\ heap' \in Heap /\ heap'.table = g.table /\ heap'.garbage = g.garbage
          /\ heap'.live = g.live /\ heap'.broken
      BY <2>2, <3>3, <3>4, <3>5, FreedIs
    <3>7. IsFiniteSet(heap'.live)
      BY <3>1, <3>5, <3>6, FS_Subset
    <3>8. HeapOK(heap')
      BY <1>2, <3>4, <3>6, <3>7, HeapIsOK
    <3> QED
      BY <3>1, <3>2, <3>4, <3>6, <3>8
  <2> QED
    BY <2>1, <2>2 DEF sigHandlerAmid
<1>4. TypeOK'
  <2>1. HeapOK(heap)'
    BY <1>3 DEF HeapOK, FitsPurpose, MembersIn
  <2>2. /\ args' \in Seq([str : Cell, dead : BOOLEAN])
        /\ reply' \subseteq [str : Cell, dead : BOOLEAN]
    BY <1>1
  <2>3. refused' \in BOOLEAN /\ missed' \subseteq Keys /\ args' = <<>>
    BY <1>1, <1>2
  <2> QED
    BY <1>1, <1>3, <2>1, <2>2, <2>3 DEF TypeOK
<1>5. ByPc'
  BY <1>1 DEF ByPc, AtIdle, AtFree, AtWrite, AtDrain, AtDone, Whole
<1> QED
  BY <1>1, <1>3, <1>4, <1>5 DEF IInv

-----------------------------------------------------------------------------
(* Towers left behind                                                      *)

LEMMA WalkLeftKeeps ==
  ASSUME IInv, ~heap.broken, NEW k \in Keys, walkLeft(k)
  PROVE  IInv'
<1>1. /\ heap' = [heap EXCEPT !.broken = TRUE] /\ missed # {}
      /\ cmd' = cmd /\ args' = args /\ error' = error /\ reply' = reply /\ pc' = pc
      /\ at' = at /\ refused' = refused /\ signalled' = signalled /\ missed' = missed
  BY DEF walkLeft
<1>2. TypeOK /\ HeapOK(heap) /\ ByPc /\ heap \in Heap /\ IsFiniteSet(heap.live)
  BY HeapTyped DEF IInv, TypeOK
<1>3. /\ heap' \in Heap /\ heap'.table = heap.table /\ heap'.garbage = heap.garbage
      /\ heap'.live = heap.live /\ heap'.broken
  <2>1. PICK g : g = [heap EXCEPT !.broken = TRUE]
    OBVIOUS
  <2>2. /\ g \in Heap /\ g.table = heap.table /\ g.garbage = heap.garbage
        /\ g.live = heap.live /\ g.broken
    BY <1>2, <2>1 DEF Heap
  <2> QED
    BY <1>1, <2>1, <2>2
<1>4. HeapOK(heap')
  BY <1>2, <1>3, HeapIsOK
<1>5. TypeOK'
  <2>1. HeapOK(heap)'
    BY <1>4 DEF HeapOK, FitsPurpose, MembersIn
  <2> QED
    BY <1>1, <1>2, <1>3, <2>1 DEF TypeOK
<1>6. \A i : Lost(heap', i) = Lost(heap, i)
  BY <1>3, SameOwned DEF Lost
<1>7. ByPc'
  <2>1. AtIdle' /\ AtDrain' /\ AtDone'
    BY <1>1, <1>2, <1>6 DEF ByPc, AtIdle, AtDrain, AtDone, Whole
  <2>2. AtWrite'
    BY <1>1, <1>2, <1>3 DEF ByPc, AtWrite
  <2>3. AtFree'
    <3>1. Answered(heap, cmd, args, error, reply, refused)' = Answered(heap, cmd, args, error, reply, refused)
      BY <1>1, <1>3, <1>6 DEF Answered
    <3>2. Pointed(heap, cmd, args, error, reply, missed)' = Pointed(heap, cmd, args, error, reply, missed)
      BY <1>1, <1>3 DEF Pointed
    <3> QED
      BY <1>1, <1>2, <3>1, <3>2 DEF ByPc, AtFree, Whole
  <2> QED
    BY <1>1, <1>2, <2>1, <2>2, <2>3 DEF ByPc
<1> QED
  BY <1>1, <1>3, <1>5, <1>7 DEF IInv

-----------------------------------------------------------------------------
(* Between two requests                                                    *)

LEMMA RenamedIs ==
  ASSUME NEW c \in Cell
  PROVE  Renamed(c) \in Cell /\ Renamed(c).of = c.of
BY DEF Renamed, Cell

LEMMA RenamedEntry ==
  ASSUME NEW e \in Entry
  PROVE  /\ RenamedNode(e) \in Entry /\ RenamedNode(e).key = Renamed(e.key)
         /\ RenamedNode(e).val.cell = Renamed(e.val.cell)
<1>1. PICK val : val = [e.val EXCEPT !.cell = Renamed(@)]
  OBVIOUS
<1>2. e.key \in Cell /\ e.val \in [cell : Cell, type : {"entry"}, members : {NoMembers}]
  BY DEF Entry
<1>3. Renamed(e.key) \in Cell /\ Renamed(e.val.cell) \in Cell
  BY <1>2, RenamedIs
<1>4. /\ val \in [cell : Cell, type : {"entry"}, members : {NoMembers}]
      /\ val.cell = Renamed(e.val.cell)
  BY <1>1, <1>2, <1>3
<1>5. RenamedNode(e) = [key |-> Renamed(e.key), val |-> val]
  BY <1>1 DEF RenamedNode
<1> QED
  BY <1>3, <1>4, <1>5 DEF Entry

LEMMA SettledNodeIs ==
  ASSUME NEW k \in Keys, NEW node, NodeFor(k, node)
  PROVE  LET r == SettledNode(node)
         IN  /\ NodeFor(k, r) /\ r.key = Renamed(node.key)
             /\ CellsOf(r.val) = {Renamed(c) : c \in CellsOf(node.val)}
<1>1. PICK v, ms, r : /\ v = node.val /\ r = SettledNode(node)
                      /\ ms = [m \in Members |-> IF v.members[m] = NULL THEN NULL
                                                 ELSE RenamedNode(v.members[m])]
  OBVIOUS
<1>2. /\ node \in Node /\ node.key \in Cell /\ v \in Value /\ v.cell \in Cell
      /\ v.members \in [Members -> Entry \cup {NULL}]
      /\ node.key.of = <<"key", k>> /\ v.type # "entry"
      /\ v.cell.of[2] = k /\ FitsPurpose(v)
  BY <1>1 DEF NodeFor, Node, Value
<1>3. PICK w : w = [cell |-> Renamed(v.cell), type |-> v.type, members |-> ms]
  OBVIOUS
<1>4. r = [key |-> Renamed(node.key), val |-> w]
  <2>1. PICK u : u = [v EXCEPT !.cell = Renamed(@)]
    OBVIOUS
  <2>2. /\ u.members = v.members /\ [u EXCEPT !.members = ms] = w
    <3>1. v = [cell |-> v.cell, type |-> v.type, members |-> v.members]
      BY <1>2 DEF Value
    <3>2. u = [cell |-> Renamed(v.cell), type |-> v.type, members |-> v.members]
      BY <2>1, <3>1
    <3> QED
      BY <1>3, <3>2
  <2>3. RenamedNode(node) = [key |-> Renamed(node.key), val |-> u]
    BY <1>1, <2>1 DEF RenamedNode
  <2>4. r = [key |-> Renamed(node.key), val |-> [u EXCEPT !.members = ms]]
    BY <1>1, <2>2, <2>3 DEF SettledNode
  <2> QED
    BY <2>2, <2>4
<1>5. ASSUME NEW m \in Members
      PROVE  /\ ms[m] \in Entry \cup {NULL} /\ (ms[m] = NULL <=> v.members[m] = NULL)
             /\ v.members[m] # NULL =>
                  /\ ms[m].key = Renamed(v.members[m].key)
                  /\ ms[m].val.cell = Renamed(v.members[m].val.cell)
                  /\ v.members[m].key \in Cell /\ v.members[m].val.cell \in Cell
  <2>1. CASE v.members[m] = NULL
    BY <1>1, <2>1
  <2>2. CASE v.members[m] # NULL
    <3>1. PICK e \in Entry : e = v.members[m]
      BY <1>2, <2>2
    <3>2. ms[m] = RenamedNode(e)
      BY <1>1, <2>2, <3>1
    <3>3. e.key \in Cell /\ e.val.cell \in Cell
      BY DEF Entry
    <3>4. RenamedNode(e) # NULL
      BY RenamedEntry, OwnershipAssumption
    <3> QED
      BY <2>2, <3>1, <3>2, <3>3, <3>4, RenamedEntry
  <2> QED
    BY <2>1, <2>2
<1>6. w \in Value
  <2>1. ms \in [Members -> Entry \cup {NULL}]
    <3>1. ms = [m \in Members |-> ms[m]]
      BY <1>1
    <3> QED
      BY <1>5, <3>1
  <2>2. Renamed(v.cell) \in Cell /\ v.type \in {"string", "bitmap", "set", "entry"}
    BY <1>2, RenamedIs DEF Value
  <2> QED
    BY <1>3, <2>1, <2>2 DEF Value
<1>7. MembersIn(w) = MembersIn(v)
  BY <1>3, <1>5 DEF MembersIn
<1>8. w.cell = Renamed(v.cell) /\ w.cell.of = v.cell.of /\ w.type = v.type
  BY <1>2, <1>3, RenamedIs
<1>9. ASSUME NEW m \in MembersIn(w)
      PROVE  /\ w.members[m].key = Renamed(v.members[m].key)
             /\ w.members[m].val.cell = Renamed(v.members[m].val.cell)
             /\ w.members[m].key.of = v.members[m].key.of
             /\ w.members[m].val.cell.of = v.members[m].val.cell.of
  <2>1. m \in Members /\ v.members[m] # NULL
    BY <1>7 DEF MembersIn
  <2> QED
    BY <1>3, <1>5, <2>1, RenamedIs
<1>10. FitsPurpose(w)
  BY <1>2, <1>7, <1>8, <1>9 DEF FitsPurpose
<1>11. CellsOf(w) = {Renamed(c) : c \in CellsOf(v)}
  <2>1. {w.members[m].key : m \in MembersIn(w)} = {Renamed(c) : c \in {v.members[m].key : m \in MembersIn(v)}}
    BY <1>7, <1>9
  <2>2. {w.members[m].val.cell : m \in MembersIn(w)}
          = {Renamed(c) : c \in {v.members[m].val.cell : m \in MembersIn(v)}}
    BY <1>7, <1>9
  <2> QED
    BY <1>8, <2>1, <2>2 DEF CellsOf
<1>12. NodeFor(k, r)
  <2>1. Renamed(node.key) \in Cell /\ Renamed(node.key).of = <<"key", k>>
    BY <1>2, RenamedIs
  <2> QED
    BY <1>2, <1>4, <1>6, <1>8, <1>10, <2>1 DEF NodeFor, Node
<1> QED
  BY <1>1, <1>4, <1>11, <1>12

LEMMA SettledKeeps ==
  ASSUME NEW h, Good(h, 1), h.garbage = <<>>
  PROVE  Good(Settled(h), 1) /\ Lost(Settled(h), 1) = {} /\ Settled(h).garbage = <<>>
<1>1. HeapOK(h) /\ h \in Heap /\ IsFiniteSet(h.live) /\ ~h.broken /\ Owned(h, 1) \subseteq h.live
  BY HeapTyped DEF Good, Sound
<1>2. PICK own, live, table, g :
        /\ own = Owned(h, 1) /\ live = {Renamed(c) : c \in own}
        /\ table = [k \in Keys |-> IF h.table[k] = NULL THEN NULL ELSE SettledNode(h.table[k])]
        /\ g = Settled(h)
  OBVIOUS
<1>3. own \subseteq Cell /\ IsFiniteSet(own)
  BY <1>1, <1>2, HeapTyped, FS_Subset
<1>4. live \subseteq Cell /\ IsFiniteSet(live)
  <2>1. live \subseteq Cell
    BY <1>2, <1>3, RenamedIs
  <2>2. PICK f : f = [c \in own |-> Renamed(c)]
    OBVIOUS
  <2>3. f \in [own -> live] /\ \A x \in live : \E c \in own : f[c] = x
    BY <1>2, <2>2
  <2>4. f \in Surjection(own, live)
    BY <2>3 DEF Surjection
  <2>5. IsFiniteSet(live)
    BY <1>3, <2>4, FS_Surjection
  <2> QED
    BY <2>1, <2>5
<1>5. ASSUME NEW k \in Keys, h.table[k] # NULL
      PROVE  /\ NodeFor(k, table[k]) /\ table[k] # NULL
             /\ table[k].key = Renamed(h.table[k].key)
             /\ CellsOf(table[k].val) = {Renamed(c) : c \in CellsOf(h.table[k].val)}
  <2>1. PICK node : node = h.table[k]
    OBVIOUS
  <2>2. NodeFor(k, node)
    BY <1>1, <1>5, <2>1 DEF HeapOK, NodeFor
  <2>3. table[k] = SettledNode(node)
    BY <1>2, <1>5, <2>1
  <2>4. table[k] # NULL
    BY <2>2, <2>3, SettledNodeIs, OwnershipAssumption DEF NodeFor
  <2> QED
    BY <2>1, <2>2, <2>3, <2>4, SettledNodeIs
<1>6. \A k \in Keys : h.table[k] = NULL => table[k] = NULL
  BY <1>2
<1>7. g = [h EXCEPT !.live = live, !.table = table]
  <2>1. {Renamed(cell) : cell \in OwnedIn(h) \cap h.live} = live
    <3>1. OwnedIn(h) \cap h.live = own
      BY <1>1, <1>2, OwnedInIs
    <3> QED
      BY <1>2, <3>1
  <2> QED
    BY <1>2, <2>1 DEF Settled
<1>8. g \in Heap /\ g.table = table /\ g.live = live /\ g.garbage = <<>> /\ ~g.broken
  <2>1. table \in [Keys -> Node \cup {NULL}]
    <3>1. \A k \in Keys : table[k] \in Node \cup {NULL}
      BY <1>5, <1>6 DEF NodeFor
    <3>2. table = [k \in Keys |-> table[k]]
      BY <1>2
    <3> QED
      BY <3>1, <3>2
  <2> QED
    BY <1>1, <1>4, <1>7, <2>1 DEF Heap
<1>9. HeapOK(g)
  <2>1. \A k \in Keys : g.table[k] # NULL => NodeFor(k, g.table[k])
    BY <1>5, <1>6, <1>8
  <2>2. DOMAIN g.garbage = {}
    BY <1>8
  <2> QED
    BY <1>4, <1>8, <2>1, <2>2 DEF HeapOK, Heap, NodeFor
<1>10. Stored(g) = Stored(h)
  BY <1>5, <1>6, <1>8 DEF Stored
<1>11. GarbageCells(g, 1) = {} /\ GarbageCells(h, 1) = {} /\ GarbageApart(g, 1)
  BY <1>8 DEF GarbageCells, GarbageApart
<1>12. Owned(g, 1) = live
  <2>1. KeyCells(g) = {Renamed(c) : c \in KeyCells(h)}
    BY <1>5, <1>8, <1>10 DEF KeyCells, Stored
  <2>2. TableCells(g) = {Renamed(c) : c \in TableCells(h)}
    <3>1. \A k \in Stored(h) : CellsOf(g.table[k].val) = {Renamed(c) : c \in CellsOf(h.table[k].val)}
      BY <1>5, <1>8 DEF Stored
    <3>2. ASSUME NEW c, c \in TableCells(g)
          PROVE  \E d \in TableCells(h) : c = Renamed(d)
      <4>1. PICK k \in Stored(h) : c \in CellsOf(g.table[k].val)
        BY <1>10, <3>2 DEF TableCells
      <4>2. PICK d \in CellsOf(h.table[k].val) : c = Renamed(d)
        BY <3>1, <4>1
      <4> QED
        BY <4>2 DEF TableCells
    <3>3. ASSUME NEW d \in TableCells(h)
          PROVE  Renamed(d) \in TableCells(g)
      <4>1. PICK k \in Stored(h) : d \in CellsOf(h.table[k].val)
        BY <3>3 DEF TableCells
      <4>2. Renamed(d) \in CellsOf(g.table[k].val)
        BY <3>1, <4>1
      <4> QED
        BY <1>10, <4>2 DEF TableCells
    <3> QED
      BY <3>2, <3>3
  <2>3. own = KeyCells(h) \cup TableCells(h)
    BY <1>2, <1>11 DEF Owned
  <2> QED
    BY <1>2, <1>11, <2>1, <2>2, <2>3 DEF Owned
<1>13. Good(g, 1) /\ Lost(g, 1) = {}
  BY <1>8, <1>9, <1>11, <1>12 DEF Good, Sound, Lost
<1> QED
  BY <1>2, <1>8, <1>13

LEMMA DoneKeeps ==
  ASSUME IInv, ~heap.broken, done
  PROVE  IInv'
<1>1. /\ pc = "done" /\ pc' = "idle" /\ heap' = Settled(heap) /\ cmd' = "none"
      /\ UNCHANGED <<args, error, reply, at, refused, signalled>> /\ missed' \subseteq missed
  BY DEF done
<1>2. /\ TypeOK /\ at = 0 /\ First = 1 /\ args = <<>> /\ heap.garbage = <<>>
      /\ ~heap.broken /\ ~refused /\ reply = {}
  BY <1>1 DEF IInv, TypeOK, ByPc, AtDone, First
<1>3. Good(heap, 1)
  BY <1>2 DEF IInv, TypeOK, Good
<1>4. Good(heap', 1) /\ Lost(heap', 1) = {} /\ heap'.garbage = <<>>
  BY <1>1, <1>2, <1>3, SettledKeeps
<1>5. TypeOK'
  <2>1. HeapOK(heap)'
    BY <1>4 DEF HeapOK, FitsPurpose, MembersIn, Good
  <2> QED
    BY <1>1, <1>2, <2>1 DEF TypeOK
<1>6. First' = 1 /\ ~heap'.broken /\ Sound(heap', 1)
  BY <1>1, <1>2, <1>4 DEF First, Good
<1>7. ByPc'
  BY <1>1, <1>2, <1>4, <1>6 DEF ByPc, AtIdle, AtFree, AtWrite, AtDrain, AtDone, Whole
<1> QED
  BY <1>5, <1>6, <1>7 DEF IInv

-----------------------------------------------------------------------------
(* The invariant is inductive                                              *)

LEMMA InitIInv ==
  ASSUME Init
  PROVE  IInv
<1>1. PICK table : table = [k \in Keys |-> NULL] /\ heap.table = table
  BY DEF Init
<1>2. /\ heap = [table |-> table, live |-> {}, garbage |-> <<>>, broken |-> FALSE]
      /\ \A k \in Keys : table[k] = NULL
  BY <1>1 DEF Init
<1>3. HeapOK(heap)
  <2>1. <<>> \in Seq(Value) /\ IsFiniteSet({}) /\ DOMAIN <<>> = {}
    BY FS_EmptySet
  <2>2. table \in [Keys -> Node \cup {NULL}]
    BY <1>1
  <2> QED
    BY <1>2, <2>1, <2>2 DEF HeapOK
<1>4. TypeOK
  <2>1. args \in Seq([str : Cell, dead : BOOLEAN]) /\ reply \subseteq [str : Cell, dead : BOOLEAN]
    BY DEF Init
  <2> QED
    BY <1>2, <1>3, <2>1 DEF TypeOK, Init
<1>5. Stored(heap) = {} /\ GarbageCells(heap, 1) = {} /\ GarbageApart(heap, 1)
  BY <1>2 DEF Stored, GarbageCells, GarbageApart
<1>6. Owned(heap, 1) = {} /\ TableCells(heap) = {}
  BY <1>5 DEF Owned, KeyCells, TableCells
<1>7. First = 1 /\ Sound(heap, 1) /\ Lost(heap, 1) = {} /\ ~heap.broken
  <2>1. heap.live = {} /\ ~heap.broken
    BY <1>2
  <2>2. Sound(heap, 1) /\ Lost(heap, 1) = {}
    BY <1>5, <1>6, <2>1 DEF Sound, Lost
  <2>3. First = 1
    BY DEF Init, First
  <2> QED
    BY <2>1, <2>2, <2>3
<1>8. ByPc
  BY <1>7 DEF Init, ByPc, AtIdle, AtFree, AtWrite, AtDrain, AtDone, Whole
<1> QED
  BY <1>4, <1>7, <1>8 DEF IInv

LEMMA NextIInv ==
  ASSUME IInv, Next
  PROVE  IInv'
<1>1. ~heap.broken
  BY DEF Next
<1>2. CASE pingCommand
  BY <1>1, <1>2, PingKeeps
<1>3. CASE flushCommand
  BY <1>1, <1>3, FlushKeeps
<1>4. ASSUME NEW k \in Keys, getCommand(k)
      PROVE  IInv'
  BY <1>1, <1>4, GetKeeps
<1>5. ASSUME NEW k \in Keys, setbitCommand(k)
      PROVE  IInv'
  BY <1>1, <1>5, SetbitKeeps
<1>6. ASSUME NEW k \in Keys, zrangeCommand(k)
      PROVE  IInv'
  BY <1>1, <1>6, ZrangeKeeps
<1>7. ASSUME NEW k \in Keys, NEW sw \in SUBSET {"NX", "XX"}, setCommand(k, sw)
      PROVE  IInv'
  BY <1>1, <1>7, SetCommandKeeps
<1>8. ASSUME NEW k \in Keys, NEW sw \in SUBSET {"NX", "XX", "INCR"}, NEW ms \in MemberLists,
             NEW fault \in {"none", "few", "odd", "float"}, zaddCommand(k, sw, ms, fault)
      PROVE  IInv'
  BY <1>1, <1>8, ZaddCommandKeeps
<1>9. ASSUME NEW k \in Keys, loadHashMapEntry(k) \/ loadBitmapEntry(k)
      PROVE  IInv'
  BY <1>1, <1>9, LoadHashMapKeeps
<1>10. ASSUME NEW k \in Keys, NEW m \in Members, NEW fault \in {"none", "float"},
              loadSkiplistEntry(k, m, fault)
       PROVE  IInv'
  BY <1>1, <1>10, LoadSkiplistKeeps
<1>11. ASSUME NEW ks \in DelLists, delCommand(ks)
       PROVE  IInv'
  BY <1>1, <1>11, DelCommandKeeps
<1>12. CASE commandDispatcher
  BY <1>1, <1>12, DispatchKeeps
<1>13. CASE writeToBuffer
  BY <1>1, <1>13, WriteKeeps
<1>14. CASE freeGarbage
  BY <1>1, <1>14, FreeGarbageKeeps
<1>15. CASE done
  BY <1>1, <1>15, DoneKeeps
<1>16. CASE sigHandler
  BY <1>1, <1>16, SigKeeps
<1>17. CASE sigHandlerAmid
  BY <1>1, <1>17, SigAmidKeeps
<1>18. ASSUME NEW k \in Keys, walkLeft(k)
       PROVE  IInv'
  BY <1>1, <1>18, WalkLeftKeeps
<1> QED
  BY <1>2, <1>3, <1>4, <1>5, <1>6, <1>7, <1>8, <1>9, <1>10, <1>11, <1>12, <1>13, <1>14, <1>15,
     <1>16, <1>17, <1>18 DEF Next

LEMMA StutterIInv ==
  ASSUME IInv, UNCHANGED vars
  PROVE  IInv'
<1>1. /\ heap' = heap /\ cmd' = cmd /\ args' = args /\ error' = error /\ reply' = reply
      /\ pc' = pc /\ at' = at /\ refused' = refused /\ signalled' = signalled /\ missed' = missed
  BY DEF vars
<1>2. TypeOK'
  <2>1. HeapOK(heap)'
    <3>1. HeapOK(heap')
      BY <1>1 DEF IInv, TypeOK
    <3> QED
      BY <3>1 DEF HeapOK, FitsPurpose, MembersIn
  <2> QED
    BY <1>1, <2>1 DEF IInv, TypeOK
<1>3. Sound(heap, First)' = Sound(heap, First)
  BY <1>1 DEF First
<1>4. ByPc'
  BY <1>1 DEF IInv, ByPc, AtIdle, AtFree, AtWrite, AtDrain, AtDone, Whole
<1> QED
  BY <1>1, <1>2, <1>3, <1>4 DEF IInv

(* From one request to the next: what an owner has is its alone and live,  *)
(* and what no owner has is an argument, a reply's or leaked for good.     *)
THEOREM InductiveInvariant == Spec => []IInv
<1>1. Init => IInv
  BY InitIInv
<1>2. IInv /\ [Next]_vars => IInv'
  BY NextIInv, StutterIInv
<1> QED
  BY <1>1, <1>2, PTL DEF Spec

-----------------------------------------------------------------------------
(* What follows from it                                                    *)

(* Memory is used for what it was allocated for, and freeGarbage stays in  *)
(* its list whatever the table deletes meanwhile.                          *)
THEOREM TypeCorrect == Spec => []TypeOK
<1>1. IInv => TypeOK
  BY DEF IInv
<1> QED
  BY <1>1, InductiveInvariant, PTL

LEMMA IInvOwnedOnce == IInv => OwnedOnce
<1> SUFFICES ASSUME IInv, ~heap.broken, ~heap.broken
             PROVE  /\ {CellOf(heap, slot) : slot \in Slots(heap, First)} \subseteq heap.live
                    /\ Cardinality({CellOf(heap, slot) : slot \in Slots(heap, First)})
                         = Cardinality(Slots(heap, First))
  BY DEF OwnedOnce, First
<1>1. First \in Nat \ {0}
  <2>1. at = 0 \/ at \in DOMAIN heap.garbage
    BY DEF IInv, TypeOK
  <2>2. DOMAIN heap.garbage = 1..Len(heap.garbage) /\ Len(heap.garbage) \in Nat
    BY HeapTyped DEF IInv, TypeOK
  <2> QED
    BY <2>1, <2>2 DEF First
<1>2. Good(heap, First) /\ HeapOK(heap)
  BY DEF IInv, TypeOK, Good
<1>3. {CellOf(heap, s) : s \in Slots(heap, First)} = Owned(heap, First)
  BY <1>1, <1>2, SlotsOwn
<1> QED
  BY <1>1, <1>2, <1>3, OneCellEach DEF Good, Sound

(* No two owners have one cell and all they have is live, from a request's *)
(* arguments to the garbage its commands leave (linkedlist.c, utilities.c, *)
(* redisserver.c).                                                         *)
THEOREM OwnersAreApart == Spec => []OwnedOnce
BY InductiveInvariant, IInvOwnedOnce, PTL

(* Nothing is freed twice unless a ZADD was refused that had made its set, *)
(* SIGINT came amid freeGarbage or FLUSHALL, or an update of a tied member *)
(* left a tower behind in a sorted set that is still there.                *)
THEOREM FreedTwiceOnlyThen == Spec => []BrokenOnlyByThese
<1>1. IInv => BrokenOnlyByThese
  BY DEF IInv, BrokenOnlyByThese
<1> QED
  BY <1>1, InductiveInvariant, PTL

(* What a reply points to is still there when it is written: its arguments *)
(* have been freed, and none of them is in it (writeRespArrayToBuffer);    *)
(* only ZRANGE's may have the freed key of a tower left behind.            *)
THEOREM RepliesAreAlive == Spec => []RepliesAlive
<1>1. IInv => RepliesAlive
  BY DEF IInv, ByPc, AtWrite, RepliesAlive, StrsOf
<1> QED
  BY <1>1, InductiveInvariant, PTL

LEMMA IInvLostOnly == IInv => LostOnly
<1> SUFFICES ASSUME IInv, pc = "done"
             PROVE  \A cell \in heap.live \ OwnedIn(heap) : cell.of[1] \in Leakable
  BY DEF LostOnly
<1>1. OwnedIn(heap) = Owned(heap, 1)
  BY OwnedInIs DEF IInv, TypeOK
<1>2. Leaks(cmd, Lost(heap, 1))
  BY DEF IInv, ByPc, AtDone
<1>3. Leakable = LeakableOf(cmd)
  BY DEF Leakable, LeakableOf
<1> QED
  BY <1>1, <1>2, <1>3 DEF Leaks, Lost

(* A request leaks the arguments that SET and ZADD neither keep nor mark   *)
(* dead, and the entries of the last sorted set in the garbage, no more.   *)
THEOREM OnlyTheseAreLost == Spec => []LostOnly
BY InductiveInvariant, IInvLostOnly, PTL
=============================================================================
