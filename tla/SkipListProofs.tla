--------------------------- MODULE SkipListProofs ---------------------------
(***************************************************************************)
(* What SkipList keeps for any number of members, levels and heights.      *)
(*                                                                         *)
(* The types, and what holds of the links whatever the scores: no link     *)
(* leads to a freed tower until something is left dangling.  The types rest*)
(* on it: what ZRANGE collects are members only because no walk ends on a  *)
(* freed tower.                                                            *)
(*                                                                         *)
(* Then what holds while no two members have had one score: the spans are  *)
(* distances, the members are in the order of their scores, and no search  *)
(* misses what it looks for.  The invariant says of every node which node  *)
(* its link and its span lead to, by their positions in the order, and of  *)
(* a search under way that the path behind it is the one to the place it   *)
(* looks for.                                                              *)
(***************************************************************************)
EXTENDS SkipList, SequenceTheorems, TLAPS

-----------------------------------------------------------------------------
(* The types, part by part                                                 *)

ListTypeOK ==
  /\ tower \in [Towers -> Tower \cup {NULL}]
  /\ next \in [Levels -> [Nodes -> Towers \cup {NULL}]]
  /\ span \in [Levels -> [Nodes -> Int]]
  /\ levels \in Levels /\ size \in Int
  /\ table \in [Members -> Towers \cup {NULL}]
  /\ order \in Seq(Towers)
  /\ tied \in BOOLEAN /\ dangling \in BOOLEAN

WalkTypeOK ==
  /\ lvl \in Levels /\ at \in Nodes \cup {NULL}
  /\ dirty \in [Levels -> Nodes] /\ children \in [Levels -> Int]
  /\ acc \in Int

CallTypeOK ==
  /\ pc \in {"idle", "refuse", "card", "drop", "pair", "remove", "insert", "min", "max",
             "rank", "emit", "undefined"}
  /\ op \in Requests \cup {NULL}
  /\ todo \in Seq(Pairs)
  /\ old \in Int \cup {NULL}
  /\ low \in Int
  /\ out \in Seq(Members)
  /\ added \in Nat /\ changed \in Nat
  /\ reply \in Replies

LEMMA TypeParts == TypeOK <=> ListTypeOK /\ WalkTypeOK /\ CallTypeOK
BY DEF TypeOK, ListTypeOK, WalkTypeOK, CallTypeOK

-----------------------------------------------------------------------------
(* The invariant                                                           *)

Searches == {"remove", "insert", "min", "max", "rank"}

(* x has a node at level i.                                                *)
HasLevel(x, i) == x = HEAD \/ (x \in Towers /\ tower[x] # NULL /\ tower[x].height >= i)

(* Which request each step serves; INCR stores its one pair, or nothing.   *)
Calling ==
  /\ IF pc = "idle" THEN added = 0 /\ changed = 0 ELSE op # NULL
  /\ pc \in {"pair", "remove", "insert"} => op \in ZaddRequests \cup IncrRequests
  /\ pc \in {"remove", "insert"} => todo # <<>>
  /\ pc = "remove" => old # NULL
  /\ pc = "rank" => op \in ZrangeRequests
  /\ pc \in {"pair", "remove", "insert"} /\ op.cmd = "INCR" =>
       IF todo = <<>> THEN added + changed # 0 => table[op.pairs[1].member] # NULL
       ELSE todo = op.pairs /\ added = 0 /\ changed = 0

(* The table leads to a tower of its member.                               *)
Owned ==
  \A m \in Members : table[m] # NULL => tower[table[m]] # NULL /\ tower[table[m]].member = m

(* Each tower is the one of its member and stands in the order once; on    *)
(* each level it has at most one node before it, and is there to lead to.  *)
Chained ==
  /\ \A t \in Towers : tower[t] # NULL => table[tower[t].member] = t
  /\ \A i \in Levels, x \in Nodes :
       next[i][x] # NULL => HasLevel(next[i][x], i) /\ HasLevel(x, i)
  /\ \A i \in Levels, x, y \in Nodes : next[i][x] # NULL /\ next[i][x] = next[i][y] => x = y
  /\ \A a, b \in DOMAIN order : order[a] = order[b] => a = b
  /\ \A t \in Towers : tower[t] # NULL <=> \E a \in DOMAIN order : order[a] = t

(* Where a walk stands there is a node, and where it went down there was.  *)
Standing ==
  /\ pc \in {"idle", "pair"} => at = HEAD /\ acc = 0
  /\ pc \in Searches => at # NULL /\ HasLevel(at, lvl)
  /\ pc \in Searches => \A j \in Levels : HasLevel(dirty[j], j)
  /\ pc = "emit" => (at = HEAD => acc <= 0) /\ (at # NULL => HasLevel(at, 0))
  /\ pc \in Searches \cup {"emit"} => ~dangling

Sane == Calling /\ Owned /\ (~dangling => Chained) /\ Standing

-----------------------------------------------------------------------------
(* Requests and replies                                                    *)

LEMMA LevelsFacts ==
  /\ Levels \subseteq Nat /\ 0 \in Levels
  /\ \A i \in Levels : \A j \in 0..i : j \in Levels
  /\ \A i \in Levels : i # 0 => i - 1 \in Levels
BY SkipListAssumption DEF Levels

LEMMA Single ==
  ASSUME NEW s \in Seq(Pairs), Len(s) = 1
  PROVE  s # <<>> /\ Tail(s) = <<>> /\ Head(s) = s[1]
<1>1. s # <<>> /\ Head(s) = s[1]
  OBVIOUS
<1>2. Tail(s) \in Seq(Pairs) /\ Len(Tail(s)) = 0
  BY <1>1, HeadTailProperties
<1> QED
  BY <1>1, <1>2, EmptySeq

LEMMA OnePair ==
  ASSUME NEW s \in [1..1 -> Pairs]
  PROVE  s \in Seq(Pairs) /\ Len(s) = 1 /\ s[1] \in Pairs
<1>1. PICK n \in Nat : n = 1
  OBVIOUS
<1>2. s \in [1..n -> Pairs]
  BY <1>1
<1>3. s \in Seq(Pairs) /\ Len(s) = n
  BY <1>2
<1>4. 1 \in 1..n
  BY <1>1
<1>5. s[1] \in Pairs
  BY <1>2, <1>4
<1> QED
  BY <1>1, <1>3, <1>5

LEMMA PairListType ==
  ASSUME NEW s \in PairLists
  PROVE  s \in Seq(Pairs) /\ s # <<>>
<1>1. PICK n \in 1..MaxPairs : s \in [1..n -> Pairs]
  BY DEF PairLists
<1>2. s \in Seq(Pairs) /\ Len(s) = n
  BY <1>1, ZsetApiAssumption
<1> QED
  BY <1>2, ZsetApiAssumption

LEMMA RequestKinds ==
  ASSUME NEW r \in Requests
  PROVE  /\ r \in ZaddRequests <=> r.cmd = "ZADD"
         /\ r \in IncrRequests <=> r.cmd = "INCR"
         /\ r \in ZcountRequests <=> r.cmd = "ZCOUNT"
         /\ r \in ZrangeRequests <=> r.cmd = "ZRANGE"
         /\ r \in PlainRequests <=> r.cmd \in {"ZCARD", "MALFORMED", "DROP"}
         /\ r # NULL
BY SkipListAssumption DEF Requests, ZaddRequests, IncrRequests, ZcountRequests, ZrangeRequests,
   PlainRequests

LEMMA ZaddPairs ==
  ASSUME NEW r \in ZaddRequests \cup IncrRequests
  PROVE  /\ r \in Requests /\ r.pairs \in Seq(Pairs) /\ r.pairs # <<>>
         /\ r.cmd \in {"ZADD", "INCR"}
         /\ r.cmd = "INCR" => Len(r.pairs) = 1 /\ Tail(r.pairs) = <<>>
                              /\ r.pairs[1] \in Pairs /\ Head(r.pairs) = r.pairs[1]
<1>1. r \in Requests /\ r.cmd \in {"ZADD", "INCR"}
  BY DEF Requests, ZaddRequests, IncrRequests
<1>2. CASE r \in ZaddRequests
  BY <1>1, <1>2, PairListType DEF ZaddRequests
<1>3. CASE r \in IncrRequests
  BY <1>1, <1>3, OnePair, Single DEF IncrRequests
<1> QED
  BY <1>2, <1>3

LEMMA ReplyTypes ==
  /\ NoReply \in Replies /\ Null \in Replies /\ Error \in Replies /\ Done \in Replies
  /\ \A n \in Int : Integer(n) \in Replies
  /\ \A s \in Int : Bulk(s) \in Replies
  /\ \A s \in Seq(Members) : Array(s) \in Replies
BY DEF Replies, NoReply, Null, Error, Done, Integer, Bulk, Array

LEMMA AnswerType ==
  ASSUME NEW r \in Replies, Answer(r)
  PROVE  CallTypeOK' /\ WalkTypeOK' /\ Calling' /\ Standing'
<1>1. CallTypeOK' /\ Calling'
  BY DEF Answer, CallTypeOK, Calling
<1>2. WalkTypeOK' /\ Standing'
  BY LevelsFacts DEF Answer, StopSearch, WalkTypeOK, Standing, Nodes, Searches
<1> QED
  BY <1>1, <1>2

LEMMA SearchType ==
  ASSUME levels \in Levels, NEW what \in Searches, NEW start \in Int, Search(what, start),
         ~dangling'
  PROVE  WalkTypeOK' /\ Standing'
<1>1. WalkTypeOK'
  BY LevelsFacts DEF Search, WalkTypeOK, Nodes
<1>2. Standing'
  BY <1>1, SkipListAssumption DEF Search, Standing, Searches, HasLevel, Nodes, WalkTypeOK
<1> QED
  BY <1>1, <1>2

-----------------------------------------------------------------------------
(* The order                                                               *)

OneToOne(s) == \A a, b \in DOMAIN s : s[a] = s[b] => a = b

LEMMA WithoutAt ==
  ASSUME NEW s \in Seq(Towers), OneToOne(s), NEW p \in 1..Len(s), NEW w, w = Without(s, s[p])
  PROVE  /\ w \in Seq(Towers) /\ Len(w) = Len(s) - 1
         /\ \A j \in 1..(Len(s) - 1) : w[j] = IF j < p THEN s[j] ELSE s[j + 1]
<1>1. Len(s) \in Nat /\ DOMAIN s = 1..Len(s)
  OBVIOUS
<1>2. (CHOOSE j \in DOMAIN s : s[j] = s[p]) = p
  BY <1>1 DEF OneToOne
<1>3. w = [j \in 1..(Len(s) - 1) |-> IF j < p THEN s[j] ELSE s[j + 1]]
  BY <1>2 DEF Without
<1>4. Len(s) - 1 \in Nat
  BY <1>1
<1>5. w \in [1..(Len(s) - 1) -> Towers]
  BY <1>1, <1>3
<1>6. w \in Seq(Towers) /\ Len(w) = Len(s) - 1
  BY <1>4, <1>5
<1> QED
  BY <1>3, <1>6

(* t goes behind the node at, which stands at p, or at 0 when it is HEAD.  *)
LEMMA InsertedAt ==
  ASSUME order \in Seq(Towers), OneToOne(order), NEW p \in 0..Len(order), NEW t \in Towers,
         at = IF p = 0 THEN HEAD ELSE order[p],
         order' = InsertedAfter(order, at, t)
  PROVE  /\ order' \in Seq(Towers) /\ Len(order') = Len(order) + 1
         /\ \A j \in 1..(Len(order) + 1) :
              order'[j] = IF j <= p THEN order[j] ELSE IF j = p + 1 THEN t ELSE order[j - 1]
<1>1. Len(order) \in Nat /\ DOMAIN order = 1..Len(order) /\ Len(order) + 1 \in Nat
  OBVIOUS
<1>2. (IF at = HEAD THEN 0 ELSE CHOOSE j \in DOMAIN order : order[j] = at) = p
  <2>1. CASE p = 0
    BY <2>1
  <2>2. CASE p # 0
    <3>1. p \in DOMAIN order /\ at = order[p] /\ order[p] \in Towers
      BY <1>1, <2>2
    <3>2. at # HEAD
      BY <3>1, SkipListAssumption
    <3>3. (CHOOSE j \in DOMAIN order : order[j] = at) = p
      BY <3>1 DEF OneToOne
    <3> QED
      BY <3>2, <3>3
  <2> QED
    BY <2>1, <2>2
<1>3. order' = [j \in 1..(Len(order) + 1) |->
             IF j <= p THEN order[j] ELSE IF j = p + 1 THEN t ELSE order[j - 1]]
  BY <1>2 DEF InsertedAfter
<1>4. order' \in [1..(Len(order) + 1) -> Towers]
  <2> SUFFICES ASSUME NEW j \in 1..(Len(order) + 1)
               PROVE  (IF j <= p THEN order[j] ELSE IF j = p + 1 THEN t ELSE order[j - 1]) \in Towers
    BY <1>3
  <2>1. CASE j <= p
    BY <1>1, <2>1
  <2>2. CASE j > p + 1
    <3>1. j - 1 \in DOMAIN order
      BY <1>1, <2>2
    <3> QED
      BY <2>2, <3>1
  <2> QED
    BY <2>1, <2>2, <1>1
<1>5. order' \in Seq(Towers) /\ Len(order') = Len(order) + 1
  BY <1>1, <1>4
<1> QED
  BY <1>3, <1>5

(* A function written at two places, one after the other.                  *)
LEMMA TwoWrites ==
  ASSUME NEW S, NEW R, NEW f \in [S -> R], NEW a \in S, NEW b \in S, NEW v \in R, NEW w \in R
  PROVE  /\ [f EXCEPT ![a] = v, ![b] = w] \in [S -> R]
         /\ \A x \in S : [f EXCEPT ![a] = v, ![b] = w][x]
                           = IF x = b THEN w ELSE IF x = a THEN v ELSE f[x]
OBVIOUS

-----------------------------------------------------------------------------
(* unlink                                                                  *)

LEMMA PathType ==
  ASSUME TypeOK, at # NULL
  PROVE  Path \in [Levels -> Nodes] /\ Path[0] = at /\ \A i \in Levels : i # 0 => Path[i] = dirty[i]
<1>1. at \in Nodes /\ dirty \in [Levels -> Nodes]
  BY DEF TypeOK
<1> QED
  BY <1>1, LevelsFacts DEF Path

(* The path of a search that has ended has a node at each level.           *)
LEMMA PathHasLevels ==
  ASSUME TypeOK, Standing, pc \in Searches, lvl = 0
  PROVE  /\ Path \in [Levels -> Nodes]
         /\ \A i \in Levels : HasLevel(Path[i], i)
<1>1. at # NULL /\ HasLevel(at, 0) /\ \A j \in Levels : HasLevel(dirty[j], j)
  BY DEF Standing
<1> QED
  BY <1>1, PathType

(* The tower unlink takes out is the one of the member, and the node on    *)
(* the path leads to it on each of its levels.                             *)
LEMMA UnlinkTarget ==
  ASSUME TypeOK, Sane, unlink
  PROVE  /\ Chained /\ ~dangling /\ pc = "remove" /\ todo # <<>>
         /\ Member \in Members
         /\ Target \in Towers /\ tower[Target] # NULL /\ tower[Target].member = Member
         /\ table[Member] = Target
         /\ tower[Target].height \in Levels
         /\ Path \in [Levels -> Nodes]
         /\ \A i \in 0..tower[Target].height : i \in Levels /\ next[i][Path[i]] = Target
<1>1. /\ pc = "remove" /\ lvl = 0 /\ Hit /\ Meets = 0..tower[Target].height
      /\ todo # <<>> /\ ~dangling /\ Chained
  BY DEF unlink, Ended, Sane, Calling, Standing, Searches
<1>2. /\ Path \in [Levels -> Nodes] /\ at \in Nodes
      /\ 0 \in Levels
  BY <1>1, PathHasLevels, LevelsFacts DEF Sane, Searches, Standing, TypeOK
<1>3. Target \in Towers /\ tower[Target] # NULL
  BY <1>1, <1>2, SkipListAssumption DEF Hit, Target, TypeOK, Chained, HasLevel
<1>4. tower[Target] \in Tower /\ tower[Target].member = Member
  BY <1>1, <1>3, SkipListAssumption DEF Hit, KeyOf, TypeOK
<1>5. Member \in Members /\ tower[Target].height \in Levels
  BY <1>4 DEF Tower
<1>6. table[Member] = Target
  BY <1>1, <1>3, <1>4 DEF Chained
<1>7. ASSUME NEW i \in 0..tower[Target].height
      PROVE  i \in Levels /\ next[i][Path[i]] = Target
  <2>1. i \in Levels
    BY <1>5, LevelsFacts
  <2>2. next[i][Path[i]] # NULL /\ KeyOf(next[i][Path[i]]) = Member
    BY <1>1 DEF Meets
  <2>3. next[i][Path[i]] \in Towers /\ tower[next[i][Path[i]]] # NULL
    BY <1>1, <1>2, <2>1, <2>2, SkipListAssumption DEF TypeOK, Chained, HasLevel
  <2>4. tower[next[i][Path[i]]].member = Member
    BY <2>2, <2>3, SkipListAssumption DEF KeyOf
  <2> QED
    BY <1>1, <1>6, <2>1, <2>3, <2>4 DEF Chained
<1> QED
  BY <1>1, <1>2, <1>3, <1>4, <1>5, <1>6, <1>7

(* What unlink writes, node by node.                                       *)
LEMMA UnlinkLinks ==
  ASSUME TypeOK, Sane, unlink
  PROVE  LET T == Target
             h == tower[T].height
         IN /\ next' \in [Levels -> [Nodes -> Towers \cup {NULL}]]
            /\ \A i \in Levels : i > h => next'[i] = next[i]
            /\ \A i \in 0..h, x \in Nodes :
                 next'[i][x] = IF x = T THEN NULL
                               ELSE IF x = Path[i] THEN next[i][T] ELSE next[i][x]
            /\ tower' = [tower EXCEPT ![T] = NULL]
            /\ table' = [table EXCEPT ![Member] = NULL]
<1> DEFINE T == Target
           h == tower[T].height
<1>1. /\ T \in Towers /\ h \in Levels /\ Path \in [Levels -> Nodes]
      /\ \A i \in 0..h : i \in Levels
  BY UnlinkTarget
<1>2. T \in Nodes /\ \A i \in Levels : next[i] \in [Nodes -> Towers \cup {NULL}]
  BY <1>1 DEF TypeOK, Nodes
<1>3. /\ next' = [i \in Levels |->
                   IF i > h THEN next[i]
                   ELSE [next[i] EXCEPT ![Path[i]] = next[i][T], ![T] = NULL]]
      /\ tower' = [tower EXCEPT ![T] = NULL]
      /\ table' = [table EXCEPT ![Member] = NULL]
  BY DEF unlink, Bypassed
<1> HIDE DEF T, h
<1>4. \A i \in Levels : i > h => next'[i] = next[i]
  BY <1>3
<1>5. ASSUME NEW i \in 0..h
      PROVE  /\ next'[i] \in [Nodes -> Towers \cup {NULL}]
             /\ \A x \in Nodes :
                  next'[i][x] = IF x = T THEN NULL
                                ELSE IF x = Path[i] THEN next[i][T] ELSE next[i][x]
  <2>1. i \in Levels /\ ~(i > h) /\ Path[i] \in Nodes
    BY <1>1, LevelsFacts
  <2>2. next'[i] = [next[i] EXCEPT ![Path[i]] = next[i][T], ![T] = NULL]
    BY <1>3, <2>1
  <2> QED
    BY <1>2, <2>1, <2>2
<1>6. next' \in [Levels -> [Nodes -> Towers \cup {NULL}]]
  <2>1. \A i \in Levels : i > h \/ i \in 0..h
    BY <1>1, LevelsFacts
  <2>2. \A i \in Levels : next'[i] \in [Nodes -> Towers \cup {NULL}]
    BY <1>2, <1>4, <1>5, <2>1
  <2> QED
    BY <1>3, <2>2
<1> QED
  BY <1>3, <1>4, <1>5, <1>6 DEF T, h

LEMMA UnlinkOrder ==
  ASSUME TypeOK, Sane, unlink
  PROVE  \E p \in 1..Len(order) :
           /\ order[p] = Target
           /\ order' \in Seq(Towers) /\ Len(order') = Len(order) - 1
           /\ \A j \in 1..(Len(order) - 1) : order'[j] = IF j < p THEN order[j] ELSE order[j + 1]
<1>1. Chained /\ Target \in Towers /\ tower[Target] # NULL
  BY UnlinkTarget
<1>2. order \in Seq(Towers) /\ OneToOne(order) /\ order' = Without(order, Target)
  BY <1>1 DEF TypeOK, Chained, OneToOne, unlink
<1>3. PICK p \in 1..Len(order) : order[p] = Target
  BY <1>1, <1>2 DEF Chained
<1> QED
  BY <1>2, <1>3, WithoutAt

LEMMA UnlinkSane ==
  ASSUME TypeOK, Sane, unlink
  PROVE  ListTypeOK' /\ Owned' /\ Chained'
<1> DEFINE T == Target
           h == tower[T].height
<1>1. /\ Chained /\ Owned /\ Member \in Members
      /\ T \in Towers /\ tower[T] # NULL /\ tower[T].member = Member /\ table[Member] = T
      /\ h \in Levels /\ Path \in [Levels -> Nodes]
      /\ \A i \in 0..h : i \in Levels /\ next[i][Path[i]] = T
  BY UnlinkTarget DEF Sane
<1>2. /\ next' \in [Levels -> [Nodes -> Towers \cup {NULL}]]
      /\ \A i \in Levels : i > h => next'[i] = next[i]
      /\ \A i \in 0..h, x \in Nodes :
           next'[i][x] = IF x = T THEN NULL
                         ELSE IF x = Path[i] THEN next[i][T] ELSE next[i][x]
      /\ tower' = [tower EXCEPT ![T] = NULL]
      /\ table' = [table EXCEPT ![Member] = NULL]
  BY UnlinkLinks
<1>3. PICK p \in 1..Len(order) :
        /\ order[p] = T
        /\ order' \in Seq(Towers) /\ Len(order') = Len(order) - 1
        /\ \A j \in 1..(Len(order) - 1) : order'[j] = IF j < p THEN order[j] ELSE order[j + 1]
  BY UnlinkOrder
<1> HIDE DEF T, h
<1>4. span' \in [Levels -> [Nodes -> Int]]
  <2>1. T \in Nodes /\ span \in [Levels -> [Nodes -> Int]]
    BY <1>1 DEF TypeOK, Nodes
  <2>2. span' = [i \in Levels |->
          IF i > levels THEN span[i]
          ELSE IF i > h THEN [span[i] EXCEPT ![Path[i]] = @ - 1]
          ELSE [span[i] EXCEPT ![Path[i]] = @ + span[i][T] - 1, ![T] = 0]]
    BY DEF unlink, Narrowed, T, h
  <2>3. ASSUME NEW i \in Levels PROVE span'[i] \in [Nodes -> Int]
    <3>1. span[i] \in [Nodes -> Int] /\ Path[i] \in Nodes
      BY <1>1, <2>1
    <3>2. span[i][Path[i]] \in Int /\ span[i][T] \in Int
      BY <2>1, <3>1
    <3>3. \/ span'[i] = span[i]
          \/ span'[i] = [span[i] EXCEPT ![Path[i]] = @ - 1]
          \/ span'[i] = [span[i] EXCEPT ![Path[i]] = @ + span[i][T] - 1, ![T] = 0]
      BY <2>2
    <3>4. CASE span'[i] = [span[i] EXCEPT ![Path[i]] = @ - 1]
      BY <3>1, <3>2, <3>4
    <3>5. CASE span'[i] = [span[i] EXCEPT ![Path[i]] = @ + span[i][T] - 1, ![T] = 0]
      BY <2>1, <3>1, <3>2, <3>5, TwoWrites
    <3> QED
      BY <3>1, <3>3, <3>4, <3>5
  <2> QED
    BY <2>2, <2>3
<1>5. ListTypeOK'
  <2>1. UNCHANGED <<levels, tied, dangling>> /\ size' = size - 1
    BY DEF unlink
  <2>2. tower' \in [Towers -> Tower \cup {NULL}] /\ table' \in [Members -> Towers \cup {NULL}]
    BY <1>1, <1>2 DEF TypeOK
  <2>3. levels' \in Levels /\ size' \in Int /\ tied' \in BOOLEAN /\ dangling' \in BOOLEAN
    BY <2>1 DEF TypeOK
  <2> QED
    BY <1>2, <1>3, <1>4, <2>2, <2>3 DEF ListTypeOK
<1>6. Owned'
  <2> SUFFICES ASSUME NEW m \in Members, table'[m] # NULL
               PROVE  tower'[table'[m]] # NULL /\ tower'[table'[m]].member = m
    BY DEF Owned
  <2>1. m # Member /\ table'[m] = table[m]
    BY <1>1, <1>2 DEF TypeOK
  <2>2. table[m] \in Towers /\ tower[table[m]] # NULL /\ tower[table[m]].member = m
    BY <1>1, <2>1 DEF Owned, TypeOK
  <2>3. table[m] # T
    BY <1>1, <2>1, <2>2
  <2> QED
    BY <1>2, <2>1, <2>2, <2>3 DEF TypeOK
<1>7. ASSUME NEW x, NEW i PROVE HasLevel(x, i)' <=> HasLevel(x, i) /\ x # T
  <2>1. x \in Towers => tower'[x] = IF x = T THEN NULL ELSE tower[x]
    BY <1>1, <1>2 DEF TypeOK
  <2>2. HEAD # T
    BY <1>1, SkipListAssumption
  <2> QED
    BY <2>1, <2>2 DEF HasLevel
<1>8. Chained'
  <2>1. ASSUME NEW t \in Towers, tower'[t] # NULL PROVE table'[tower'[t].member] = t
    <3>1. t # T /\ tower'[t] = tower[t] /\ tower[t] \in Tower
      BY <1>1, <1>2, <2>1 DEF TypeOK
    <3>2. table[tower[t].member] = t /\ tower[t].member \in Members
      BY <2>1, <3>1, <1>1 DEF Chained, Tower
    <3> QED
      BY <1>1, <1>2, <3>1, <3>2 DEF TypeOK
  <2>2. ASSUME NEW i \in Levels, NEW x \in Nodes, NEW n, n = next'[i][x], n # NULL
        PROVE  HasLevel(n, i)' /\ HasLevel(x, i)' /\ x # T
    <3>1. CASE i > h
      <4>1. n = next[i][x]
        BY <1>2, <2>2, <3>1
      <4>2. HasLevel(n, i) /\ HasLevel(x, i)
        BY <1>1, <2>2, <4>1 DEF Chained
      <4>3. ASSUME NEW y, HasLevel(y, i) PROVE y # T
        <5>1. T # HEAD
          BY <1>1, SkipListAssumption
        <5>2. ~(h >= i)
          BY <1>1, <3>1, LevelsFacts
        <5>3. tower[T].height = h
          BY DEF h
        <5> QED
          BY <4>3, <5>1, <5>2, <5>3 DEF HasLevel
      <4> QED
        BY <1>7, <4>1, <4>2, <4>3
    <3>2. CASE ~(i > h)
      <4>1. i \in 0..h
        BY <1>1, <3>2, LevelsFacts
      <4>2. x # T /\ n = IF x = Path[i] THEN next[i][T] ELSE next[i][x]
        BY <1>2, <2>2, <4>1
      <4>3. T \in Nodes /\ Path[i] \in Nodes /\ next[i][Path[i]] = T /\ T # NULL
        BY <1>1, <4>1, SkipListAssumption DEF Nodes
      <4>4. CASE x = Path[i]
        <5>1. HasLevel(n, i) /\ HasLevel(x, i)
          BY <1>1, <2>2, <4>2, <4>3, <4>4 DEF Chained
        <5>2. n # T
          BY <1>1, <4>2, <4>3, <4>4 DEF Chained
        <5> QED
          BY <1>7, <4>2, <4>4, <5>1, <5>2
      <4>5. CASE x # Path[i]
        <5>1. HasLevel(n, i) /\ HasLevel(x, i)
          BY <1>1, <2>2, <4>2, <4>5 DEF Chained
        <5>2. n # T
          BY <1>1, <4>2, <4>3, <4>5 DEF Chained
        <5> QED
          BY <1>7, <4>2, <4>5, <5>1, <5>2
      <4> QED
        BY <4>4, <4>5
    <3> QED
      BY <3>1, <3>2
  <2>3. ASSUME NEW i \in Levels, NEW x \in Nodes, NEW y \in Nodes,
               next'[i][x] # NULL, next'[i][x] = next'[i][y]
        PROVE  x = y
    <3>1. x # T /\ y # T
      BY <2>2, <2>3
    <3>2. CASE i > h
      BY <1>1, <1>2, <2>3, <3>2 DEF Chained
    <3>3. CASE ~(i > h)
      <4>1. i \in 0..h /\ T \in Nodes
        BY <1>1, <3>3, LevelsFacts DEF Nodes
      <4>2. PICK u \in Nodes, v \in Nodes :
              /\ u = IF x = Path[i] THEN T ELSE x
              /\ v = IF y = Path[i] THEN T ELSE y
        BY <4>1
      <4>3. next'[i][x] = next[i][u] /\ next'[i][y] = next[i][v]
        BY <1>2, <3>1, <4>1, <4>2
      <4>4. next[i][u] # NULL /\ next[i][u] = next[i][v]
        BY <2>3, <4>3
      <4>5. u = v
        BY <1>1, <4>4 DEF Chained
      <4> QED
        BY <3>1, <4>2, <4>5
    <3> QED
      BY <3>2, <3>3
  <2>4. Len(order) \in Nat /\ DOMAIN order = 1..Len(order) /\ DOMAIN order' = 1..(Len(order) - 1)
    BY <1>3 DEF TypeOK
  <2> DEFINE from(j) == IF j < p THEN j ELSE j + 1
  <2>5. \A j \in DOMAIN order' : from(j) \in DOMAIN order /\ from(j) # p /\ order'[j] = order[from(j)]
    BY <1>3, <2>4
  <2>6. ASSUME NEW a \in DOMAIN order', NEW b \in DOMAIN order', order'[a] = order'[b] PROVE a = b
    <3>1. from(a) = from(b)
      BY <1>1, <2>5, <2>6 DEF Chained
    <3> QED
      BY <2>4, <3>1
  <2>7. ASSUME NEW t \in Towers
        PROVE  tower'[t] # NULL <=> \E a \in DOMAIN order' : order'[a] = t
    <3>1. tower'[t] # NULL <=> tower[t] # NULL /\ t # T
      BY <1>1, <1>2 DEF TypeOK
    <3>2. ASSUME tower'[t] # NULL PROVE \E a \in DOMAIN order' : order'[a] = t
      <4>1. PICK a \in DOMAIN order : order[a] = t
        BY <1>1, <3>1, <3>2 DEF Chained
      <4>2. a # p
        BY <1>3, <3>1, <3>2, <4>1
      <4> DEFINE b == IF a < p THEN a ELSE a - 1
      <4>3. b \in DOMAIN order' /\ from(b) = a
        BY <2>4, <4>1, <4>2, <1>3
      <4> QED
        BY <2>5, <4>1, <4>3
    <3>3. ASSUME NEW a \in DOMAIN order', order'[a] = t PROVE tower'[t] # NULL
      <4>1. order[from(a)] = t /\ from(a) # p /\ from(a) \in DOMAIN order
        BY <2>5, <3>3
      <4>2. t # T
        BY <1>1, <1>3, <2>4, <4>1 DEF Chained
      <4> QED
        BY <1>1, <3>1, <4>1, <4>2 DEF Chained
    <3> QED
      BY <3>2, <3>3
  <2>8. ASSUME NEW i \in Levels, NEW x \in Nodes, next'[i][x] # NULL
        PROVE  HasLevel(next[i][x], i)' /\ HasLevel(x, i)'
    <3>1. PICK n : n = next'[i][x]
      OBVIOUS
    <3>2. HasLevel(n, i)' /\ HasLevel(x, i)'
      BY <2>2, <2>8, <3>1
    <3> QED
      BY <3>1, <3>2 DEF HasLevel
  <2> QED
    BY <2>1, <2>3, <2>6, <2>7, <2>8 DEF Chained
<1> QED
  BY <1>5, <1>6, <1>8

-----------------------------------------------------------------------------
(* splice                                                                  *)

LEMMA PairTypes ==
  ASSUME TypeOK, todo # <<>>
  PROVE  Member \in Members /\ Head(todo).score \in Int /\ NewScore \in Int
<1>1. Head(todo) \in Pairs
  BY DEF TypeOK
<1>2. Member \in Members /\ Head(todo).score \in Int
  BY <1>1, ZsetApiAssumption DEF Pairs, Member
<1>3. old \in Int \cup {NULL}
  BY DEF TypeOK
<1> QED
  BY <1>2, <1>3 DEF NewScore

(* What splice writes for the new tower t of height h.                     *)
Splices(t, h) ==
  /\ tower[t] = NULL
  /\ tower' = [tower EXCEPT ![t] = [member |-> Member, score |-> NewScore, height |-> h]]
  /\ table' = [table EXCEPT ![Member] = t]
  /\ order' = InsertedAfter(order, at, t)
  /\ levels' = Raised(h) /\ size' = size + 1
  /\ next' \in [Levels -> [Nodes -> Towers \cup {NULL}]]
  /\ span' \in [Levels -> [Nodes -> Int]]
  /\ \A i \in Levels : i > h => next'[i] = next[i]
  /\ \A i \in Levels, x \in Nodes : i <= h =>
       /\ next'[i][x] = IF x = Path[i] THEN t
                        ELSE IF x = t THEN next[i][Path[i]] ELSE next[i][x]
       /\ span'[i][x] = IF x = Path[i] THEN Split(i) + 1
                        ELSE IF x = t THEN Width(i) - Split(i) ELSE span[i][x]
  /\ \A i \in Levels, x \in Nodes : i > h =>
       span'[i][x] = IF i <= levels /\ x = Path[i] THEN span[i][x] + 1 ELSE span[i][x]

LEMMA SpliceLinks ==
  ASSUME TypeOK, Sane, splice
  PROVE  \E t \in Towers, h \in Levels : Splices(t, h)
<1>1. /\ pc = "insert" /\ lvl = 0 /\ todo # <<>> /\ pc \in Searches
      /\ size' = size + 1
  BY DEF splice, Ended, Sane, Calling, Searches
<1>2. PICK t \in Towers, h \in Levels :
        /\ tower[t] = NULL
        /\ next' = Spliced(t, h) /\ span' = Widened(t, h)
        /\ tower' = [tower EXCEPT ![t] = [member |-> Member, score |-> NewScore, height |-> h]]
        /\ table' = [table EXCEPT ![Member] = t]
        /\ order' = InsertedAfter(order, at, t)
        /\ levels' = Raised(h)
  BY DEF splice
<1>3. /\ Path \in [Levels -> Nodes]
      /\ \A i \in Levels : Path[i] # t
  BY <1>1, <1>2, PathHasLevels, SkipListAssumption DEF Sane, HasLevel
<1>4. /\ t \in Nodes
      /\ \A i \in Levels : next[i] \in [Nodes -> Towers \cup {NULL}]
      /\ \A i \in Levels : span[i] \in [Nodes -> Int]
  BY DEF TypeOK, Nodes
<1>5. ASSUME NEW i \in Levels
      PROVE  Split(i) \in Int /\ Width(i) \in Int
  <2>1. Path[i] \in Nodes /\ span[i][Path[i]] \in Int
    BY <1>3, <1>4
  <2>2. acc \in Int /\ children[i] \in Int /\ size \in Int
    BY DEF TypeOK
  <2> QED
    BY <2>1, <2>2 DEF Split, Width
<1>6. ASSUME NEW i \in Levels
      PROVE  /\ next'[i] \in [Nodes -> Towers \cup {NULL}]
             /\ i > h => next'[i] = next[i]
             /\ \A x \in Nodes : i <= h =>
                  next'[i][x] = IF x = Path[i] THEN t
                                ELSE IF x = t THEN next[i][Path[i]] ELSE next[i][x]
  <2>1. Path[i] \in Nodes /\ Path[i] # t /\ next[i][Path[i]] \in Towers \cup {NULL}
    BY <1>3, <1>4
  <2>2. next'[i] = IF i > h THEN next[i]
                   ELSE [next[i] EXCEPT ![t] = next[i][Path[i]], ![Path[i]] = t]
    BY <1>2 DEF Spliced
  <2>3. CASE i > h
    BY <1>4, <2>2, <2>3, LevelsFacts
  <2>4. CASE ~(i > h)
    <3>1. PICK u \in Nodes, v \in Towers \cup {NULL} : u = Path[i] /\ v = next[i][u]
      BY <2>1
    <3>2. next'[i] = [next[i] EXCEPT ![t] = v, ![u] = t] /\ next[i] \in [Nodes -> Towers \cup {NULL}]
      BY <1>4, <2>2, <2>4, <3>1
    <3>3. /\ next'[i] \in [Nodes -> Towers \cup {NULL}]
          /\ \A x \in Nodes : next'[i][x] = IF x = u THEN t ELSE IF x = t THEN v ELSE next[i][x]
      BY <1>4, <3>1, <3>2
    <3> QED
      BY <2>4, <3>1, <3>3
  <2> QED
    BY <2>3, <2>4
<1>7. ASSUME NEW i \in Levels
      PROVE  /\ span'[i] \in [Nodes -> Int]
             /\ \A x \in Nodes :
                  span'[i][x] =
                    IF i <= h
                    THEN IF x = Path[i] THEN Split(i) + 1
                         ELSE IF x = t THEN Width(i) - Split(i) ELSE span[i][x]
                    ELSE IF i <= levels /\ x = Path[i] THEN span[i][x] + 1 ELSE span[i][x]
  <2>1. Path[i] \in Nodes /\ Path[i] # t /\ span[i][Path[i]] \in Int
    BY <1>3, <1>4
  <2>2. span'[i] = IF i <= h
                   THEN [span[i] EXCEPT ![t] = Width(i) - Split(i), ![Path[i]] = Split(i) + 1]
                   ELSE IF i <= levels THEN [span[i] EXCEPT ![Path[i]] = span[i][Path[i]] + 1]
                   ELSE span[i]
    BY <1>2 DEF Widened
  <2>3. Width(i) - Split(i) \in Int /\ Split(i) + 1 \in Int
    BY <1>5
  <2>4. CASE i <= h
    <3>1. PICK u \in Nodes, v \in Int, w \in Int :
            u = Path[i] /\ v = Width(i) - Split(i) /\ w = Split(i) + 1
      BY <2>1, <2>3
    <3>2. span'[i] = [span[i] EXCEPT ![t] = v, ![u] = w] /\ span[i] \in [Nodes -> Int]
      BY <1>4, <2>2, <2>4, <3>1
    <3>3. /\ span'[i] \in [Nodes -> Int]
          /\ \A x \in Nodes : span'[i][x] = IF x = u THEN w ELSE IF x = t THEN v ELSE span[i][x]
      BY <1>4, <3>1, <3>2
    <3> QED
      BY <2>4, <3>1, <3>3
  <2>5. CASE ~(i <= h)
    BY <1>4, <2>1, <2>2, <2>5
  <2> QED
    BY <2>4, <2>5
<1>8. next' \in [Levels -> [Nodes -> Towers \cup {NULL}]] /\ span' \in [Levels -> [Nodes -> Int]]
  BY <1>2, <1>6, <1>7 DEF Spliced, Widened
<1>9. \A i \in Levels : i > h <=> ~(i <= h)
  BY LevelsFacts
<1>10. /\ \A i \in Levels : i > h => next'[i] = next[i]
       /\ \A i \in Levels, x \in Nodes : i <= h =>
            next'[i][x] = IF x = Path[i] THEN t
                          ELSE IF x = t THEN next[i][Path[i]] ELSE next[i][x]
  BY <1>6
<1>11. /\ \A i \in Levels, x \in Nodes : i <= h =>
            span'[i][x] = IF x = Path[i] THEN Split(i) + 1
                          ELSE IF x = t THEN Width(i) - Split(i) ELSE span[i][x]
       /\ \A i \in Levels, x \in Nodes : i > h =>
            span'[i][x] = IF i <= levels /\ x = Path[i] THEN span[i][x] + 1 ELSE span[i][x]
  BY <1>7, <1>9
<1>12. \A i \in Levels, x \in Nodes : i <= h =>
         /\ next'[i][x] = IF x = Path[i] THEN t
                          ELSE IF x = t THEN next[i][Path[i]] ELSE next[i][x]
         /\ span'[i][x] = IF x = Path[i] THEN Split(i) + 1
                          ELSE IF x = t THEN Width(i) - Split(i) ELSE span[i][x]
  BY <1>10, <1>11
<1>13. Splices(t, h)
  BY ONLY <1>1, <1>2, <1>8, <1>10, <1>11, <1>12, Zenon DEF Splices
<1> QED
  BY <1>13

LEMMA SpliceSane ==
  ASSUME TypeOK, Sane, splice
  PROVE  ListTypeOK' /\ Owned' /\ (~dangling' => Chained')
<1>1. PICK t \in Towers, h \in Levels : Splices(t, h)
  BY SpliceLinks
<1>2. /\ pc = "insert" /\ lvl = 0 /\ todo # <<>> /\ ~dangling /\ Chained /\ Owned /\ Standing
      /\ at # NULL /\ HasLevel(at, 0) /\ pc \in Searches
  BY DEF splice, Ended, Sane, Calling, Searches, Standing
<1>3. Member \in Members /\ NewScore \in Int
  BY <1>2, PairTypes
<1>4. /\ Path \in [Levels -> Nodes]
      /\ \A i \in Levels : HasLevel(Path[i], i) /\ Path[i] # t
  BY <1>1, <1>2, PathHasLevels, SkipListAssumption DEF Splices, HasLevel
<1> DEFINE new == [member |-> Member, score |-> NewScore, height |-> h]
<1>5. /\ new \in Tower /\ new # NULL /\ new.member = Member /\ new.height = h
      /\ \A x \in Towers : tower'[x] = IF x = t THEN new ELSE tower[x]
      /\ \A m \in Members : table'[m] = IF m = Member THEN t ELSE table[m]
      /\ t # NULL /\ t # HEAD /\ tower[t] = NULL
      /\ tower' \in [Towers -> Tower \cup {NULL}] /\ table' \in [Members -> Towers \cup {NULL}]
  <2>1. new \in Tower /\ new # NULL /\ new.member = Member /\ new.height = h
    BY <1>3, SkipListAssumption DEF Tower
  <2>2. tower[t] = NULL /\ tower' = [tower EXCEPT ![t] = new] /\ table' = [table EXCEPT ![Member] = t]
    BY <1>1 DEF Splices
  <2>3. tower \in [Towers -> Tower \cup {NULL}] /\ table \in [Members -> Towers \cup {NULL}]
    BY DEF TypeOK
  <2>4. t # NULL /\ t # HEAD
    BY SkipListAssumption DEF Nodes
  <2> HIDE DEF new
  <2>5. /\ tower' \in [Towers -> Tower \cup {NULL}]
        /\ \A x \in Towers : tower'[x] = IF x = t THEN new ELSE tower[x]
    BY <2>1, <2>2, <2>3
  <2>6. /\ table' \in [Members -> Towers \cup {NULL}]
        /\ \A m \in Members : table'[m] = IF m = Member THEN t ELSE table[m]
    BY <1>3, <2>2, <2>3
  <2> QED
    BY <2>1, <2>2, <2>4, <2>5, <2>6
<1> HIDE DEF new
<1>6. PICK p \in 0..Len(order) :
        /\ order' \in Seq(Towers) /\ Len(order') = Len(order) + 1
        /\ \A j \in 1..(Len(order) + 1) :
             order'[j] = IF j <= p THEN order[j] ELSE IF j = p + 1 THEN t ELSE order[j - 1]
  <2>1. order \in Seq(Towers) /\ OneToOne(order) /\ DOMAIN order = 1..Len(order)
    BY <1>2 DEF TypeOK, Chained, OneToOne
  <2>2. PICK p \in 0..Len(order) : at = IF p = 0 THEN HEAD ELSE order[p]
    <3>1. CASE at = HEAD
      BY <2>1, <3>1
    <3>2. CASE at # HEAD
      <4>1. PICK a \in DOMAIN order : order[a] = at
        BY <1>2, <3>2 DEF HasLevel, Chained
      <4> QED
        BY <2>1, <4>1
    <3> QED
      BY <3>1, <3>2
  <2>3. order' = InsertedAfter(order, at, t)
    BY <1>1 DEF Splices
  <2>4. /\ order' \in Seq(Towers) /\ Len(order') = Len(order) + 1
        /\ \A j \in 1..(Len(order) + 1) :
             order'[j] = IF j <= p THEN order[j] ELSE IF j = p + 1 THEN t ELSE order[j - 1]
    BY <2>1, <2>2, <2>3, InsertedAt
  <2> QED
    BY <2>4
<1>7. ListTypeOK'
  <2>1. tower' \in [Towers -> Tower \cup {NULL}] /\ table' \in [Members -> Towers \cup {NULL}]
    BY <1>5
  <2>2. levels' \in Levels /\ size' \in Int
    BY <1>1 DEF Splices, Raised, Larger, TypeOK
  <2>3. tied' \in BOOLEAN /\ dangling' \in BOOLEAN
    BY DEF splice, TypeOK
  <2> QED
    BY <1>1, <1>6, <2>1, <2>2, <2>3 DEF ListTypeOK, Splices
<1>8. Owned'
  <2> SUFFICES ASSUME NEW m \in Members, table'[m] # NULL
               PROVE  tower'[table'[m]] # NULL /\ tower'[table'[m]].member = m
    BY DEF Owned
  <2>1. CASE m = Member
    BY <1>5, <2>1
  <2>2. CASE m # Member
    <3>1. table'[m] = table[m]
      BY <1>5, <2>2
    <3>2. table[m] \in Towers
      BY <3>1 DEF TypeOK
    <3>3. tower[table[m]] # NULL /\ tower[table[m]].member = m
      BY <1>2, <3>1 DEF Owned
    <3> QED
      BY <1>5, <3>1, <3>2, <3>3
  <2> QED
    BY <2>1, <2>2
<1>9. ASSUME NEW x, NEW i \in Levels
      PROVE  HasLevel(x, i)' <=> HasLevel(x, i) \/ (x = t /\ i <= h)
  BY <1>5, LevelsFacts DEF HasLevel
<1>10. ASSUME ~dangling' PROVE Chained'
  <2>1. table[Member] = NULL
    BY <1>10 DEF splice
  <2>2. ASSUME NEW x \in Towers, tower'[x] # NULL PROVE table'[tower'[x].member] = x
    <3>1. CASE x = t
      BY <1>3, <1>5, <3>1
    <3>2. CASE x # t
      <4>0. tower'[x] = tower[x] /\ tower[x] # NULL
        BY <1>5, <2>2, <3>2
      <4>1. tower'[x] = tower[x] /\ tower[x] \in Tower /\ table[tower[x].member] = x
        BY <1>2, <4>0 DEF Chained, TypeOK
      <4>2. tower[x].member \in Members /\ x # NULL
        BY <4>1, SkipListAssumption DEF Tower, Nodes
      <4> QED
        BY <1>5, <2>1, <4>1, <4>2
    <3> QED
      BY <3>1, <3>2
  <2>3. ASSUME NEW i \in Levels, NEW x \in Nodes, NEW n, n = next'[i][x], n # NULL
        PROVE  HasLevel(n, i)' /\ HasLevel(x, i)'
    <3>1. CASE n = next[i][x]
      BY <1>2, <1>9, <2>3, <3>1 DEF Chained
    <3>2. CASE n # next[i][x]
      <4>0. /\ i > h => next'[i] = next[i]
            /\ i <= h => next'[i][x] = IF x = Path[i] THEN t
                                       ELSE IF x = t THEN next[i][Path[i]] ELSE next[i][x]
        BY <1>1 DEF Splices
      <4>1. i <= h /\ (x = Path[i] \/ x = t)
        BY <2>3, <3>2, <4>0, LevelsFacts
      <4>2. CASE x = Path[i]
        <5>1. n = t
          BY <1>1, <2>3, <4>1, <4>2 DEF Splices
        <5> QED
          BY <1>4, <1>9, <4>1, <4>2, <5>1
      <4>3. CASE x = t
        <5>1. n = next[i][Path[i]] /\ Path[i] \in Nodes
          BY <1>1, <1>4, <2>3, <4>1, <4>3 DEF Splices
        <5>2. HasLevel(n, i)
          BY <1>2, <2>3, <5>1 DEF Chained
        <5> QED
          BY <1>9, <4>1, <4>3, <5>2
      <4> QED
        BY <4>1, <4>2, <4>3
    <3> QED
      BY <3>1, <3>2
  <2>4. ASSUME NEW i \in Levels, NEW x \in Nodes, next'[i][x] # NULL
        PROVE  HasLevel(next[i][x], i)' /\ HasLevel(x, i)'
    <3>1. PICK n : n = next'[i][x]
      OBVIOUS
    <3>2. HasLevel(n, i)' /\ HasLevel(x, i)'
      BY <2>3, <2>4, <3>1
    <3> QED
      BY <3>1, <3>2 DEF HasLevel
  <2>5. ASSUME NEW i \in Levels, NEW x \in Nodes, NEW y \in Nodes,
               next'[i][x] # NULL, next'[i][x] = next'[i][y]
        PROVE  x = y
    <3>1. CASE i > h
      BY <1>1, <1>2, <2>5, <3>1 DEF Chained, Splices
    <3>2. CASE ~(i > h)
      <4>1. i <= h /\ Path[i] \in Nodes
        BY <1>4, <3>2, LevelsFacts
      <4>2. ASSUME NEW z \in Nodes PROVE next[i][z] # t
        <5>1. ~HasLevel(t, i)
          BY <1>5 DEF HasLevel
        <5> QED
          BY <1>2, <1>5, <5>1 DEF Chained
      <4>3. ASSUME NEW z \in Nodes PROVE next'[i][z] = t <=> z = Path[i]
        <5>1. next'[i][z] = IF z = Path[i] THEN t
                            ELSE IF z = t THEN next[i][Path[i]] ELSE next[i][z]
          BY <1>1, <4>1 DEF Splices
        <5> QED
          BY <4>1, <4>2, <5>1
      <4>4. CASE x = Path[i] \/ y = Path[i]
        BY <2>5, <4>3, <4>4
      <4>5. CASE x # Path[i] /\ y # Path[i]
        <5>1. PICK u \in Nodes, v \in Nodes :
                /\ u = IF x = t THEN Path[i] ELSE x
                /\ v = IF y = t THEN Path[i] ELSE y
          BY <4>1
        <5>2. next'[i][x] = next[i][u] /\ next'[i][y] = next[i][v]
          BY <1>1, <4>1, <4>5, <5>1 DEF Splices
        <5>3. next[i][u] # NULL /\ next[i][u] = next[i][v]
          BY <2>5, <5>2
        <5>4. u = v
          BY <1>2, <5>3 DEF Chained
        <5> QED
          BY <4>5, <5>1, <5>4
      <4> QED
        BY <4>4, <4>5
    <3> QED
      BY <3>1, <3>2
  <2>6. Len(order) \in Nat /\ DOMAIN order = 1..Len(order) /\ DOMAIN order' = 1..(Len(order) + 1)
    BY <1>6 DEF TypeOK
  <2>7. \A a \in DOMAIN order : order[a] \in Towers /\ order[a] # t
    BY <1>2, <1>5 DEF Chained, TypeOK
  <2> DEFINE from(j) == IF j <= p THEN j ELSE j - 1
  <2>8. ASSUME NEW j \in DOMAIN order'
        PROVE  IF j = p + 1 THEN order'[j] = t
               ELSE from(j) \in DOMAIN order /\ order'[j] = order[from(j)]
    BY <1>6, <2>6
  <2>9. ASSUME NEW a \in DOMAIN order', NEW b \in DOMAIN order', order'[a] = order'[b]
        PROVE  a = b
    <3>1. CASE a = p + 1 \/ b = p + 1
      BY <2>7, <2>8, <2>9, <3>1
    <3>2. CASE a # p + 1 /\ b # p + 1
      <4>1. from(a) = from(b)
        BY <1>2, <2>8, <2>9, <3>2 DEF Chained
      <4> QED
        BY <2>6, <3>2, <4>1
    <3> QED
      BY <3>1, <3>2
  <2>10. ASSUME NEW x \in Towers
         PROVE  tower'[x] # NULL <=> \E a \in DOMAIN order' : order'[a] = x
    <3>1. CASE x = t
      <4>1. p + 1 \in DOMAIN order'
        BY <2>6
      <4> QED
        BY <1>5, <2>8, <3>1, <4>1
    <3>2. CASE x # t
      <4>1. ASSUME NEW a \in DOMAIN order, order[a] = x PROVE \E b \in DOMAIN order' : order'[b] = x
        <5> DEFINE b == IF a <= p THEN a ELSE a + 1
        <5>1. b \in DOMAIN order' /\ b # p + 1 /\ from(b) = a
          BY <2>6
        <5> QED
          BY <2>8, <4>1, <5>1
      <4>2. ASSUME NEW a \in DOMAIN order', order'[a] = x PROVE \E b \in DOMAIN order : order[b] = x
        BY <2>8, <3>2, <4>2
      <4> QED
        BY <1>2, <1>5, <3>2, <4>1, <4>2 DEF Chained
    <3> QED
      BY <3>1, <3>2
  <2> QED
    BY <2>2, <2>4, <2>5, <2>9, <2>10 DEF Chained
<1> QED
  BY <1>7, <1>8, <1>10

-----------------------------------------------------------------------------
(* The rest of the list                                                    *)

LEMMA ListKept ==
  ASSUME TypeOK, Sane, UNCHANGED listVars
  PROVE  ListTypeOK' /\ Owned' /\ (~dangling' => Chained')
<1>1. ListTypeOK'
  BY DEF TypeOK, ListTypeOK, listVars
<1>2. Owned'
  BY DEF Sane, Owned, listVars
<1>3. ASSUME ~dangling' PROVE Chained'
  BY <1>3 DEF Sane, Chained, HasLevel, listVars
<1> QED
  BY <1>1, <1>2, <1>3

LEMMA PartlyKept ==
  ASSUME TypeOK, Sane, unlinkPartly
  PROVE  ListTypeOK' /\ Owned' /\ (~dangling' => Chained')
BY DEF TypeOK, Sane, unlinkPartly, ListTypeOK, Owned

(* A new list has no towers.                                               *)
Empty ==
  /\ tower = noTowers /\ next = noLinks /\ span = noSpans /\ table = noMembers
  /\ levels = 0 /\ size = 0
  /\ order = <<>> /\ tied = FALSE /\ dangling = FALSE

LEMMA EmptySane == Empty => ListTypeOK /\ Owned /\ Chained
<1> SUFFICES ASSUME Empty PROVE ListTypeOK /\ Owned /\ Chained
  OBVIOUS
<1>1. ListTypeOK
  <2>1. tower \in [Towers -> Tower \cup {NULL}] /\ table \in [Members -> Towers \cup {NULL}]
    BY DEF Empty, noTowers, noMembers
  <2>2. next \in [Levels -> [Nodes -> Towers \cup {NULL}]]
    BY DEF Empty, noLinks
  <2>3. span \in [Levels -> [Nodes -> Int]]
    BY DEF Empty, noSpans
  <2>4. order \in Seq(Towers)
    BY DEF Empty
  <2>5. levels \in Levels /\ size \in Int
    BY LevelsFacts DEF Empty
  <2>6. tied \in BOOLEAN /\ dangling \in BOOLEAN
    BY DEF Empty
  <2> HIDE DEF Empty
  <2> QED
    BY <2>1, <2>2, <2>3, <2>4, <2>5, <2>6 DEF ListTypeOK
<1>2. Owned
  BY DEF Empty, Owned, noMembers
<1>3. Chained
  BY DEF Empty, Chained, noTowers, noLinks
<1> QED
  BY <1>1, <1>2, <1>3

LEMMA DropEmpties == drop => ListTypeOK' /\ Owned' /\ Chained'
<1>1. drop => Empty'
  BY DEF drop, Empty, noTowers, noLinks, noSpans, noMembers
<1> QED
  BY <1>1, EmptySane, PTL

-----------------------------------------------------------------------------
(* Each operation: what it calls with and where it stands                  *)

LEMMA AnswerSteps ==
  ASSUME TypeOK, Sane, refuse \/ zcard \/ drop \/ zadded \/ incremented \/ counted \/ emitted
  PROVE  CallTypeOK' /\ WalkTypeOK' /\ Calling' /\ Standing'
<1>1. CASE refuse \/ drop
  BY <1>1, AnswerType, ReplyTypes DEF refuse, drop
<1>2. CASE zcard
  BY <1>2, AnswerType, ReplyTypes DEF zcard, TypeOK
<1>3. CASE zadded
  <2>1. (IF op.ch THEN changed ELSE added) \in Int
    BY DEF TypeOK
  <2> QED
    BY <1>3, <2>1, AnswerType, ReplyTypes DEF zadded
<1>4. CASE incremented
  <2>1. CASE added + changed = 0
    BY <1>4, <2>1, AnswerType, ReplyTypes DEF incremented
  <2>2. CASE added + changed # 0
    <3>1. pc = "pair" /\ op.cmd = "INCR" /\ todo = <<>>
      BY <1>4 DEF incremented
    <3>2. op \in ZaddRequests \cup IncrRequests
      BY <3>1 DEF Sane, Calling
    <3>3. op.pairs[1] \in Pairs
      BY <3>1, <3>2, ZaddPairs
    <3>4. PICK m \in Members : m = op.pairs[1].member
      BY <3>3 DEF Pairs
    <3>5. table[m] # NULL
      BY <2>2, <3>1, <3>4 DEF Sane, Calling
    <3>6. table[m] \in Towers /\ tower[table[m]] # NULL
      BY <3>5 DEF Sane, Owned, TypeOK
    <3>7. tower[table[m]] \in Tower
      BY <3>6 DEF TypeOK
    <3>8. ScoreOf(table[m]) \in Int
      BY <3>7 DEF ScoreOf, Tower
    <3>9. Answer(Bulk(ScoreOf(table[m])))
      BY <1>4, <2>2, <3>4 DEF incremented
    <3> QED
      BY <3>8, <3>9, AnswerType, ReplyTypes
  <2> QED
    BY <2>1, <2>2
<1>5. CASE counted
  <2>1. (IF Below(acc, low) THEN 0 ELSE acc - low) \in Int
    BY DEF TypeOK
  <2> QED
    BY <1>5, <2>1, AnswerType, ReplyTypes DEF counted
<1>6. CASE emitted
  BY <1>6, AnswerType, ReplyTypes DEF emitted, TypeOK
<1> QED
  BY <1>1, <1>2, <1>3, <1>4, <1>5, <1>6

LEMMA WalkSteps ==
  ASSUME TypeOK, Sane, hop \/ down
  PROVE  CallTypeOK' /\ WalkTypeOK' /\ Calling' /\ Standing'
<1>1. UNCHANGED <<callVars, listVars, pc>> /\ pc \in Searches
  BY DEF hop, down, Searching, Searches
<1>2. CallTypeOK'
  BY <1>1 DEF CallTypeOK, TypeOK, callVars
<1>3. Calling'
  BY <1>1 DEF Calling, Sane, callVars, listVars
<1>4. at # NULL /\ at \in Nodes /\ HasLevel(at, lvl) /\ ~dangling /\ Chained
      /\ lvl \in Levels /\ \A j \in Levels : HasLevel(dirty[j], j)
  BY <1>1 DEF Sane, Standing, TypeOK
<1>5. CASE hop
  <2>1. PICK n \in Towers : n = next[lvl][at] /\ HasLevel(n, lvl)
    BY <1>4, <1>5 DEF hop, Advance, Chained, TypeOK
  <2>2. at' = n /\ UNCHANGED <<lvl, dirty, children>>
    BY <1>5, <2>1 DEF hop
  <2>3. acc' \in Int
    BY <1>4, <1>5 DEF hop, TypeOK
  <2>4. WalkTypeOK'
    BY <2>2, <2>3 DEF WalkTypeOK, TypeOK, Nodes
  <2>5. n # NULL /\ n # HEAD
    BY SkipListAssumption DEF Nodes
  <2>6. at' # NULL /\ HasLevel(at, lvl)' /\ \A j \in Levels : HasLevel(dirty[j], j)'
    BY <1>1, <1>4, <2>1, <2>2, <2>5 DEF HasLevel, listVars
  <2> QED
    BY <1>1, <1>2, <1>3, <1>4, <2>4, <2>6 DEF Standing, Searches, listVars
<1>6. CASE down
  <2>1. /\ lvl' = lvl - 1 /\ dirty' = [dirty EXCEPT ![lvl] = at]
        /\ children' = [children EXCEPT ![lvl] = acc]
        /\ at' = at /\ acc' = acc /\ lvl > 0
    BY <1>6 DEF down
  <2>2. lvl - 1 \in Levels /\ lvl \in Nat
    BY <1>4, <2>1, LevelsFacts
  <2>3. WalkTypeOK'
    BY <1>4, <2>1, <2>2 DEF WalkTypeOK, TypeOK
  <2>4. HasLevel(at, lvl - 1)
    <3>1. at \in Towers /\ tower[at] # NULL => tower[at].height \in Nat
      BY LevelsFacts DEF TypeOK, Tower
    <3> QED
      BY <1>4, <2>2, <3>1 DEF HasLevel
  <2>5. ASSUME NEW j \in Levels PROVE HasLevel(dirty'[j], j)
    BY <1>4, <2>1 DEF TypeOK
  <2>6. at' # NULL /\ HasLevel(at, lvl)' /\ \A j \in Levels : HasLevel(dirty[j], j)'
    BY <1>1, <1>4, <2>1, <2>4, <2>5 DEF HasLevel, listVars
  <2> QED
    BY <1>1, <1>2, <1>3, <1>4, <2>3, <2>6 DEF Standing, Searches, listVars
<1> QED
  BY <1>5, <1>6

LEMMA ReceiveSteps ==
  ASSUME TypeOK, Sane, Receive
  PROVE  CallTypeOK' /\ WalkTypeOK' /\ Calling' /\ Standing'
<1>1. PICK r \in Requests :
        /\ Begin(r)
        /\ \/ /\ r \in ZaddRequests \cup IncrRequests /\ UNCHANGED walkVars
              /\ \/ pc' = "refuse" /\ UNCHANGED todo
                 \/ pc' = "pair" /\ todo' = r.pairs
           \/ pc' \in {"card", "drop", "refuse"} /\ UNCHANGED <<walkVars, todo>>
           \/ r \in ZcountRequests /\ Search("min", 0) /\ UNCHANGED todo
           \/ r \in ZrangeRequests /\ Search("rank", 0) /\ UNCHANGED todo
           \/ r \in ZrangeRequests /\ pc' = "emit" /\ UNCHANGED <<walkVars, todo>>
  <2>1. CASE RecvZadd
    BY <2>1 DEF RecvZadd, Requests
  <2>2. CASE RecvPlain
    <3>1. PICK r \in PlainRequests :
            /\ Begin(r) /\ UNCHANGED <<walkVars, todo>>
            /\ pc' = CASE r.cmd = "ZCARD" -> "card" [] r.cmd = "DROP" -> "drop"
                       [] r.cmd = "MALFORMED" -> "refuse"
      BY <2>2 DEF RecvPlain
    <3>2. r \in Requests /\ r.cmd \in {"ZCARD", "MALFORMED", "DROP"}
      BY DEF Requests, PlainRequests
    <3>3. pc' \in {"card", "drop", "refuse"}
      BY <3>1, <3>2
    <3> QED
      BY <3>1, <3>2, <3>3
  <2>3. CASE RecvZcount
    BY <2>3 DEF RecvZcount, Requests
  <2>4. CASE RecvZrange
    BY <2>4 DEF RecvZrange, Requests
  <2> QED
    BY <2>1, <2>2, <2>3, <2>4 DEF Receive
<1>2. /\ pc = "idle" /\ op' = r /\ reply' = NoReply /\ r # NULL
      /\ UNCHANGED <<listVars, old, low, out, added, changed>>
      /\ r.cmd # "ZCARD" => ~dangling
      /\ at = HEAD /\ acc = 0
  BY <1>1, RequestKinds DEF Begin, Sane, Standing
<1>3. pc' \in {"refuse", "pair", "card", "drop", "emit", "min", "rank"} /\ todo' \in Seq(Pairs)
  BY <1>1, ZaddPairs DEF Search, TypeOK
<1>4. CallTypeOK'
  BY <1>2, <1>3, ReplyTypes DEF CallTypeOK, TypeOK
<1>5. pc' \in {"min", "rank", "emit"} => r.cmd # "ZCARD"
  BY <1>1, RequestKinds DEF Search
<1>6. WalkTypeOK' /\ Standing'
  <2>1. CASE UNCHANGED walkVars /\ pc' \in {"refuse", "pair", "card", "drop", "emit"}
    <3>1. WalkTypeOK'
      BY <2>1 DEF walkVars, WalkTypeOK, TypeOK
    <3> QED
      BY <1>2, <1>5, <2>1, <3>1 DEF Standing, Searches, walkVars, HasLevel, listVars
  <2>2. CASE Search("min", 0) \/ Search("rank", 0)
    <3>1. ~dangling' /\ levels \in Levels
      BY <1>2, <1>5, <2>2 DEF Search, listVars, TypeOK
    <3> QED
      BY <2>2, <3>1, SearchType DEF Searches
  <2> QED
    BY <1>1, <2>1, <2>2
<1>7. added = 0 /\ changed = 0
  BY <1>2 DEF Sane, Calling
<1>8. Calling'
  BY <1>1, <1>2, <1>3, <1>7, ZaddPairs DEF Calling, Search
<1> QED
  BY <1>4, <1>6, <1>8

LEMMA LookupSteps ==
  ASSUME TypeOK, Sane, lookup \/ lookupDangling
  PROVE  CallTypeOK' /\ WalkTypeOK' /\ Calling' /\ Standing'
<1>1. pc = "pair" /\ todo # <<>> /\ UNCHANGED listVars /\ op # NULL /\ at = HEAD /\ acc = 0
      /\ op \in ZaddRequests \cup IncrRequests
  BY DEF lookup, lookupDangling, Sane, Calling, Standing
<1>2. /\ todo \in Seq(Pairs) /\ Tail(todo) \in Seq(Pairs)
      /\ Member \in Members
  BY <1>1, PairTypes DEF TypeOK
<1>3. op.cmd = "INCR" => Tail(todo) = <<>> /\ added = 0 /\ changed = 0 /\ todo = op.pairs
  BY <1>1, ZaddPairs DEF Sane, Calling
<1>4. CASE lookupDangling
  <2>1. pc' = "undefined" /\ UNCHANGED <<listVars, walkVars, callVars>>
    BY <1>4 DEF lookupDangling
  <2>2. CallTypeOK' /\ WalkTypeOK'
    BY <2>1 DEF CallTypeOK, WalkTypeOK, TypeOK, walkVars, callVars
  <2>3. Calling' /\ Standing'
    BY <1>1, <2>1 DEF Calling, Standing, Searches, callVars
  <2> QED
    BY <2>2, <2>3
<1>5. CASE lookup /\ ~Stores(op, table[Member] # NULL)
  <2>1. NextPair /\ UNCHANGED <<added, changed, walkVars>>
    BY <1>5 DEF lookup
  <2>2. CallTypeOK'
    BY <1>2, <2>1 DEF CallTypeOK, TypeOK, NextPair
  <2>3. WalkTypeOK'
    BY <2>1 DEF WalkTypeOK, TypeOK, walkVars
  <2>4. Calling'
    BY <1>1, <1>3, <2>1 DEF Calling, NextPair
  <2>5. Standing'
    BY <1>1, <2>1 DEF Standing, Searches, NextPair, walkVars
  <2> QED
    BY <2>2, <2>3, <2>4, <2>5
<1>6. CASE lookup /\ Stores(op, table[Member] # NULL)
  <2> DEFINE t == table[Member]
             what == IF t = NULL THEN "insert" ELSE "remove"
  <2>1. /\ old' = (IF t = NULL THEN NULL ELSE ScoreOf(t)) /\ Search(what, 1)
        /\ UNCHANGED <<op, todo, low, out, added, changed, reply>> /\ ~dangling
    BY <1>6 DEF lookup
  <2>2. t # NULL => ScoreOf(t) \in Int
    <3>1. ASSUME t # NULL PROVE t \in Towers /\ tower[t] # NULL
      BY <1>2, <3>1 DEF Sane, Owned, TypeOK
    <3> QED
      BY <3>1 DEF ScoreOf, TypeOK, Tower
  <2>3. old' \in Int \cup {NULL} /\ (what = "remove" => old' # NULL)
    BY <2>1, <2>2, ZsetApiAssumption
  <2>4. WalkTypeOK' /\ Standing'
    BY <1>1, <2>1, SearchType DEF Searches, TypeOK, listVars
  <2>5. pc' = what
    BY <2>1 DEF Search
  <2>6. CallTypeOK'
    BY <2>1, <2>3, <2>5 DEF CallTypeOK, TypeOK
  <2>7. Calling'
    BY <1>1, <1>3, <2>1, <2>3, <2>5 DEF Calling
  <2> QED
    BY <2>4, <2>6, <2>7
<1> QED
  BY <1>4, <1>5, <1>6

LEMMA RemoveSteps ==
  ASSUME TypeOK, Sane, unlink \/ unlinkMissed \/ unlinkPartly
  PROVE  CallTypeOK' /\ WalkTypeOK' /\ Calling' /\ Standing'
<1>1. pc = "remove" /\ todo # <<>> /\ op \in ZaddRequests \cup IncrRequests /\ ~dangling
      /\ UNCHANGED callVars /\ op # NULL
      /\ (op.cmd = "INCR" => todo = op.pairs /\ added = 0 /\ changed = 0)
  BY DEF unlink, unlinkMissed, unlinkPartly, Ended, Sane, Calling, Standing, Searches
<1>2. pc' \in {"insert", "undefined"}
  BY DEF unlink, unlinkMissed, unlinkPartly, Search
<1>3. CallTypeOK'
  BY <1>1, <1>2 DEF CallTypeOK, TypeOK, callVars
<1>4. Calling'
  BY <1>1, <1>2 DEF Calling, callVars
<1>5. CASE unlink
  <2>1. Search("insert", 1) /\ dangling' = dangling /\ levels \in Levels
    BY <1>5 DEF unlink, TypeOK
  <2> QED
    BY <1>1, <1>3, <1>4, <2>1, SearchType DEF Searches
<1>6. CASE unlinkMissed
  <2>1. Search("insert", 1) /\ dangling' = dangling /\ levels \in Levels
    BY <1>6 DEF unlinkMissed, TypeOK, listVars
  <2> QED
    BY <1>1, <1>3, <1>4, <2>1, SearchType DEF Searches
<1>7. CASE unlinkPartly
  <2>1. pc' = "undefined" /\ UNCHANGED walkVars
    BY <1>7 DEF unlinkPartly
  <2>2. WalkTypeOK' /\ Standing'
    BY <2>1 DEF WalkTypeOK, TypeOK, walkVars, Standing, Searches
  <2> QED
    BY <1>3, <1>4, <2>2
<1> QED
  BY <1>5, <1>6, <1>7

LEMMA SpliceSteps ==
  ASSUME TypeOK, Sane, splice
  PROVE  CallTypeOK' /\ WalkTypeOK' /\ Calling' /\ Standing'
<1>1. PICK t \in Towers, h \in Levels : Splices(t, h)
  BY SpliceLinks
<1>2. pc = "insert" /\ todo # <<>> /\ op \in ZaddRequests \cup IncrRequests /\ op # NULL
      /\ (op.cmd = "INCR" => todo = op.pairs)
  BY DEF splice, Ended, Sane, Calling
<1>3. /\ NextPair /\ StopSearch
      /\ added' = added + IF old = NULL THEN 1 ELSE 0
      /\ changed' = changed + IF old = NULL THEN 0 ELSE 1
  BY DEF splice
<1>4. Tail(todo) \in Seq(Pairs) /\ Member \in Members
  <2>1. todo # <<>>
    BY <1>2
  <2>2. todo \in Seq(Pairs)
    BY DEF TypeOK
  <2>3. Tail(todo) \in Seq(Pairs)
    BY ONLY <2>1, <2>2
  <2>4. Member \in Members
    BY <2>1, PairTypes
  <2> QED
    BY <2>3, <2>4
<1>5. CallTypeOK'
  <2>1. added' \in Nat /\ changed' \in Nat
    BY <1>3 DEF TypeOK
  <2> QED
    BY <1>3, <1>4, <2>1 DEF CallTypeOK, TypeOK, NextPair
<1>6. WalkTypeOK' /\ Standing'
  BY <1>3, LevelsFacts DEF NextPair, StopSearch, WalkTypeOK, Standing, Searches, Nodes
<1>7. table'[Member] # NULL
  BY <1>1, <1>4, SkipListAssumption DEF Splices, TypeOK, Nodes
<1>8. Calling'
  <2>1. pc' = "pair" /\ todo' = Tail(todo) /\ op' = op
    BY <1>3 DEF NextPair
  <2>2. op.cmd = "INCR" => Tail(todo) = <<>> /\ op.pairs[1].member = Member
    BY <1>2, ZaddPairs DEF Member
  <2> QED
    BY <1>2, <1>7, <2>1, <2>2 DEF Calling
<1> QED
  BY <1>5, <1>6, <1>8

LEMMA RangeSteps ==
  ASSUME TypeOK, Sane, countedMin \/ ranked \/ emit
  PROVE  CallTypeOK' /\ WalkTypeOK' /\ Calling' /\ Standing'
<1>1. UNCHANGED listVars
  BY DEF countedMin, ranked, emit
<1>2. CASE countedMin
  <2>1. pc = "min" /\ Search("max", 0) /\ ~dangling' /\ op # NULL /\ low' = acc
        /\ UNCHANGED <<op, todo, old, out, added, changed, reply>>
    BY <1>1, <1>2 DEF countedMin, Ended, Sane, Calling, Standing, Searches, listVars
  <2>2. WalkTypeOK' /\ Standing'
    BY <2>1, SearchType DEF Searches, TypeOK
  <2>3. CallTypeOK' /\ Calling'
    BY <2>1 DEF Search, CallTypeOK, Calling, TypeOK
  <2> QED
    BY <2>2, <2>3
<1>3. CASE ranked
  <2>1. /\ pc = "rank" /\ op \in ZrangeRequests /\ op # NULL /\ ~dangling /\ Chained
        /\ at # NULL /\ at \in Nodes
        /\ pc' = "emit" /\ at' = next[0][at] /\ acc' = Last(op, size) - First(op, size) + 1
        /\ UNCHANGED <<listVars, callVars, lvl, dirty, children>>
    BY <1>3 DEF ranked, Ended, Target, Sane, Calling, Standing, Searches, TypeOK
  <2>2. acc' \in Int
    <3>1. op.left \in Int /\ op.right \in Int /\ size \in Int
      BY <2>1, ZsetApiAssumption DEF ZrangeRequests, TypeOK
    <3>2. Last(op, size) \in Int /\ First(op, size) \in Int
      BY <3>1 DEF Last, First, Larger
    <3> QED
      BY <2>1, <3>2
  <2>3. at' \in Towers \cup {NULL} /\ (at' # NULL => HasLevel(at', 0))
    <3>1. 0 \in Levels /\ at \in Nodes
      BY <2>1, LevelsFacts DEF Nodes
    <3>2. next[0][at] \in Towers \cup {NULL}
      BY <3>1 DEF TypeOK
    <3>3. next[0][at] # NULL => HasLevel(next[0][at], 0)
      BY <2>1, <3>1 DEF Chained
    <3> QED
      BY <2>1, <3>2, <3>3
  <2>4. at' # HEAD /\ (at' # NULL => HasLevel(at, 0)')
    BY <1>1, <2>3, SkipListAssumption DEF HasLevel, listVars, Nodes
  <2>5. CallTypeOK' /\ Calling'
    BY <2>1 DEF CallTypeOK, Calling, TypeOK, callVars
  <2>6. WalkTypeOK'
    BY <2>1, <2>2, <2>3 DEF WalkTypeOK, TypeOK, Nodes
  <2>7. Standing'
    BY <1>1, <2>1, <2>4 DEF Standing, Searches, listVars
  <2> QED
    BY <2>5, <2>6, <2>7
<1>4. CASE emit
  <2>1. /\ pc = "emit" /\ acc > 0 /\ at # NULL /\ at # HEAD /\ HasLevel(at, 0)
        /\ ~dangling /\ Chained /\ op # NULL
        /\ out' = Append(out, KeyOf(at)) /\ at' = next[0][at] /\ acc' = acc - 1
        /\ UNCHANGED <<listVars, pc, op, todo, old, low, added, changed, reply, lvl, dirty, children>>
    BY <1>4 DEF emit, More, Sane, Calling, Standing, TypeOK
  <2>2. at \in Towers /\ KeyOf(at) \in Members
    BY <2>1 DEF HasLevel, KeyOf, TypeOK, Tower
  <2>3. at' \in Towers \cup {NULL} /\ (at' # NULL => HasLevel(at', 0))
    <3>1. 0 \in Levels /\ at \in Nodes
      BY <2>1, <2>2, LevelsFacts DEF Nodes
    <3>2. next[0][at] \in Towers \cup {NULL}
      BY <3>1 DEF TypeOK
    <3>3. next[0][at] # NULL => HasLevel(next[0][at], 0)
      BY <2>1, <3>1 DEF Chained
    <3> QED
      BY <2>1, <3>2, <3>3
  <2>4. at' # HEAD /\ (at' # NULL => HasLevel(at, 0)')
    BY <1>1, <2>3, SkipListAssumption DEF HasLevel, listVars, Nodes
  <2>5. CallTypeOK' /\ Calling'
    <3>1. Append(out, KeyOf(at)) \in Seq(Members)
      <4>1. out \in Seq(Members)
        BY DEF TypeOK
      <4> QED
        BY ONLY <4>1, <2>2
    <3>2. CallTypeOK'
      BY <2>1, <3>1 DEF CallTypeOK, TypeOK
    <3>3. Calling'
      <4>1. pc' = "emit" /\ op' # NULL
        BY <2>1
      <4> QED
        BY ONLY <4>1 DEF Calling
    <3> QED
      BY <3>2, <3>3
  <2>6. WalkTypeOK'
    <3>1. acc' \in Int /\ at' \in Nodes \cup {NULL}
      <4>1. acc \in Int
        BY DEF TypeOK
      <4>2. acc' = acc - 1
        BY <2>1
      <4>3. acc' \in Int
        BY ONLY <4>1, <4>2
      <4>4. at' \in Nodes \cup {NULL}
        BY ONLY <2>3 DEF Nodes
      <4> QED
        BY <4>3, <4>4
    <3>2. UNCHANGED <<lvl, dirty, children>>
      BY <2>1
    <3> QED
      BY <3>1, <3>2 DEF WalkTypeOK, TypeOK
  <2>7. Standing'
    BY <1>1, <2>1, <2>4 DEF Standing, Searches, listVars
  <2> QED
    BY <2>5, <2>6, <2>7
<1> QED
  BY <1>2, <1>3, <1>4

-----------------------------------------------------------------------------
(* The invariant                                                           *)

LEMMA InitSane == Init => TypeOK /\ Sane
<1> SUFFICES ASSUME Init PROVE TypeOK /\ Sane
  OBVIOUS
<1>1. ListTypeOK /\ Owned /\ Chained
  BY EmptySane DEF Init, Empty
<1>2. CallTypeOK /\ WalkTypeOK
  BY ReplyTypes, LevelsFacts DEF Init, CallTypeOK, WalkTypeOK, Nodes
<1>3. Calling /\ Standing
  BY DEF Init, Calling, Standing, Searches
<1> QED
  BY <1>1, <1>2, <1>3, TypeParts DEF Sane

LEMMA NextSane == TypeOK /\ Sane /\ [Next]_vars => TypeOK' /\ Sane'
<1> SUFFICES ASSUME TypeOK, Sane, [Next]_vars
             PROVE  TypeOK' /\ Sane'
  OBVIOUS
<1>1. ListTypeOK' /\ Owned' /\ (~dangling' => Chained')
  <2>1. CASE unlink
    BY <2>1, UnlinkSane
  <2>2. CASE splice
    BY <2>2, SpliceSane
  <2>3. CASE drop
    BY <2>3, DropEmpties
  <2>4. CASE unlinkPartly
    BY <2>4, PartlyKept
  <2>5. CASE UNCHANGED listVars
    BY <2>5, ListKept
  <2>6. UNCHANGED listVars \/ unlink \/ splice \/ drop \/ unlinkPartly
    <3>1. CASE Receive
      BY <3>1 DEF Receive, RecvZadd, RecvPlain, RecvZcount, RecvZrange, Begin
    <3>2. CASE Serve
      BY <3>2 DEF Serve, refuse, zcard, hop, down, lookup, lookupDangling, unlinkMissed,
         zadded, incremented, countedMin, counted, ranked, emit, emitted
    <3>3. CASE UNCHANGED vars
      BY <3>3 DEF vars
    <3> QED
      BY <3>1, <3>2, <3>3 DEF Next
  <2> QED
    BY <2>1, <2>2, <2>3, <2>4, <2>5, <2>6
<1>2. CallTypeOK' /\ WalkTypeOK' /\ Calling' /\ Standing'
  <2>1. CASE Receive
    BY <2>1, ReceiveSteps
  <2>2. CASE Serve
    BY <2>2, AnswerSteps, WalkSteps, LookupSteps, RemoveSteps, SpliceSteps, RangeSteps DEF Serve
  <2>3. CASE UNCHANGED vars
    <3>1. CallTypeOK' /\ WalkTypeOK'
      BY <2>3 DEF vars, callVars, walkVars, TypeOK, CallTypeOK, WalkTypeOK
    <3>2. Calling'
      BY <2>3 DEF vars, callVars, listVars, Sane, Calling
    <3>3. Standing'
      BY <2>3 DEF vars, walkVars, listVars, Sane, Standing, HasLevel
    <3> QED
      BY <3>1, <3>2, <3>3
  <2> QED
    BY <2>1, <2>2, <2>3 DEF Next
<1>3. TypeOK'
  BY <1>1, <1>2 DEF TypeOK, ListTypeOK, WalkTypeOK, CallTypeOK
<1> QED
  BY <1>1, <1>2, <1>3 DEF Sane

THEOREM SaneInvariant == Spec => [](TypeOK /\ Sane)
BY InitSane, NextSane, PTL DEF Spec

(* Every variable keeps its type: among them the members ZRANGE collects   *)
(* from the towers it walks over, and the score INCR answers with.         *)
THEOREM TypeCorrect == Spec => []TypeOK
BY SaneInvariant, PTL

-----------------------------------------------------------------------------
(* The list by positions: the sentinels are at 0, the towers at 1..Count.  *)

Count == Len(order)
NodeAt(p) == IF p = 0 THEN HEAD ELSE order[p]

(* The node at position p reaches up to level i.                           *)
Tall(p, i) == p = 0 \/ tower[order[p]].height >= i

(* On level i the node at q follows the one at p; q is Count + 1 at the    *)
(* end of the level.                                                       *)
Follows(i, p, q) ==
  /\ IF q = Count + 1 THEN next[i][NodeAt(p)] = NULL
     ELSE next[i][NodeAt(p)] = order[q] /\ Tall(q, i)
  /\ span[i][NodeAt(p)] = q - p
  /\ \A r \in (p + 1)..(q - 1) : ~Tall(r, i)

Linked ==
  \A i \in 0..levels, p \in 0..Count :
    Tall(p, i) => \E q \in (p + 1)..(Count + 1) : Follows(i, p, q)

Sorted == \A a, b \in DOMAIN order : a < b => ScoreOf(order[a]) < ScoreOf(order[b])

Lowered ==
  /\ \A t \in Towers : tower[t] # NULL => tower[t].height <= levels
  /\ \A i \in Levels : i > levels => next[i][HEAD] = NULL

Shape == Linked /\ Sorted /\ Lowered /\ size = Count

(* The score the search looks for.                                         *)
Sought == IF pc = "remove" THEN old ELSE NewScore

(* It has come to position p, and went down a level at the last node with  *)
(* a lower score.                                                          *)
WentDown(p, j) ==
  \E d \in 0..p :
    /\ dirty[j] = NodeAt(d) /\ Tall(d, j) /\ (pc = "insert" => children[j] = d + 1)
    /\ \A r \in (d + 1)..Count : Tall(r, j) => ScoreOf(order[r]) >= Sought

CameTo(p) ==
  /\ at = NodeAt(p) /\ Tall(p, lvl) /\ (p # 0 => ScoreOf(order[p]) < Sought)
  /\ pc = "insert" => acc = p + 1
  /\ \A j \in Levels : j > levels => dirty[j] = HEAD /\ children[j] = 1
  /\ \A j \in Levels : lvl < j /\ j <= levels => WentDown(p, j)

(* The pair being stored is about to tie with another score.               *)
Ties == \E t \in Towers : tower[t] # NULL /\ ScoreOf(t) = NewScore

Walk ==
  /\ pc \in {"remove", "insert"} => lvl <= levels
  /\ pc = "remove" => table[Member] # NULL /\ old = ScoreOf(table[Member])
  /\ pc = "insert" => table[Member] = NULL
  /\ pc \in {"remove", "insert"} => (pc = "insert" /\ Ties) \/ \E p \in 0..Count : CameTo(p)

Strong == ~tied => Shape /\ Walk /\ ~dangling /\ pc # "undefined"

-----------------------------------------------------------------------------
(* Positions                                                               *)

(* What the lemmas below assume of a state without ties.                   *)
Fine == TypeOK /\ Chained /\ Shape

LEMMA Positions ==
  ASSUME Fine
  PROVE  /\ Count \in Nat /\ DOMAIN order = 1..Count /\ levels \in Levels /\ levels \in Nat
         /\ 0..levels \subseteq Levels
         /\ \A p \in 1..Count :
              /\ order[p] \in Towers /\ order[p] # HEAD /\ order[p] # NULL
              /\ tower[order[p]] \in Tower
              /\ ScoreOf(order[p]) \in Int /\ tower[order[p]].height \in 0..levels
              /\ tower[order[p]].member \in Members
         /\ \A p, q \in 1..Count : order[p] = order[q] => p = q
         /\ \A t \in Towers : tower[t] # NULL => \E p \in 1..Count : order[p] = t
<1>1. Count \in Nat /\ DOMAIN order = 1..Count /\ levels \in Levels /\ levels \in Nat
  BY LevelsFacts DEF Fine, TypeOK, Count
<1>2. 0..levels \subseteq Levels
  BY <1>1, LevelsFacts
<1>3. ASSUME NEW p \in 1..Count
      PROVE  /\ order[p] \in Towers /\ order[p] # HEAD /\ order[p] # NULL
             /\ tower[order[p]] \in Tower
             /\ ScoreOf(order[p]) \in Int /\ tower[order[p]].height \in 0..levels
             /\ tower[order[p]].member \in Members
  <2>1. order[p] \in Towers /\ order[p] # HEAD /\ order[p] # NULL
    BY <1>1, SkipListAssumption DEF Fine, TypeOK, Nodes
  <2>2. tower[order[p]] # NULL
    BY <1>1, <2>1 DEF Fine, Chained
  <2>3. tower[order[p]] \in Tower
    BY <2>1, <2>2 DEF Fine, TypeOK
  <2>4. tower[order[p]].height <= levels
    BY <2>1, <2>2 DEF Fine, Shape, Lowered
  <2>5. /\ tower[order[p]].member \in Members /\ tower[order[p]].score \in Int
        /\ tower[order[p]].height \in Levels
    BY <2>3 DEF Tower
  <2>6. tower[order[p]].height \in 0..levels
    <3>1. PICK k : k = tower[order[p]].height
      OBVIOUS
    <3>2. k \in Nat /\ k <= levels
      BY <2>4, <2>5, <3>1, LevelsFacts
    <3> QED
      BY <1>1, <3>1, <3>2
  <2> QED
    BY <2>1, <2>3, <2>5, <2>6 DEF ScoreOf
<1>4. \A p, q \in 1..Count : order[p] = order[q] => p = q
  BY <1>1 DEF Fine, Chained
<1>5. \A t \in Towers : tower[t] # NULL => \E p \in 1..Count : order[p] = t
  BY <1>1 DEF Fine, Chained
<1> QED
  BY <1>1, <1>2, <1>3, <1>4, <1>5

LEMMA NodesApart ==
  ASSUME Fine, NEW p \in 0..Count, NEW q \in 0..Count
  PROVE  /\ NodeAt(p) \in Nodes
         /\ NodeAt(p) = NodeAt(q) => p = q
         /\ NodeAt(p) = HEAD <=> p = 0
BY Positions DEF NodeAt, Nodes

(* The scores along the order: a lower score is further to the front.      *)
LEMMA InOrder ==
  ASSUME Fine, NEW p \in 1..Count, NEW q \in 1..Count
  PROVE  /\ p <= q => ScoreOf(order[p]) <= ScoreOf(order[q])
         /\ p < q => ScoreOf(order[p]) < ScoreOf(order[q])
         /\ ScoreOf(order[p]) < ScoreOf(order[q]) => p < q
         /\ ScoreOf(order[p]) = ScoreOf(order[q]) => p = q
<1>1. /\ p \in DOMAIN order /\ q \in DOMAIN order /\ p \in Nat /\ q \in Nat
      /\ ScoreOf(order[p]) \in Int /\ ScoreOf(order[q]) \in Int
  BY Positions
<1>2. /\ p < q => ScoreOf(order[p]) < ScoreOf(order[q])
      /\ q < p => ScoreOf(order[q]) < ScoreOf(order[p])
  BY <1>1 DEF Fine, Shape, Sorted
<1>3. p < q \/ p = q \/ q < p
  BY <1>1
<1> QED
  BY <1>1, <1>2, <1>3

(* Every node is on level 0, and level by level the sentinels are.         *)
LEMMA TallFacts ==
  ASSUME Fine
  PROVE  /\ \A p \in 0..Count : Tall(p, 0)
         /\ \A i \in Levels : Tall(0, i)
         /\ \A p \in 0..Count, i, j \in Levels : Tall(p, i) /\ j <= i => Tall(p, j)
         /\ \A p \in 1..Count, i \in Levels : Tall(p, i) => i <= levels
<1>1. \A p \in 0..Count : p = 0 \/ p \in 1..Count
  BY Positions
<1>2. \A p \in 1..Count : tower[order[p]].height \in Nat /\ tower[order[p]].height <= levels
  BY Positions
<1> QED
  BY <1>1, <1>2, Positions, LevelsFacts DEF Tall

(* What follows a node.                                                    *)
LEMMA Successor ==
  ASSUME Fine, NEW i \in 0..levels, NEW p \in 0..Count, Tall(p, i)
  PROVE  \E q \in (p + 1)..(Count + 1) :
           /\ Follows(i, p, q)
           /\ q = Count + 1 <=> next[i][NodeAt(p)] = NULL
           /\ q # Count + 1 => q \in 1..Count /\ next[i][NodeAt(p)] = order[q] /\ Tall(q, i)
           /\ span[i][NodeAt(p)] = q - p
           /\ \A r \in (p + 1)..(q - 1) : ~Tall(r, i)
           /\ \A r \in (p + 1)..Count : Tall(r, i) => q <= r
<1>1. PICK q \in (p + 1)..(Count + 1) : Follows(i, p, q)
  BY DEF Fine, Shape, Linked
<1>2. Count \in Nat /\ p \in Nat /\ q \in Nat
  BY Positions
<1>3. q # Count + 1 => q \in 1..Count /\ next[i][NodeAt(p)] = order[q] /\ Tall(q, i)
  BY <1>1, <1>2 DEF Follows
<1>4. q = Count + 1 <=> next[i][NodeAt(p)] = NULL
  BY <1>1, <1>3, Positions DEF Follows
<1>5. span[i][NodeAt(p)] = q - p /\ \A r \in (p + 1)..(q - 1) : ~Tall(r, i)
  BY <1>1 DEF Follows
<1>6. \A r \in (p + 1)..Count : Tall(r, i) => q <= r
  BY <1>2, <1>5
<1> QED
  BY <1>1, <1>3, <1>4, <1>5, <1>6

LEMMA Successor0 ==
  ASSUME Fine, NEW p \in 0..Count
  PROVE  /\ next[0][NodeAt(p)] = NULL <=> p = Count
         /\ p # Count => p + 1 \in 1..Count /\ next[0][NodeAt(p)] = order[p + 1]
<1>1. 0 \in 0..levels /\ Tall(p, 0) /\ Count \in Nat /\ \A r \in (p + 1)..Count : Tall(r, 0)
  BY Positions, TallFacts
<1>2. PICK q \in (p + 1)..(Count + 1) :
        /\ q = Count + 1 <=> next[0][NodeAt(p)] = NULL
        /\ q # Count + 1 => q \in 1..Count /\ next[0][NodeAt(p)] = order[q] /\ Tall(q, 0)
        /\ \A r \in (p + 1)..Count : Tall(r, 0) => q <= r
  BY <1>1, Successor
<1>3. p # Count => p + 1 \in (p + 1)..Count
  BY <1>1
<1>4. q = p + 1
  BY <1>1, <1>2, <1>3
<1> QED
  BY <1>1, <1>2, <1>4

-----------------------------------------------------------------------------
(* A search under way                                                      *)

(* The state the search steps start from: no tie, now or to come.          *)
Seeking ==
  /\ TypeOK /\ Sane /\ Fine /\ Walk /\ ~dangling
  /\ pc \in {"remove", "insert"} /\ ~(pc = "insert" /\ Ties)

LEMMA SeekingTypes ==
  ASSUME Seeking
  PROVE  /\ Sought \in Int /\ Member \in Members /\ Member \in Nat
         /\ todo # <<>> /\ lvl \in 0..levels
         /\ \E p \in 0..Count : CameTo(p)
<1>1. todo # <<>> /\ (pc = "remove" => old # NULL) /\ old \in Int \cup {NULL}
  BY DEF Seeking, Sane, Calling, TypeOK
<1>2. Member \in Members /\ NewScore \in Int
  BY <1>1, PairTypes DEF Seeking
<1>3. Sought \in Int
  BY <1>1, <1>2 DEF Sought
<1>4. lvl <= levels /\ \E p \in 0..Count : CameTo(p)
  BY DEF Seeking, Walk
<1>5. lvl \in Nat
  BY LevelsFacts DEF Seeking, TypeOK
<1> QED
  BY <1>1, <1>2, <1>3, <1>4, <1>5, Positions, ZsetApiAssumption DEF Seeking

(* The tower a removal looks for is in the order.                          *)
LEMMA TheTarget ==
  ASSUME Seeking, pc = "remove"
  PROVE  \E k \in 1..Count :
           order[k] = table[Member] /\ ScoreOf(order[k]) = old /\ KeyOf(order[k]) = Member
<1>1. table[Member] # NULL /\ old = ScoreOf(table[Member]) /\ Member \in Members
  BY SeekingTypes DEF Seeking, Walk
<1>2. table[Member] \in Towers /\ tower[table[Member]] # NULL /\ tower[table[Member]].member = Member
  BY <1>1 DEF Seeking, Sane, Owned, TypeOK
<1>3. PICK k \in 1..Count : order[k] = table[Member]
  BY <1>2, Positions DEF Seeking
<1> QED
  BY <1>1, <1>2, <1>3, SkipListAssumption DEF KeyOf, Nodes

(* The search goes on exactly as long as the scores are lower.             *)
LEMMA AdvanceBelow ==
  ASSUME Seeking, NEW q \in 1..Count, next[lvl][at] = order[q]
  PROVE  Advance <=> ScoreOf(order[q]) < Sought
<1>1. order[q] # NULL /\ order[q] \in Towers /\ tower[order[q]] # NULL /\ ScoreOf(order[q]) \in Int
  BY Positions, SkipListAssumption DEF Seeking
<1>2. CASE pc = "remove"
  <2>1. PICK k \in 1..Count :
          order[k] = table[Member] /\ ScoreOf(order[k]) = old /\ KeyOf(order[k]) = Member
    BY <1>2, TheTarget
  <2>2. ScoreOf(order[q]) = old => KeyOf(order[q]) = Member
    BY <2>1, InOrder DEF Seeking
  <2>3. ~(Member < Member)
    BY SeekingTypes
  <2>4. Advance <=> ScoreOf(order[q]) < old \/ (ScoreOf(order[q]) = old /\ KeyOf(order[q]) < Member)
    BY <1>1, <1>2 DEF Advance
  <2> QED
    BY <1>2, <2>2, <2>3, <2>4 DEF Sought
<1>3. CASE pc = "insert"
  <2>1. ScoreOf(order[q]) # NewScore
    BY <1>1, <1>3 DEF Seeking, Ties
  <2>2. Advance <=> ScoreOf(order[q]) < NewScore
    BY <1>1, <1>3, <2>1 DEF Advance
  <2> QED
    BY <1>3, <2>2 DEF Sought
<1> QED
  BY <1>2, <1>3 DEF Seeking

(* Where it does not go on, no later node of the level has a lower score.  *)
LEMMA StopsBefore ==
  ASSUME Seeking, ~Advance, NEW p \in 0..Count, CameTo(p)
  PROVE  \A r \in (p + 1)..Count : Tall(r, lvl) => ScoreOf(order[r]) >= Sought
<1>1. lvl \in 0..levels /\ at = NodeAt(p) /\ Tall(p, lvl) /\ Sought \in Int
  BY SeekingTypes DEF CameTo
<1>2. PICK q \in (p + 1)..(Count + 1) :
        /\ q # Count + 1 => q \in 1..Count /\ next[lvl][NodeAt(p)] = order[q]
        /\ \A r \in (p + 1)..Count : Tall(r, lvl) => q <= r
  BY <1>1, Successor DEF Seeking
<1>3. SUFFICES ASSUME NEW r \in (p + 1)..Count, Tall(r, lvl)
               PROVE  ScoreOf(order[r]) >= Sought
  OBVIOUS
<1>4. q <= r /\ r \in 1..Count /\ q # Count + 1 /\ Count \in Nat
  BY <1>2, <1>3, Positions DEF Seeking
<1>5. q \in 1..Count /\ ~(ScoreOf(order[q]) < Sought)
  BY <1>1, <1>2, <1>4, AdvanceBelow
<1>6. ScoreOf(order[q]) <= ScoreOf(order[r])
  BY <1>4, <1>5, InOrder DEF Seeking
<1>7. ScoreOf(order[q]) \in Int /\ ScoreOf(order[r]) \in Int
  BY <1>4, <1>5, Positions DEF Seeking
<1> QED
  BY <1>1, <1>5, <1>6, <1>7

(* What the definitions above say of the next state when nothing they      *)
(* rest on has changed.                                                    *)
LEMMA ListSame ==
  ASSUME UNCHANGED listVars
  PROVE  /\ Count' = Count
         /\ \A p : NodeAt(p)' = NodeAt(p)
         /\ \A p, i : Tall(p, i)' <=> Tall(p, i)
         /\ \A x : ScoreOf(x)' = ScoreOf(x)
BY DEF listVars, Count, NodeAt, Tall, ScoreOf

LEMMA CallSame ==
  ASSUME UNCHANGED <<callVars, pc>>
  PROVE  Member' = Member /\ NewScore' = NewScore /\ Sought' = Sought
BY DEF callVars, Member, NewScore, Sought

LEMMA HopComes ==
  ASSUME Seeking, hop, NEW p \in 0..Count, CameTo(p)
  PROVE  \E q \in 0..Count : CameTo(q)'
<1>1. /\ lvl \in 0..levels /\ at = NodeAt(p) /\ Tall(p, lvl)
      /\ pc = "insert" => acc = p + 1
      /\ \A j \in Levels : j > levels => dirty[j] = HEAD /\ children[j] = 1
      /\ \A j \in Levels : lvl < j /\ j <= levels => WentDown(p, j)
  BY SeekingTypes DEF CameTo
<1>2. /\ Advance /\ at' = next[lvl][at]
      /\ acc' = IF pc = "remove" THEN acc ELSE acc + span[lvl][at]
      /\ UNCHANGED <<listVars, callVars, pc, lvl, dirty, children>>
  BY DEF hop
<1>3. PICK q \in (p + 1)..(Count + 1) :
        /\ q = Count + 1 <=> next[lvl][NodeAt(p)] = NULL
        /\ q # Count + 1 => q \in 1..Count /\ next[lvl][NodeAt(p)] = order[q] /\ Tall(q, lvl)
        /\ span[lvl][NodeAt(p)] = q - p
  BY <1>1, Successor DEF Seeking
<1>4. q \in 1..Count /\ next[lvl][at] = order[q] /\ Tall(q, lvl) /\ Count \in Nat
  BY <1>1, <1>2, <1>3, Positions DEF Advance, Seeking
<1>5. ScoreOf(order[q]) < Sought
  BY <1>2, <1>4, AdvanceBelow
<1>6. at' = NodeAt(q) /\ q # 0 /\ p < q
  BY <1>2, <1>3, <1>4 DEF NodeAt
<1>7. pc = "insert" => acc' = q + 1
  BY <1>1, <1>2, <1>3, <1>4
<1>8. ASSUME NEW j \in Levels, lvl < j, j <= levels
      PROVE  WentDown(q, j)'
  <2>1. PICK d \in 0..p :
          /\ dirty[j] = NodeAt(d) /\ Tall(d, j) /\ (pc = "insert" => children[j] = d + 1)
          /\ \A r \in (d + 1)..Count : Tall(r, j) => ScoreOf(order[r]) >= Sought
    BY <1>1, <1>8 DEF WentDown
  <2>2. d \in 0..q
    BY <1>4, <1>6
  <2>3. UNCHANGED <<listVars, dirty, children, pc, order>>
    BY <1>2 DEF listVars
  <2> QED
    BY <1>2, <2>1, <2>2, <2>3, ListSame, CallSame DEF WentDown
<1>9. CameTo(q)'
  <2>1. UNCHANGED <<listVars, dirty, children, pc, order, lvl, levels>>
    BY <1>2 DEF listVars
  <2> QED
    BY <1>1, <1>2, <1>4, <1>5, <1>6, <1>7, <1>8, <2>1, ListSame, CallSame DEF CameTo
<1> QED
  BY <1>4, <1>9

LEMMA DownComes ==
  ASSUME Seeking, down, NEW p \in 0..Count, CameTo(p)
  PROVE  CameTo(p)'
<1>1. /\ lvl \in 0..levels /\ at = NodeAt(p) /\ Tall(p, lvl)
      /\ p # 0 => ScoreOf(order[p]) < Sought
      /\ pc = "insert" => acc = p + 1
      /\ \A j \in Levels : j > levels => dirty[j] = HEAD /\ children[j] = 1
      /\ \A j \in Levels : lvl < j /\ j <= levels => WentDown(p, j)
  BY SeekingTypes DEF CameTo
<1>2. /\ ~Advance /\ lvl > 0 /\ lvl' = lvl - 1
      /\ dirty' = [dirty EXCEPT ![lvl] = at] /\ children' = [children EXCEPT ![lvl] = acc]
      /\ UNCHANGED <<listVars, callVars, pc, at, acc>>
  BY DEF down
<1>3. lvl \in Levels /\ lvl \in Nat /\ lvl - 1 \in Levels /\ p \in 0..p /\ Fine
  BY <1>1, <1>2, LevelsFacts, Positions DEF Seeking
<1>4. Tall(p, lvl - 1)
  BY <1>1, <1>3, TallFacts
<1>5. ASSUME NEW j \in Levels
      PROVE  /\ dirty'[j] = IF j = lvl THEN at ELSE dirty[j]
             /\ children'[j] = IF j = lvl THEN acc ELSE children[j]
  BY <1>2, <1>3 DEF Seeking, TypeOK
<1>6. ASSUME NEW j \in Levels, lvl - 1 < j, j <= levels
      PROVE  WentDown(p, j)'
  <2>1. PICK d \in 0..p :
          /\ dirty'[j] = NodeAt(d) /\ Tall(d, j) /\ (pc = "insert" => children'[j] = d + 1)
          /\ \A r \in (d + 1)..Count : Tall(r, j) => ScoreOf(order[r]) >= Sought
    <3>1. CASE j = lvl
      BY <1>1, <1>2, <1>3, <1>5, <3>1, StopsBefore
    <3>2. CASE j # lvl
      <4>1. lvl < j
        BY <1>3, <1>6, <3>2, LevelsFacts
      <4> QED
        BY <1>1, <1>5, <1>6, <3>2, <4>1 DEF WentDown
    <3> QED
      BY <3>1, <3>2
  <2>2. UNCHANGED <<listVars, pc, order>>
    BY <1>2 DEF listVars
  <2> QED
    BY <1>2, <2>1, <2>2, ListSame, CallSame DEF WentDown
<1>7. \A j \in Levels : j > levels => dirty'[j] = HEAD /\ children'[j] = 1
  <2>1. \A j \in Levels : j > levels => j # lvl
    BY <1>1, <1>3, LevelsFacts, Positions
  <2> QED
    BY <1>1, <1>5, <2>1
<1>8. UNCHANGED <<listVars, pc, order, levels, at, acc>>
  BY <1>2 DEF listVars
<1> QED
  BY <1>1, <1>2, <1>4, <1>6, <1>7, <1>8, ListSame, CallSame DEF CameTo

(* A search for a pair begins at the sentinels.                            *)
LEMMA SearchComes ==
  ASSUME TypeOK, NEW what \in {"remove", "insert"}, Search(what, 1), UNCHANGED levels
  PROVE  CameTo(0)' /\ lvl' <= levels'
<1>1. /\ pc' = what /\ lvl' = levels /\ at' = HEAD /\ acc' = 1
      /\ dirty' = [i \in Levels |-> HEAD] /\ children' = [i \in Levels |-> 1]
      /\ levels \in Nat /\ \A j \in Levels : ~(levels < j /\ j <= levels)
  BY LevelsFacts DEF Search, TypeOK
<1> QED
  BY <1>1 DEF CameTo, NodeAt, Tall

-----------------------------------------------------------------------------
(* The end of a search                                                     *)

(* The path goes through the last node of each level up to position p; on  *)
(* the levels to come it goes through the sentinel.                        *)
LEMMA PathPlaces ==
  ASSUME Seeking, lvl = 0, NEW p \in 0..Count, CameTo(p), NEW i \in 0..levels
  PROVE  \E d \in 0..p :
           /\ Path[i] = NodeAt(d) /\ Tall(d, i)
           /\ pc = "insert" => Split(i) = p - d
           /\ \A r \in (d + 1)..p : ~Tall(r, i)
<1>1. /\ at = NodeAt(p) /\ Tall(p, 0) /\ (p # 0 => ScoreOf(order[p]) < Sought)
      /\ pc = "insert" => acc = p + 1
      /\ \A j \in Levels : 0 < j /\ j <= levels => WentDown(p, j)
  BY DEF CameTo
<1>2. i \in Levels /\ i \in Nat /\ i <= levels /\ p \in Nat /\ Sought \in Int /\ Count \in Nat
  BY Positions, SeekingTypes DEF Seeking
<1>3. Path[i] = IF i = 0 THEN at ELSE dirty[i]
  BY <1>2 DEF Path, Seeking, TypeOK
<1>4. CASE i = 0
  <2>1. p \in 0..p /\ Path[i] = NodeAt(p) /\ Tall(p, i)
    BY <1>1, <1>2, <1>3, <1>4
  <2>2. pc = "insert" => Split(i) = p - p
    BY <1>1, <1>2, <1>4 DEF Split
  <2>3. \A r \in (p + 1)..p : ~Tall(r, i)
    BY <1>2
  <2> QED
    BY <2>1, <2>2, <2>3
<1>5. CASE i # 0
  <2>1. WentDown(p, i)
    BY <1>1, <1>2, <1>5
  <2>2. PICK d \in 0..p :
          /\ dirty[i] = NodeAt(d) /\ Tall(d, i) /\ (pc = "insert" => children[i] = d + 1)
          /\ \A r \in (d + 1)..Count : Tall(r, i) => ScoreOf(order[r]) >= Sought
    BY <2>1 DEF WentDown
  <2>3. pc = "insert" => Split(i) = p - d
    BY <1>1, <1>2, <1>5, <2>2 DEF Split
  <2>4. ASSUME NEW r \in (d + 1)..p, Tall(r, i) PROVE FALSE
    <3>1. r \in 1..Count /\ p \in 1..Count /\ r \in (d + 1)..Count /\ r <= p /\ p # 0
      BY <1>2
    <3>2. ScoreOf(order[r]) >= Sought /\ ScoreOf(order[p]) < Sought
      BY <1>1, <2>2, <2>4, <3>1
    <3>3. ScoreOf(order[r]) <= ScoreOf(order[p])
      BY <3>1, InOrder DEF Seeking
    <3>4. ScoreOf(order[r]) \in Int /\ ScoreOf(order[p]) \in Int
      BY <3>1, Positions DEF Seeking
    <3> QED
      BY <1>2, <3>2, <3>3, <3>4
  <2> QED
    BY <1>3, <1>5, <2>2, <2>3, <2>4
<1> QED
  BY <1>4, <1>5

(* A removal stands right before the tower it looks for.                   *)
LEMMA RemovalFinds ==
  ASSUME Seeking, Ended("remove"), NEW p \in 0..Count, CameTo(p)
  PROVE  /\ p + 1 \in 1..Count /\ Target = order[p + 1] /\ Target = table[Member]
         /\ ScoreOf(Target) = old /\ KeyOf(Target) = Member
<1>1. pc = "remove" /\ ~Advance /\ lvl = 0 /\ Sought = old /\ Fine
  BY DEF Ended, Seeking, Sought
<1>2. PICK k \in 1..Count :
        order[k] = table[Member] /\ ScoreOf(order[k]) = old /\ KeyOf(order[k]) = Member
  BY <1>1, TheTarget
<1>3. at = NodeAt(p) /\ (p # 0 => ScoreOf(order[p]) < old)
  BY <1>1 DEF CameTo
<1>4. k > p
  <2>1. p \in 1..Count => p < k
    BY <1>1, <1>2, <1>3, InOrder
  <2> QED
    BY <2>1
<1>5. p + 1 \in 1..Count /\ Target = order[p + 1] /\ k \in (p + 1)..Count /\ Count \in Nat
  BY <1>1, <1>3, <1>4, Positions, Successor0 DEF Target
<1>6. ~(ScoreOf(order[p + 1]) < old)
  BY <1>1, <1>3, <1>5, AdvanceBelow DEF Target
<1>7. ~(p + 1 < k)
  BY <1>1, <1>2, <1>5, <1>6, InOrder
<1>8. k = p + 1
  BY <1>4, <1>7
<1> QED
  BY <1>2, <1>5, <1>8

LEMMA NeverMisses ==
  ASSUME Seeking
  PROVE  ~unlinkMissed
<1> SUFFICES ASSUME unlinkMissed PROVE FALSE
  OBVIOUS
<1>1. Ended("remove") /\ ~Hit
  BY DEF unlinkMissed
<1>2. PICK p \in 0..Count : CameTo(p)
  BY SeekingTypes
<1>3. p + 1 \in 1..Count /\ Target = order[p + 1] /\ ScoreOf(Target) = old /\ KeyOf(Target) = Member
  BY <1>1, <1>2, RemovalFinds
<1>4. Target # NULL
  BY <1>3, Positions DEF Seeking
<1> QED
  BY <1>1, <1>3, <1>4 DEF Hit

(* Before the tower after p the path leads to it on each of its levels,    *)
(* and past it on the others.                                              *)
LEMMA PathLeads ==
  ASSUME Fine, NEW p \in 0..Count, NEW d \in 0..p, NEW i \in 0..levels, Tall(d, i),
         \A r \in (d + 1)..p : ~Tall(r, i)
  PROVE  \E q \in (p + 1)..(Count + 1) :
           /\ Follows(i, d, q)
           /\ p + 1 \in 1..Count /\ Tall(p + 1, i) => q = p + 1
           /\ ~Tall(p + 1, i) /\ p # Count => q > p + 1
<1>1. d \in 0..Count /\ p \in Nat /\ Count \in Nat
  BY Positions
<1>2. PICK q \in (d + 1)..(Count + 1) :
        /\ Follows(i, d, q)
        /\ q # Count + 1 => q \in 1..Count /\ Tall(q, i)
        /\ \A r \in (d + 1)..Count : Tall(r, i) => q <= r
  BY <1>1, Successor
<1>3. q > p
  <2>1. q \in (d + 1)..p => ~Tall(q, i)
    OBVIOUS
  <2> QED
    BY <1>1, <1>2, <2>1
<1>4. q \in (p + 1)..(Count + 1)
  BY <1>1, <1>3
<1>5. p + 1 \in 1..Count /\ Tall(p + 1, i) => q = p + 1
  <2>1. p + 1 \in 1..Count => p + 1 \in (d + 1)..Count
    BY <1>1
  <2> QED
    BY <1>1, <1>2, <1>4, <2>1
<1>6. ~Tall(p + 1, i) /\ p # Count => q > p + 1
  BY <1>1, <1>2, <1>4
<1> QED
  BY <1>2, <1>4, <1>5, <1>6

(* It finds the tower on all of its levels and on no other.                *)
LEMMA NeverPartly ==
  ASSUME Seeking
  PROVE  ~unlinkPartly
<1> SUFFICES ASSUME unlinkPartly PROVE FALSE
  OBVIOUS
<1>1. Ended("remove") /\ Meets # 0..tower[Target].height /\ pc = "remove" /\ lvl = 0 /\ Fine
  BY DEF unlinkPartly, Ended, Seeking
<1>2. PICK p \in 0..Count : CameTo(p)
  BY SeekingTypes
<1>3. /\ p + 1 \in 1..Count /\ Target = order[p + 1] /\ Target = table[Member]
      /\ KeyOf(Target) = Member
  BY <1>1, <1>2, RemovalFinds
<1>4. tower[Target].height \in 0..levels /\ Target # NULL /\ levels \in Nat /\ Count \in Nat
  BY <1>1, <1>3, Positions
<1>5. ASSUME NEW i \in 0..levels
      PROVE  i \in Meets <=> i <= tower[Target].height
  <2>1. PICK d \in 0..p : Path[i] = NodeAt(d) /\ Tall(d, i) /\ \A r \in (d + 1)..p : ~Tall(r, i)
    BY <1>1, <1>2, PathPlaces
  <2>2. PICK q \in (p + 1)..(Count + 1) :
           /\ Follows(i, d, q)
           /\ p + 1 \in 1..Count /\ Tall(p + 1, i) => q = p + 1
           /\ ~Tall(p + 1, i) /\ p # Count => q > p + 1
    BY <1>1, <2>1, PathLeads
  <2>3. Tall(p + 1, i) <=> i <= tower[Target].height
    BY <1>3, <1>4 DEF Tall
  <2>4. i \in Meets <=> next[i][NodeAt(d)] # NULL /\ KeyOf(next[i][NodeAt(d)]) = Member
    <3>1. i \in Meets <=> next[i][Path[i]] # NULL /\ KeyOf(next[i][Path[i]]) = Member
      BY DEF Meets
    <3>2. Path[i] = NodeAt(d)
      BY <2>1
    <3> QED
      BY ONLY <3>1, <3>2
  <2>5. q # Count + 1 => next[i][NodeAt(d)] = order[q] /\ q \in 1..Count
    BY <1>4, <2>2 DEF Follows
  <2>6. q = Count + 1 => next[i][NodeAt(d)] = NULL
    BY <2>2 DEF Follows
  <2>7. CASE Tall(p + 1, i)
    <3>1. q = p + 1 /\ q # Count + 1
      BY <1>3, <1>4, <2>2, <2>7
    <3>2. next[i][NodeAt(d)] = Target
      BY <1>3, <2>5, <3>1
    <3> QED
      BY <1>3, <1>4, <2>3, <2>4, <2>7, <3>2
  <2>8. CASE ~Tall(p + 1, i)
    <3>1. q > p + 1
      BY <1>3, <1>4, <2>2, <2>8
    <3>2. ASSUME q # Count + 1, KeyOf(order[q]) = Member PROVE FALSE
      <4>1. q \in 1..Count /\ order[q] \in Towers /\ order[q] # HEAD /\ tower[order[q]] # NULL
        BY <1>1, <2>5, <3>2, Positions, SkipListAssumption
      <4>2. tower[order[q]].member = Member
        BY <3>2, <4>1 DEF KeyOf
      <4>3. order[q] = Target
        BY <1>1, <1>3, <4>1, <4>2 DEF Fine, Chained
      <4>4. q = p + 1
        BY <1>1, <1>3, <4>1, <4>3, Positions
      <4> QED
        BY <3>1, <4>4
    <3> QED
      BY <2>3, <2>4, <2>5, <2>6, <2>8, <3>2
  <2> QED
    BY <2>7, <2>8
<1>6. Meets \subseteq 0..levels
  BY DEF Meets
<1>7. 0..tower[Target].height \subseteq 0..levels
  BY <1>4
<1>8. \A i \in 0..levels : i \in 0..tower[Target].height <=> i <= tower[Target].height
  BY <1>4
<1>9. \A i : i \in Meets <=> i \in 0..tower[Target].height
  BY <1>5, <1>6, <1>7, <1>8
<1> QED
  BY <1>1, <1>9

-----------------------------------------------------------------------------
(* unlink: what stood after position p is gone                             *)

(* Where the tower now at position j stood.                                *)
Before(p, j) == IF j <= p THEN j ELSE j + 1

LEMMA UnlinkPositions ==
  ASSUME Seeking, unlink, NEW p \in 0..Count, CameTo(p)
  PROVE  /\ p + 1 \in 1..Count /\ Target = order[p + 1] /\ Target \in Towers
         /\ Count' = Count - 1 /\ levels' = levels
         /\ \A j \in 1..(Count - 1) :
              /\ Before(p, j) \in 1..Count /\ order'[j] = order[Before(p, j)]
              /\ tower'[order'[j]] = tower[order[Before(p, j)]]
         /\ \A j \in 0..(Count - 1) :
              /\ Before(p, j) \in 0..Count /\ NodeAt(j)' = NodeAt(Before(p, j))
              /\ \A i : Tall(j, i)' <=> Tall(Before(p, j), i)
         /\ \A t \in Towers : tower'[t] # NULL => tower'[t] = tower[t] /\ t # Target
<1>1. Ended("remove") /\ Fine /\ TypeOK /\ Sane
  BY DEF unlink, Seeking
<1>2. p + 1 \in 1..Count /\ Target = order[p + 1]
  BY <1>1, RemovalFinds
<1>3. Target \in Towers /\ tower' = [tower EXCEPT ![Target] = NULL] /\ levels' = levels
  BY <1>1, UnlinkTarget DEF unlink
<1>4. PICK k \in 1..Len(order) :
        /\ order[k] = Target
        /\ order' \in Seq(Towers) /\ Len(order') = Len(order) - 1
        /\ \A j \in 1..(Len(order) - 1) : order'[j] = IF j < k THEN order[j] ELSE order[j + 1]
  BY <1>1, UnlinkOrder
<1>5. k = p + 1 /\ Count \in Nat /\ Count' = Count - 1
  BY <1>1, <1>2, <1>4, Positions DEF Count
<1>6. ASSUME NEW j \in 1..(Count - 1)
      PROVE  /\ Before(p, j) \in 1..Count /\ order'[j] = order[Before(p, j)]
             /\ tower'[order'[j]] = tower[order[Before(p, j)]]
  <2>1. Before(p, j) \in 1..Count /\ Before(p, j) # p + 1
    BY <1>5 DEF Before
  <2>2. order'[j] = order[Before(p, j)]
    BY <1>4, <1>5 DEF Before, Count
  <2>3. order[Before(p, j)] # Target /\ order[Before(p, j)] \in Towers
    BY <1>1, <1>2, <2>1, Positions
  <2> QED
    BY <1>3, <2>1, <2>2, <2>3
<1>7. ASSUME NEW j \in 0..(Count - 1)
      PROVE  /\ Before(p, j) \in 0..Count /\ NodeAt(j)' = NodeAt(Before(p, j))
             /\ \A i : Tall(j, i)' <=> Tall(Before(p, j), i)
  <2>1. CASE j = 0
    BY <1>5, <2>1 DEF Before, NodeAt, Tall
  <2>2. CASE j # 0
    <3>1. j \in 1..(Count - 1) /\ Before(p, j) # 0
      BY <1>5, <2>2 DEF Before
    <3> QED
      BY <1>6, <2>2, <3>1 DEF NodeAt, Tall
  <2> QED
    BY <2>1, <2>2
<1>8. \A t \in Towers : tower'[t] # NULL => tower'[t] = tower[t] /\ t # Target
  BY <1>1, <1>3 DEF TypeOK
<1> QED
  BY <1>2, <1>3, <1>5, <1>6, <1>7, <1>8

LEMMA UnlinkSpans ==
  ASSUME TypeOK, Sane, unlink, NEW i \in 0..levels, NEW x \in Nodes, x # Target
  PROVE  span'[i][x] = IF x # Path[i] THEN span[i][x]
                       ELSE IF i <= tower[Target].height THEN span[i][x] + span[i][Target] - 1
                       ELSE span[i][x] - 1
<1>1. /\ Target \in Nodes /\ Path \in [Levels -> Nodes] /\ i \in Levels /\ ~(i > levels)
      /\ tower[Target].height \in Nat /\ i \in Nat
  <2>1. Target \in Towers /\ Path \in [Levels -> Nodes] /\ tower[Target].height \in Levels
    BY UnlinkTarget
  <2>2. levels \in Levels /\ levels \in Nat
    BY LevelsFacts DEF TypeOK
  <2>3. i \in Levels /\ i \in Nat /\ ~(i > levels)
    BY <2>2, LevelsFacts
  <2>4. tower[Target].height \in Nat
    BY <2>1, LevelsFacts
  <2> QED
    BY <2>1, <2>3, <2>4 DEF Nodes
<1>2. PICK T \in Nodes, u \in Nodes, h \in Nat : T = Target /\ u = Path[i] /\ h = tower[Target].height
  BY <1>1
<1>3. span'[i] = IF i > h THEN [span[i] EXCEPT ![u] = span[i][u] - 1]
                 ELSE [span[i] EXCEPT ![u] = span[i][u] + span[i][T] - 1, ![T] = 0]
  BY <1>1, <1>2 DEF unlink, Narrowed
<1>4. span[i] \in [Nodes -> Int] /\ x # T
  BY <1>1, <1>2 DEF TypeOK
<1>5. span[i][u] \in Int /\ span[i][T] \in Int
  BY <1>4
<1>6. CASE i > h
  BY <1>1, <1>2, <1>3, <1>4, <1>6
<1>7. CASE ~(i > h)
  <2>1. span'[i][x] = IF x = u THEN span[i][u] + span[i][T] - 1 ELSE span[i][x]
    BY <1>3, <1>4, <1>7
  <2> QED
    BY <1>1, <1>2, <1>7, <2>1
<1> QED
  BY <1>6, <1>7

LEMMA UnlinkLinked ==
  ASSUME Seeking, unlink, NEW p \in 0..Count, CameTo(p)
  PROVE  Linked'
<1>1. Fine /\ TypeOK /\ Sane /\ lvl = 0 /\ Count \in Nat /\ levels \in Nat
  BY Positions DEF unlink, Ended, Seeking
<1>2. /\ p + 1 \in 1..Count /\ Target = order[p + 1] /\ Target \in Towers
      /\ Count' = Count - 1 /\ levels' = levels
      /\ \A j \in 1..(Count - 1) : order'[j] = order[Before(p, j)]
      /\ \A j \in 0..(Count - 1) :
           /\ Before(p, j) \in 0..Count /\ NodeAt(j)' = NodeAt(Before(p, j))
           /\ \A i : Tall(j, i)' <=> Tall(Before(p, j), i)
  BY UnlinkPositions
<1>3. SUFFICES ASSUME NEW i \in 0..levels, NEW j \in 0..(Count - 1), Tall(Before(p, j), i)
               PROVE  \E w \in (j + 1)..Count : Follows(i, j, w)'
  <2>1. \A i \in 0..levels', j \in 0..Count' :
          Tall(j, i)' => \E w \in (j + 1)..(Count' + 1) : Follows(i, j, w)'
    BY <1>1, <1>2, <1>3
  <2> QED
    BY <2>1 DEF Linked
<1> DEFINE f == Before(p, j)
<1>4. f \in 0..Count /\ f # p + 1 /\ (j <= p => f = j) /\ (j > p => f = j + 1)
  BY <1>1 DEF Before
<1>5. ASSUME NEW w \in (j + 1)..Count,
             IF w = Count THEN next'[i][NodeAt(f)] = NULL
             ELSE next'[i][NodeAt(f)] = order[Before(p, w)] /\ Tall(Before(p, w), i),
             span'[i][NodeAt(f)] = w - j,
             \A r \in (j + 1)..(w - 1) : ~Tall(Before(p, r), i)
      PROVE  Follows(i, j, w)'
  <2>1. NodeAt(j)' = NodeAt(f)
    BY <1>2
  <2>2. w # Count => w \in 1..(Count - 1) /\ w \in 0..(Count - 1)
    BY <1>1
  <2>3. \A r \in (j + 1)..(w - 1) : r \in 0..(Count - 1)
    BY <1>1
  <2>4. \A r \in (j + 1)..(w - 1) : ~Tall(r, i)'
    BY <1>2, <1>5, <2>3
  <2>5. w = Count' + 1 <=> w = Count
    BY <1>1, <1>2
  <2>6. IF w = Count' + 1 THEN next'[i][NodeAt(j)'] = NULL
        ELSE next'[i][NodeAt(j)'] = order'[w] /\ Tall(w, i)'
    BY <1>2, <1>5, <2>1, <2>2, <2>5
  <2>7. span'[i][NodeAt(j)'] = w - j
    BY <1>5, <2>1
  <2> QED
    BY <2>4, <2>6, <2>7 DEF Follows
<1>6. PICK d \in 0..p : Path[i] = NodeAt(d) /\ Tall(d, i) /\ \A r \in (d + 1)..p : ~Tall(r, i)
  BY <1>1, PathPlaces
<1>7. PICK q \in (f + 1)..(Count + 1) :
        /\ Follows(i, f, q)
        /\ q = Count + 1 <=> next[i][NodeAt(f)] = NULL
        /\ q # Count + 1 => q \in 1..Count /\ next[i][NodeAt(f)] = order[q] /\ Tall(q, i)
        /\ span[i][NodeAt(f)] = q - f
        /\ \A r \in (f + 1)..(q - 1) : ~Tall(r, i)
        /\ \A r \in (f + 1)..Count : Tall(r, i) => q <= r
  BY <1>1, <1>3, <1>4, Successor
<1> DEFINE h == tower[Target].height
<1>8. Tall(p + 1, i) <=> i <= h
  BY <1>1, <1>2, Positions DEF Tall
<1>9. NodeAt(f) \in Nodes /\ NodeAt(f) # Target /\ (NodeAt(f) = Path[i] <=> f = d)
      /\ Target = NodeAt(p + 1) /\ d \in 0..Count /\ p + 1 \in 0..Count
  <2>1. Target = NodeAt(p + 1) /\ d \in 0..Count /\ p + 1 \in 0..Count
    BY <1>1, <1>2 DEF NodeAt
  <2> QED
    BY <1>1, <1>4, <1>6, <2>1, NodesApart
<1>10. next'[i][NodeAt(f)] = IF f = d /\ i <= h THEN next[i][Target] ELSE next[i][NodeAt(f)]
  <2>1. i \in Levels /\ h \in Nat /\ i \in Nat
    BY <1>1, <1>2, Positions
  <2>2. CASE i > h
    BY <1>1, <2>1, <2>2, UnlinkLinks
  <2>3. CASE i <= h
    <3>1. i \in 0..h
      BY <2>1, <2>3
    <3>2. next'[i][NodeAt(f)] = IF NodeAt(f) = Path[i] THEN next[i][Target] ELSE next[i][NodeAt(f)]
      BY <1>1, <1>9, <3>1, UnlinkLinks
    <3> QED
      BY <1>9, <2>3, <3>2
  <2> QED
    BY <2>1, <2>2, <2>3
<1>11. span'[i][NodeAt(f)] = IF f # d THEN span[i][NodeAt(f)]
                             ELSE IF i <= h THEN span[i][NodeAt(f)] + span[i][Target] - 1
                             ELSE span[i][NodeAt(f)] - 1
  BY <1>1, <1>9, UnlinkSpans
<1> HIDE DEF h, f
<1>12. CASE f = d /\ i <= h
  <2>1. p + 1 \in 0..Count /\ Tall(p + 1, i)
    BY <1>8, <1>9, <1>12
  <2>2. PICK e \in (p + 2)..(Count + 1) :
          /\ e = Count + 1 <=> next[i][NodeAt(p + 1)] = NULL
          /\ e # Count + 1 => e \in 1..Count /\ next[i][NodeAt(p + 1)] = order[e] /\ Tall(e, i)
          /\ span[i][NodeAt(p + 1)] = e - (p + 1)
          /\ \A r \in (p + 2)..(e - 1) : ~Tall(r, i)
    <3>1. p + 1 + 1 = p + 2
      BY <1>1
    <3> QED
      BY <1>1, <2>1, <3>1, Successor
  <2>3. q = p + 1 /\ j = d /\ j <= p
    <3>1. j = d /\ j <= p
      BY <1>1, <1>4, <1>12
    <3>2. p + 1 \in (f + 1)..Count
      BY <1>1, <1>2, <1>4, <3>1
    <3>3. q <= p + 1
      BY <1>7, <2>1, <3>2
    <3>4. q \notin (d + 1)..p
      BY <1>1, <1>2, <1>6, <1>7, <3>3
    <3> QED
      BY <1>1, <1>7, <1>12, <3>1, <3>3, <3>4
  <2>4. e - 1 \in (j + 1)..Count
    BY <1>1, <2>2, <2>3
  <2>5. Before(p, e - 1) = e
    BY <1>1, <2>2 DEF Before
  <2>6. IF e - 1 = Count THEN next'[i][NodeAt(f)] = NULL
        ELSE next'[i][NodeAt(f)] = order[Before(p, e - 1)] /\ Tall(Before(p, e - 1), i)
    BY <1>1, <1>9, <1>10, <1>12, <2>2, <2>5
  <2>7. span'[i][NodeAt(f)] = (e - 1) - j
    BY <1>1, <1>4, <1>7, <1>9, <1>11, <1>12, <2>2, <2>3
  <2>8. \A r \in (j + 1)..(e - 1 - 1) : ~Tall(Before(p, r), i)
    <3> SUFFICES ASSUME NEW r \in (j + 1)..(e - 2) PROVE ~Tall(Before(p, r), i)
      BY <1>1, <2>2
    <3>1. CASE r <= p
      BY <1>1, <1>6, <2>3, <3>1 DEF Before
    <3>2. CASE r > p
      BY <1>1, <2>2, <2>3, <3>2 DEF Before
    <3> QED
      BY <1>1, <3>1, <3>2
  <2> QED
    BY <1>5, <2>4, <2>6, <2>7, <2>8 DEF f
<1>13. CASE (f = d /\ ~(i <= h)) \/ f > p
  <2>1. q > p + 1
    <3>1. CASE f > p
      BY <1>1, <1>4, <1>7, <3>1
    <3>2. CASE f = d /\ ~(i <= h)
      <4>1. q \notin (d + 1)..p
        BY <1>1, <1>2, <1>6, <1>7
      <4>2. q # p + 1
        BY <1>1, <1>2, <1>7, <1>8, <3>2
      <4> QED
        BY <1>1, <1>7, <3>2, <4>1, <4>2
    <3> QED
      BY <1>13, <3>1, <3>2
  <2>2. q - 1 \in (j + 1)..Count /\ Before(p, q - 1) = q
    BY <1>1, <1>4, <1>7, <1>13, <2>1 DEF Before
  <2>3. next'[i][NodeAt(f)] = next[i][NodeAt(f)]
    BY <1>1, <1>10, <1>13
  <2>4. IF q - 1 = Count THEN next'[i][NodeAt(f)] = NULL
        ELSE next'[i][NodeAt(f)] = order[Before(p, q - 1)] /\ Tall(Before(p, q - 1), i)
    BY <1>1, <1>7, <2>2, <2>3
  <2>5. span'[i][NodeAt(f)] = (q - 1) - j
    <3>1. CASE f > p
      <4>1. f # d /\ j = f - 1
        BY <1>1, <1>4, <3>1
      <4> QED
        BY <1>1, <1>4, <1>7, <1>11, <4>1
    <3>2. CASE f = d /\ ~(i <= h)
      <4>1. j = f
        BY <1>1, <1>4, <3>2
      <4> QED
        BY <1>1, <1>4, <1>7, <1>11, <3>2, <4>1
    <3> QED
      BY <1>13, <3>1, <3>2
  <2>6. ASSUME NEW r \in (j + 1)..(q - 1 - 1) PROVE ~Tall(Before(p, r), i)
    <3>1. Before(p, r) \in (f + 1)..(q - 1)
      BY <1>1, <1>4, <1>7 DEF Before
    <3> QED
      BY <1>7, <3>1
  <2> QED
    BY <1>5, <2>2, <2>4, <2>5, <2>6 DEF f
<1>14. CASE f # d /\ f <= p
  <2>1. f < d /\ j = f
    <3>1. f \notin (d + 1)..p
      BY <1>3, <1>6 DEF f
    <3> QED
      BY <1>1, <1>4, <1>14, <3>1
  <2>2. q <= d
    BY <1>1, <1>6, <1>7, <1>9, <2>1
  <2>3. q \in (j + 1)..Count /\ q # Count + 1 /\ q # Count /\ Before(p, q) = q
    BY <1>1, <1>2, <1>7, <2>1, <2>2 DEF Before
  <2>4. next'[i][NodeAt(f)] = order[Before(p, q)] /\ Tall(Before(p, q), i)
    BY <1>7, <1>10, <1>14, <2>3
  <2>5. span'[i][NodeAt(f)] = q - j
    BY <1>7, <1>11, <1>14, <2>1
  <2>6. \A r \in (j + 1)..(q - 1) : ~Tall(Before(p, r), i)
    BY <1>1, <1>7, <2>1, <2>2 DEF Before
  <2> QED
    BY <1>5, <2>3, <2>4, <2>5, <2>6 DEF f
<1> QED
  BY <1>1, <1>4, <1>12, <1>13, <1>14

LEMMA UnlinkShape ==
  ASSUME Seeking, unlink, NEW p \in 0..Count, CameTo(p)
  PROVE  Shape'
<1>1. Fine /\ TypeOK /\ Sane /\ Count \in Nat /\ levels \in Nat
  BY Positions DEF Seeking
<1>2. /\ Count' = Count - 1 /\ levels' = levels /\ Target \in Towers
      /\ \A j \in 1..(Count - 1) :
           /\ Before(p, j) \in 1..Count /\ order'[j] = order[Before(p, j)]
           /\ tower'[order'[j]] = tower[order[Before(p, j)]]
      /\ \A t \in Towers : tower'[t] # NULL => tower'[t] = tower[t] /\ t # Target
  BY UnlinkPositions
<1>3. Linked'
  BY UnlinkLinked
<1>4. Sorted'
  <2>1. DOMAIN order' = 1..(Count - 1)
    BY <1>1, <1>2, UnlinkOrder DEF Count
  <2>2. SUFFICES ASSUME NEW a \in 1..(Count - 1), NEW b \in 1..(Count - 1), a < b
                 PROVE  ScoreOf(order[a])' < ScoreOf(order[b])'
    BY <2>1 DEF Sorted
  <2>3. Before(p, a) < Before(p, b)
    BY <1>1, <2>2 DEF Before
  <2>4. ScoreOf(order[Before(p, a)]) < ScoreOf(order[Before(p, b)])
    BY <1>1, <1>2, <2>3, InOrder
  <2> QED
    BY <1>2, <2>4 DEF ScoreOf
<1>5. Lowered'
  <2>1. \A t \in Towers : tower'[t] # NULL => tower'[t].height <= levels'
    BY <1>1, <1>2 DEF Fine, Shape, Lowered
  <2>2. ASSUME NEW i \in Levels, i > levels PROVE next'[i][HEAD] = NULL
    <3>1. i > tower[Target].height
      <4>1. tower[Target] # NULL /\ tower[Target].height \in Levels
        BY <1>1, UnlinkTarget
      <4>2. tower[Target].height <= levels
        BY <1>1, <1>2, <4>1 DEF Fine, Shape, Lowered
      <4> QED
        BY <1>1, <2>2, <4>1, <4>2, LevelsFacts
    <3>2. next'[i] = next[i]
      BY <1>1, <3>1, UnlinkLinks
    <3> QED
      BY <1>1, <2>2, <3>2 DEF Fine, Shape, Lowered
  <2> QED
    BY <1>2, <2>1, <2>2 DEF Lowered
<1>6. size' = Count'
  BY <1>1, <1>2 DEF unlink, Fine, Shape
<1> QED
  BY <1>3, <1>4, <1>5, <1>6 DEF Shape

-----------------------------------------------------------------------------
(* splice: the new tower stands after position p                           *)

(* Where a tower other than the new one stood, that is at position j now.  *)
Behind(p, j) == IF j <= p THEN j ELSE j - 1

LEMMA SplicePositions ==
  ASSUME Seeking, splice, NEW p \in 0..Count, CameTo(p),
         NEW t \in Towers, NEW h \in Levels, Splices(t, h)
  PROVE  /\ Count' = Count + 1 /\ order' \in Seq(Towers)
         /\ order'[p + 1] = t /\ NodeAt(p + 1)' = t
         /\ tower'[t].height = h /\ tower'[t].score = NewScore
         /\ \A i : Tall(p + 1, i)' <=> h >= i
         /\ \A j \in 1..(Count + 1) : j # p + 1 =>
              /\ Behind(p, j) \in 1..Count /\ order'[j] = order[Behind(p, j)]
              /\ tower'[order'[j]] = tower[order[Behind(p, j)]]
         /\ \A j \in 0..(Count + 1) : j # p + 1 =>
              /\ Behind(p, j) \in 0..Count /\ NodeAt(j)' = NodeAt(Behind(p, j))
              /\ \A i : Tall(j, i)' <=> Tall(Behind(p, j), i)
         /\ \A x \in Towers : x # t => tower'[x] = tower[x]
         /\ \A q \in 0..Count : NodeAt(q) # t
<1>1. Fine /\ TypeOK /\ Count \in Nat /\ p \in Nat /\ at = NodeAt(p)
  BY Positions DEF Seeking, CameTo
<1>2. /\ tower[t] = NULL /\ order' = InsertedAfter(order, at, t)
      /\ tower' = [tower EXCEPT ![t] = [member |-> Member, score |-> NewScore, height |-> h]]
  BY DEF Splices
<1>3. /\ order' \in Seq(Towers) /\ Count' = Count + 1
      /\ \A j \in 1..(Count + 1) :
           order'[j] = IF j <= p THEN order[j] ELSE IF j = p + 1 THEN t ELSE order[j - 1]
  <2>1. order \in Seq(Towers) /\ OneToOne(order) /\ p \in 0..Len(order)
        /\ at = IF p = 0 THEN HEAD ELSE order[p]
    BY <1>1 DEF Fine, TypeOK, Chained, OneToOne, Count, NodeAt
  <2> QED
    BY <1>2, <2>1, InsertedAt DEF Count
<1>4. /\ tower'[t].height = h /\ tower'[t].score = NewScore
      /\ \A x \in Towers : x # t => tower'[x] = tower[x]
  BY <1>1, <1>2 DEF TypeOK
<1>5. order'[p + 1] = t /\ NodeAt(p + 1)' = t /\ p + 1 # 0
  BY <1>1, <1>3 DEF NodeAt
<1>6. \A i : Tall(p + 1, i)' <=> h >= i
  BY <1>4, <1>5 DEF Tall
<1>7. \A q \in 1..Count : order[q] # t
  BY <1>1, <1>2, Positions, SkipListAssumption
<1>8. ASSUME NEW j \in 1..(Count + 1), j # p + 1
      PROVE  /\ Behind(p, j) \in 1..Count /\ order'[j] = order[Behind(p, j)]
             /\ tower'[order'[j]] = tower[order[Behind(p, j)]]
  <2>1. Behind(p, j) \in 1..Count
    BY <1>1, <1>8 DEF Behind
  <2>2. order'[j] = order[Behind(p, j)]
    BY <1>1, <1>3, <1>8 DEF Behind
  <2>3. order[Behind(p, j)] # t /\ order[Behind(p, j)] \in Towers
    BY <1>1, <1>7, <2>1, Positions
  <2> QED
    BY <1>4, <2>1, <2>2, <2>3
<1>9. ASSUME NEW j \in 0..(Count + 1), j # p + 1
      PROVE  /\ Behind(p, j) \in 0..Count /\ NodeAt(j)' = NodeAt(Behind(p, j))
             /\ \A i : Tall(j, i)' <=> Tall(Behind(p, j), i)
  <2>1. CASE j = 0
    BY <1>1, <2>1 DEF Behind, NodeAt, Tall
  <2>2. CASE j # 0
    <3>1. j \in 1..(Count + 1) /\ Behind(p, j) # 0
      BY <1>1, <1>9, <2>2 DEF Behind
    <3> QED
      BY <1>8, <1>9, <2>2, <3>1 DEF NodeAt, Tall
  <2> QED
    BY <2>1, <2>2
<1>10. \A q \in 0..Count : NodeAt(q) # t
  BY <1>1, <1>7, SkipListAssumption DEF NodeAt
<1> QED
  BY <1>3, <1>4, <1>5, <1>6, <1>8, <1>9, <1>10

LEMMA SpliceLinked ==
  ASSUME Seeking, splice, NEW p \in 0..Count, CameTo(p),
         NEW t \in Towers, NEW h \in Levels, Splices(t, h)
  PROVE  Linked'
<1>1. /\ Fine /\ TypeOK /\ lvl = 0 /\ pc = "insert" /\ acc = p + 1
      /\ Count \in Nat /\ p \in Nat /\ levels \in Nat /\ h \in Nat /\ size = Count
      /\ levels' = IF levels < h THEN h ELSE levels
      /\ Path \in [Levels -> Nodes]
  <2>1. Fine /\ TypeOK /\ lvl = 0 /\ pc = "insert" /\ Sane
    BY DEF splice, Ended, Seeking
  <2>2. acc = p + 1
    BY <2>1 DEF CameTo
  <2>3. levels' = IF levels < h THEN h ELSE levels
    BY DEF Splices, Raised, Larger
  <2>4. size = Count
    BY <2>1 DEF Fine, Shape
  <2>5. Path \in [Levels -> Nodes]
    BY <2>1, PathHasLevels DEF Sane, Searches
  <2> QED
    BY <2>1, <2>2, <2>3, <2>4, <2>5, Positions, LevelsFacts
<1>2. /\ Count' = Count + 1
      /\ order'[p + 1] = t /\ NodeAt(p + 1)' = t
      /\ \A i : Tall(p + 1, i)' <=> h >= i
      /\ \A j \in 1..(Count + 1) : j # p + 1 =>
           Behind(p, j) \in 1..Count /\ order'[j] = order[Behind(p, j)]
      /\ \A j \in 0..(Count + 1) : j # p + 1 =>
           /\ Behind(p, j) \in 0..Count /\ NodeAt(j)' = NodeAt(Behind(p, j))
           /\ \A i : Tall(j, i)' <=> Tall(Behind(p, j), i)
      /\ \A q \in 0..Count : NodeAt(q) # t
  BY SplicePositions
<1>3. SUFFICES ASSUME NEW i \in 0..levels', NEW j \in 0..(Count + 1), Tall(j, i)'
               PROVE  \E w \in (j + 1)..(Count + 2) : Follows(i, j, w)'
  <2>1. \A i \in 0..levels', j \in 0..Count' :
          Tall(j, i)' => \E w \in (j + 1)..(Count' + 1) : Follows(i, j, w)'
    <3>1. Count' + 1 = Count + 2
      BY <1>1, <1>2
    <3> QED
      BY <1>2, <1>3, <3>1
  <2> QED
    BY <2>1 DEF Linked
<1>4. i \in Levels /\ i \in Nat /\ (i <= levels \/ i <= h)
  <2>1. i \in 0..levels \/ i \in 0..h
    BY <1>1
  <2>2. levels \in Levels
    BY <1>1, Positions
  <2> QED
    BY <1>1, <2>1, <2>2, LevelsFacts
(* What the new tower or one from before has to lead to.                   *)
<1> DEFINE Leads(x, w) ==
      /\ w \in (j + 1)..(Count + 2)
      /\ \/ w = Count + 2 /\ next'[i][x] = NULL
         \/ w = p + 1 /\ next'[i][x] = t /\ h >= i
         \/ /\ w \notin {p + 1, Count + 2} /\ next'[i][x] = order[Behind(p, w)]
            /\ Tall(Behind(p, w), i)
      /\ span'[i][x] = w - j
      /\ \A r \in (j + 1)..(w - 1) : IF r = p + 1 THEN ~(h >= i) ELSE ~Tall(Behind(p, r), i)
<1>5. ASSUME NEW w, Leads(NodeAt(j)', w) PROVE \E v \in (j + 1)..(Count + 2) : Follows(i, j, v)'
  <2>1. w \in (j + 1)..(Count + 2) /\ w \in Nat /\ span'[i][NodeAt(j)'] = w - j
    BY <1>1, <1>5
  <2>2. ASSUME NEW r \in (j + 1)..(w - 1) PROVE ~Tall(r, i)'
    <3>1. r \in 0..(Count + 1)
      BY <1>1, <2>1
    <3>2. IF r = p + 1 THEN ~(h >= i) ELSE ~Tall(Behind(p, r), i)
      BY <1>5
    <3> QED
      BY <1>2, <3>1, <3>2
  <2>3. w = Count' + 1 <=> w = Count + 2
    BY <1>1, <1>2, <2>1
  <2>4. IF w = Count' + 1 THEN next'[i][NodeAt(j)'] = NULL
        ELSE next'[i][NodeAt(j)'] = order'[w] /\ Tall(w, i)'
    <3>1. CASE w = Count + 2 /\ next'[i][NodeAt(j)'] = NULL
      BY <2>3, <3>1
    <3>2. CASE w = p + 1 /\ next'[i][NodeAt(j)'] = t /\ h >= i
      BY <1>1, <1>2, <2>3, <3>2
    <3>3. CASE /\ w \notin {p + 1, Count + 2} /\ next'[i][NodeAt(j)'] = order[Behind(p, w)]
               /\ Tall(Behind(p, w), i)
      <4>1. w \in 1..(Count + 1) /\ w \in 0..(Count + 1) /\ w # p + 1
        BY <1>1, <2>1, <3>3
      <4>2. order'[w] = order[Behind(p, w)] /\ Tall(w, i)'
        BY <1>2, <3>3, <4>1
      <4> QED
        BY <2>3, <3>3, <4>2
    <3> QED
      BY <1>5, <3>1, <3>2, <3>3
  <2>5. Follows(i, j, w)'
    BY <2>1, <2>2, <2>4 DEF Follows
  <2> QED
    BY <2>1, <2>5
<1>6. ASSUME NEW x \in Nodes, i <= h
      PROVE  /\ next'[i][x] = IF x = Path[i] THEN t
                              ELSE IF x = t THEN next[i][Path[i]] ELSE next[i][x]
             /\ span'[i][x] = IF x = Path[i] THEN Split(i) + 1
                              ELSE IF x = t THEN Width(i) - Split(i) ELSE span[i][x]
  BY <1>4, <1>6 DEF Splices
<1>7. ASSUME NEW x \in Nodes, ~(i <= h)
      PROVE  /\ next'[i][x] = next[i][x]
             /\ span'[i][x] = IF i <= levels /\ x = Path[i] THEN span[i][x] + 1 ELSE span[i][x]
  BY <1>1, <1>4, <1>7 DEF Splices
<1>8. t \in Nodes
  BY DEF Nodes
<1>9. CASE i > levels
  <2>1. i <= h /\ i # 0 /\ ~(i <= levels)
    BY <1>1, <1>4, <1>9
  <2>2. Path[i] = HEAD /\ Split(i) = p /\ Width(i) = Count + 1 /\ HEAD \in Nodes /\ t # HEAD
    <3>1. dirty[i] = HEAD /\ children[i] = 1
      BY <1>4, <1>9 DEF CameTo
    <3>2. Path[i] = HEAD
      BY <1>4, <2>1, <3>1 DEF Path, Seeking, TypeOK
    <3> QED
      BY <1>1, <1>9, <2>1, <3>1, <3>2, SkipListAssumption DEF Split, Width, Nodes
  <2>3. \A r \in 1..Count : ~Tall(r, i)
    BY <1>1, <1>4, <2>1, TallFacts
  <2>4. CASE j = p + 1
    <3>1. next'[i][t] = NULL
      BY <1>4, <1>6, <1>8, <1>9, <2>1, <2>2, <1>1 DEF Fine, Shape, Lowered
    <3>2. span'[i][t] = Count + 2 - j
      BY <1>1, <1>6, <1>8, <2>1, <2>2, <2>4
    <3>3. \A r \in (j + 1)..(Count + 2 - 1) : r # p + 1 /\ ~Tall(Behind(p, r), i)
      BY <1>1, <2>3, <2>4 DEF Behind
    <3>4. Leads(t, Count + 2)
      BY <1>1, <2>4, <3>1, <3>2, <3>3
    <3> QED
      BY <1>2, <1>5, <2>4, <3>4
  <2>5. CASE j # p + 1
    <3>1. j = 0
      <4>1. Tall(Behind(p, j), i) /\ Behind(p, j) \in 0..Count
        BY <1>2, <1>3, <2>5
      <4>2. Behind(p, j) = 0
        BY <1>1, <2>3, <4>1
      <4> QED
        BY <1>1, <2>5, <4>2 DEF Behind
    <3>2. NodeAt(j)' = HEAD
      BY <3>1 DEF NodeAt
    <3>3. next'[i][HEAD] = t /\ span'[i][HEAD] = p + 1 - j
      BY <1>1, <1>6, <2>1, <2>2, <3>1
    <3>4. \A r \in (j + 1)..(p + 1 - 1) : r # p + 1 /\ ~Tall(Behind(p, r), i)
      BY <1>1, <2>3, <3>1 DEF Behind
    <3>5. Leads(HEAD, p + 1)
      BY <1>1, <2>1, <3>1, <3>3, <3>4
    <3> QED
      BY <1>5, <3>2, <3>5
  <2> QED
    BY <2>4, <2>5
<1>10. CASE i <= levels
  <2>1. i \in 0..levels
    BY <1>1, <1>4, <1>10
  <2>2. PICK d \in 0..p : /\ Path[i] = NodeAt(d) /\ Tall(d, i) /\ Split(i) = p - d
                         /\ \A r \in (d + 1)..p : ~Tall(r, i)
    BY <1>1, <2>1, PathPlaces
  <2>3. d \in 0..Count /\ NodeAt(d) \in Nodes /\ NodeAt(d) # t
    BY <1>1, <1>2, NodesApart
  <2>4. PICK e \in (p + 1)..(Count + 1) :
          /\ Follows(i, d, e)
          /\ p + 1 \in 1..Count /\ Tall(p + 1, i) => e = p + 1
    BY <1>1, <2>1, <2>2, PathLeads
  <2>5. /\ e = Count + 1 => next[i][NodeAt(d)] = NULL
        /\ e # Count + 1 => next[i][NodeAt(d)] = order[e] /\ Tall(e, i)
        /\ span[i][NodeAt(d)] = e - d
        /\ \A r \in (d + 1)..(e - 1) : ~Tall(r, i)
    BY <2>4 DEF Follows
  <2>6. Width(i) = e - d
    BY <1>1, <1>4, <1>10, <2>2, <2>5 DEF Width
  <2>7. Behind(p, e + 1) = e /\ e + 1 # p + 1
    BY <1>1, <2>4 DEF Behind
  <2>8. CASE j = p + 1
    <3>1. i <= h
      BY <1>1, <1>2, <1>3, <1>4, <2>8
    <3>2. next'[i][t] = next[i][NodeAt(d)]
      BY <1>6, <1>8, <2>2, <2>3, <3>1
    <3>3. span'[i][t] = e + 1 - j
      BY <1>1, <1>6, <1>8, <2>2, <2>3, <2>6, <2>8, <3>1
    <3>4. ASSUME NEW r \in (j + 1)..(e + 1 - 1) PROVE r # p + 1 /\ ~Tall(Behind(p, r), i)
      <4>1. r # p + 1 /\ Behind(p, r) \in (d + 1)..(e - 1)
        BY <1>1, <2>8 DEF Behind
      <4> QED
        BY <2>5, <4>1
    <3>5. e + 1 \in (j + 1)..(Count + 2) /\ (e = Count + 1 <=> e + 1 = Count + 2)
      BY <1>1, <2>4, <2>8
    <3>6. Leads(t, e + 1)
      BY <1>1, <2>5, <2>7, <3>2, <3>3, <3>4, <3>5
    <3> QED
      BY <1>2, <1>5, <2>8, <3>6
  <2>9. CASE j # p + 1
    <3> DEFINE f == Behind(p, j)
    <3>1. /\ f \in 0..Count /\ NodeAt(j)' = NodeAt(f) /\ Tall(f, i)
          /\ (j <= p => f = j) /\ (j > p => f = j - 1 /\ f > p)
      BY <1>1, <1>2, <1>3, <2>9 DEF Behind
    <3> HIDE DEF f
    <3>2. NodeAt(f) \in Nodes /\ NodeAt(f) # t /\ (NodeAt(f) = Path[i] <=> f = d)
      BY <1>1, <1>2, <2>2, <2>3, <3>1, NodesApart
    <3>3. next'[i][NodeAt(f)] = IF i <= h /\ f = d THEN t ELSE next[i][NodeAt(f)]
      BY <1>6, <1>7, <3>2
    <3>4. span'[i][NodeAt(f)] = IF f # d THEN span[i][NodeAt(f)]
                                ELSE IF i <= h THEN p - d + 1 ELSE span[i][NodeAt(f)] + 1
      BY <1>6, <1>7, <1>10, <2>2, <3>2
    <3>5. CASE f = d /\ i <= h
      <4>1. j = d /\ j <= p
        BY <1>1, <3>1, <3>5
      <4>2. \A r \in (j + 1)..(p + 1 - 1) : r # p + 1 /\ ~Tall(Behind(p, r), i)
        BY <1>1, <2>2, <4>1 DEF Behind
      <4>3. span'[i][NodeAt(f)] = p + 1 - j
        BY <1>1, <3>4, <3>5, <4>1
      <4>4. p + 1 \in (j + 1)..(Count + 2) /\ h >= i
        BY <1>1, <1>4, <3>5, <4>1
      <4>5. Leads(NodeAt(f), p + 1)
        BY <3>3, <3>5, <4>2, <4>3, <4>4
      <4> QED
        BY <1>5, <3>1, <4>5
    <3>6. CASE f = d /\ ~(i <= h)
      <4>1. j = d /\ j <= p
        BY <1>1, <3>1, <3>6
      <4>2. ASSUME NEW r \in (j + 1)..(e + 1 - 1)
            PROVE  IF r = p + 1 THEN ~(h >= i) ELSE ~Tall(Behind(p, r), i)
        <5>1. CASE r = p + 1
          BY <1>1, <1>4, <3>6, <5>1
        <5>2. CASE r # p + 1
          <6>1. Behind(p, r) \in (d + 1)..(e - 1)
            BY <1>1, <2>4, <4>1, <5>2 DEF Behind
          <6> QED
            BY <2>5, <5>2, <6>1
        <5> QED
          BY <5>1, <5>2
      <4>3. span'[i][NodeAt(f)] = e + 1 - j
        BY <1>1, <2>5, <3>4, <3>6, <4>1
      <4>4. e + 1 \in (j + 1)..(Count + 2) /\ (e = Count + 1 <=> e + 1 = Count + 2)
        BY <1>1, <2>4, <4>1
      <4>5. Leads(NodeAt(f), e + 1)
        BY <1>1, <2>5, <2>7, <3>3, <3>6, <4>2, <4>3, <4>4
      <4> QED
        BY <1>5, <3>1, <4>5
    <3>7. CASE f # d
      <4>1. PICK q \in (f + 1)..(Count + 1) :
              /\ q = Count + 1 <=> next[i][NodeAt(f)] = NULL
              /\ q # Count + 1 => q \in 1..Count /\ next[i][NodeAt(f)] = order[q] /\ Tall(q, i)
              /\ span[i][NodeAt(f)] = q - f
              /\ \A r \in (f + 1)..(q - 1) : ~Tall(r, i)
              /\ \A r \in (f + 1)..Count : Tall(r, i) => q <= r
        BY <1>1, <2>1, <3>1, Successor
      <4>2. next'[i][NodeAt(f)] = next[i][NodeAt(f)] /\ span'[i][NodeAt(f)] = q - f
        BY <3>3, <3>4, <3>7, <4>1
      <4>3. CASE f > p
        <5>1. j = f + 1 /\ Behind(p, q + 1) = q /\ q + 1 # p + 1
          BY <1>1, <3>1, <4>1, <4>3 DEF Behind
        <5>2. ASSUME NEW r \in (j + 1)..(q + 1 - 1) PROVE r # p + 1 /\ ~Tall(Behind(p, r), i)
          <6>1. r # p + 1 /\ Behind(p, r) \in (f + 1)..(q - 1)
            BY <1>1, <3>1, <4>3, <5>1 DEF Behind
          <6> QED
            BY <4>1, <6>1
        <5>3. q + 1 \in (j + 1)..(Count + 2) /\ (q = Count + 1 <=> q + 1 = Count + 2)
          BY <1>1, <3>1, <4>1, <5>1
        <5>4. span'[i][NodeAt(f)] = q + 1 - j
          BY <1>1, <3>1, <4>1, <4>2, <5>1
        <5>5. Leads(NodeAt(f), q + 1)
          BY <4>1, <4>2, <5>1, <5>2, <5>3, <5>4
        <5> QED
          BY <1>5, <3>1, <5>5
      <4>4. CASE ~(f > p)
        <5>1. f < d /\ j = f
          <6>1. f \notin (d + 1)..p
            BY <2>2, <3>1
          <6> QED
            BY <1>1, <3>1, <3>7, <4>4, <6>1
        <5>2. q <= d
          BY <1>1, <2>2, <2>3, <3>1, <4>1, <5>1
        <5>3. /\ q \in (j + 1)..(Count + 2) /\ q # Count + 1
              /\ q \notin {p + 1, Count + 2} /\ Behind(p, q) = q
          BY <1>1, <3>1, <4>1, <5>1, <5>2 DEF Behind
        <5>4. ASSUME NEW r \in (j + 1)..(q - 1) PROVE r # p + 1 /\ ~Tall(Behind(p, r), i)
          <6>1. r # p + 1 /\ Behind(p, r) \in (f + 1)..(q - 1)
            BY <1>1, <3>1, <5>1, <5>2 DEF Behind
          <6> QED
            BY <4>1, <6>1
        <5>5. Leads(NodeAt(f), q)
          BY <4>1, <4>2, <5>1, <5>3, <5>4
        <5> QED
          BY <1>5, <3>1, <5>5
      <4> QED
        BY <4>3, <4>4
    <3> QED
      BY <3>5, <3>6, <3>7
  <2> QED
    BY <2>8, <2>9
<1> QED
  BY <1>1, <1>4, <1>9, <1>10

(* A search for a score no tower has ends between the lower and the higher *)
(* ones.                                                                   *)
LEMMA InsertionPlace ==
  ASSUME Seeking, Ended("insert"), NEW p \in 0..Count, CameTo(p)
  PROVE  /\ \A q \in 1..Count : q <= p => ScoreOf(order[q]) < NewScore
         /\ \A q \in 1..Count : q > p => ScoreOf(order[q]) > NewScore
<1>1. /\ pc = "insert" /\ lvl = 0 /\ ~Advance /\ Fine /\ Sought = NewScore /\ NewScore \in Int
      /\ Count \in Nat
  BY SeekingTypes, Positions DEF Ended, Seeking, Sought
<1>2. ASSUME NEW q \in 1..Count, q <= p PROVE ScoreOf(order[q]) < NewScore
  <2>1. p \in 1..Count /\ ScoreOf(order[p]) < NewScore
    BY <1>1, <1>2 DEF CameTo
  <2>2. ScoreOf(order[q]) <= ScoreOf(order[p]) /\ ScoreOf(order[q]) \in Int /\ ScoreOf(order[p]) \in Int
    BY <1>1, <1>2, <2>1, InOrder, Positions
  <2> QED
    BY <1>1, <2>1, <2>2
<1>3. ASSUME NEW q \in 1..Count, q > p PROVE ScoreOf(order[q]) > NewScore
  <2>1. q \in (p + 1)..Count /\ Tall(q, 0)
    BY <1>1, <1>3, TallFacts
  <2>2. ScoreOf(order[q]) >= NewScore
    BY <1>1, <2>1, StopsBefore
  <2>3. ScoreOf(order[q]) \in Int /\ order[q] \in Towers /\ tower[order[q]] # NULL
    BY <1>1, Positions, SkipListAssumption
  <2>4. ScoreOf(order[q]) # NewScore
    BY <1>1, <2>3 DEF Seeking, Ties
  <2> QED
    BY <1>1, <2>2, <2>3, <2>4
<1> QED
  BY <1>2, <1>3

LEMMA SpliceShape ==
  ASSUME Seeking, splice, NEW p \in 0..Count, CameTo(p)
  PROVE  Shape'
<1>1. PICK t \in Towers, h \in Levels : Splices(t, h)
  BY SpliceLinks DEF Seeking
<1>2. /\ Fine /\ TypeOK /\ Count \in Nat /\ levels \in Nat /\ h \in Nat /\ NewScore \in Int
      /\ p \in Nat
  BY SeekingTypes, Positions, LevelsFacts, PairTypes DEF Seeking
<1>3. /\ Count' = Count + 1 /\ order' \in Seq(Towers)
      /\ order'[p + 1] = t /\ tower'[t].height = h /\ tower'[t].score = NewScore
      /\ \A j \in 1..(Count + 1) : j # p + 1 =>
           /\ Behind(p, j) \in 1..Count /\ order'[j] = order[Behind(p, j)]
           /\ tower'[order'[j]] = tower[order[Behind(p, j)]]
      /\ \A x \in Towers : x # t => tower'[x] = tower[x]
  BY <1>1, SplicePositions
<1>4. Linked'
  BY <1>1, SpliceLinked
<1>5. Sorted'
  <2>1. DOMAIN order' = 1..(Count + 1)
    BY <1>2, <1>3 DEF Count
  <2>2. SUFFICES ASSUME NEW a \in 1..(Count + 1), NEW b \in 1..(Count + 1), a < b
                 PROVE  ScoreOf(order[a])' < ScoreOf(order[b])'
    BY <2>1 DEF Sorted
  <2>3. /\ \A q \in 1..Count : q <= p => ScoreOf(order[q]) < NewScore
        /\ \A q \in 1..Count : q > p => ScoreOf(order[q]) > NewScore
    BY InsertionPlace DEF splice
  <2>4. ASSUME NEW j \in 1..(Count + 1)
        PROVE  ScoreOf(order[j])' = IF j = p + 1 THEN NewScore ELSE ScoreOf(order[Behind(p, j)])
    BY <1>3 DEF ScoreOf
  <2>5. CASE a = p + 1
    <3>1. b # p + 1 /\ Behind(p, b) \in 1..Count /\ Behind(p, b) > p
      BY <1>2, <2>2, <2>5 DEF Behind
    <3> QED
      BY <1>2, <2>3, <2>4, <2>5, <3>1, Positions
  <2>6. CASE b = p + 1
    <3>1. a # p + 1 /\ Behind(p, a) \in 1..Count /\ Behind(p, a) <= p
      BY <1>2, <2>2, <2>6 DEF Behind
    <3> QED
      BY <2>3, <2>4, <2>6, <3>1
  <2>7. CASE a # p + 1 /\ b # p + 1
    <3>1. Behind(p, a) \in 1..Count /\ Behind(p, b) \in 1..Count /\ Behind(p, a) < Behind(p, b)
      BY <1>2, <2>2, <2>7 DEF Behind
    <3> QED
      BY <1>2, <2>4, <2>7, <3>1, InOrder
  <2> QED
    BY <2>5, <2>6, <2>7
<1>6. Lowered'
  <2>1. levels' = IF levels < h THEN h ELSE levels
    BY <1>1 DEF Splices, Raised, Larger
  <2>2. ASSUME NEW x \in Towers, tower'[x] # NULL PROVE tower'[x].height <= levels'
    <3>1. CASE x = t
      BY <1>2, <1>3, <2>1, <3>1
    <3>2. CASE x # t
      <4>1. tower'[x] = tower[x] /\ tower[x] \in Tower /\ tower[x].height <= levels
        BY <1>2, <1>3, <2>2, <3>2 DEF Fine, Shape, Lowered, TypeOK
      <4>2. tower[x].height \in Nat
        BY <4>1, LevelsFacts DEF Tower
      <4> QED
        BY <1>2, <2>1, <4>1, <4>2
    <3> QED
      BY <3>1, <3>2
  <2>3. ASSUME NEW i \in Levels, i > levels' PROVE next'[i][HEAD] = NULL
    <3>1. i > h /\ i > levels
      BY <1>2, <2>1, <2>3, LevelsFacts
    <3>2. next'[i] = next[i]
      BY <1>1, <3>1 DEF Splices
    <3> QED
      BY <1>2, <3>1, <3>2 DEF Fine, Shape, Lowered
  <2> QED
    BY <2>2, <2>3 DEF Lowered
<1>7. size' = Count'
  BY <1>1, <1>2, <1>3 DEF Splices, Fine, Shape
<1> QED
  BY <1>4, <1>5, <1>6, <1>7 DEF Shape

-----------------------------------------------------------------------------
(* The invariant                                                           *)

LEMMA EmptyShape == Empty => Shape
<1> SUFFICES ASSUME Empty PROVE Shape
  OBVIOUS
<1>1. Count = 0 /\ levels = 0 /\ size = 0 /\ HEAD \in Nodes /\ 0 \in Levels
  BY LevelsFacts DEF Empty, Count, Nodes
<1>2. \A i \in Levels : next[i][HEAD] = NULL
  BY <1>1 DEF Empty, noLinks
<1>3. span[0][HEAD] = 1
  BY <1>1 DEF Empty, noSpans
<1>4. Follows(0, 0, 1)
  BY <1>1, <1>2, <1>3 DEF Follows, NodeAt
<1>5. Linked
  BY <1>1, <1>4 DEF Linked
<1>6. Sorted
  BY DEF Empty, Sorted
<1>7. Lowered
  BY <1>2 DEF Empty, Lowered, noTowers
<1> QED
  BY <1>1, <1>5, <1>6, <1>7 DEF Shape

LEMMA ShapeKept ==
  ASSUME Shape, UNCHANGED listVars
  PROVE  Shape'
BY DEF Shape, Linked, Sorted, Lowered, Follows, Count, NodeAt, Tall, ScoreOf, listVars

LEMMA WalkElsewhere ==
  ASSUME pc' \notin {"remove", "insert"}
  PROVE  Walk'
BY DEF Walk

LEMMA DropShape == drop => Shape'
<1>1. drop => Empty'
  BY DEF drop, Empty, noTowers, noLinks, noSpans, noMembers
<1> QED
  BY <1>1, EmptyShape, PTL

LEMMA InitStrong == Init => Strong
BY EmptyShape DEF Init, Empty, Strong, Walk

(* A search for the place of a new score begins, or one for the tower of   *)
(* the old one.                                                            *)
LEMMA LookupWalk ==
  ASSUME TypeOK, Sane, lookup
  PROVE  Walk' /\ pc' # "undefined" /\ UNCHANGED listVars
<1>1. UNCHANGED listVars /\ UNCHANGED levels
  BY DEF lookup, listVars
<1>2. CASE ~Stores(op, table[Member] # NULL)
  <2>1. pc' = "pair"
    BY <1>2 DEF lookup, NextPair
  <2> QED
    BY <1>1, <2>1, WalkElsewhere
<1>3. CASE Stores(op, table[Member] # NULL)
  <2> DEFINE t == table[Member]
  <2>1. /\ old' = IF t = NULL THEN NULL ELSE ScoreOf(t)
        /\ Search(IF t = NULL THEN "insert" ELSE "remove", 1)
        /\ todo' = todo /\ table' = table /\ tower' = tower
    BY <1>1, <1>3 DEF lookup, listVars
  <2>2. pc' = (IF t = NULL THEN "insert" ELSE "remove") /\ Member' = Member
    BY <2>1 DEF Search, Member
  <2>3. CameTo(0)' /\ lvl' <= levels'
    BY <1>1, <2>1, SearchComes
  <2>4. 0 \in 0..Count'
    BY <1>1, ListSame DEF TypeOK, Count
  <2>5. pc' = "remove" => table'[Member'] # NULL /\ old' = ScoreOf(table[Member])'
    BY <2>1, <2>2 DEF ScoreOf
  <2>6. pc' = "insert" => table'[Member'] = NULL
    BY <2>1, <2>2
  <2> HIDE DEF t
  <2>7. Walk'
    BY <2>3, <2>4, <2>5, <2>6 DEF Walk
  <2> QED
    BY <1>1, <2>2, <2>7
<1> QED
  BY <1>2, <1>3

LEMMA WalkOn ==
  ASSUME TypeOK, Sane, Fine, Walk, ~dangling, pc # "undefined", hop \/ down
  PROVE  Walk' /\ pc' # "undefined" /\ UNCHANGED listVars
<1>1. UNCHANGED <<listVars, callVars, pc>>
  BY DEF hop, down
<1>2. CASE pc \notin {"remove", "insert"}
  BY <1>1, <1>2, WalkElsewhere
<1>3. CASE pc \in {"remove", "insert"}
  <2>1. /\ Member' = Member /\ NewScore' = NewScore /\ old' = old
        /\ \A x : ScoreOf(x)' = ScoreOf(x)
        /\ UNCHANGED <<table, tower, levels, pc>>
    BY <1>1, CallSame, ListSame DEF listVars, callVars
  <2>2. lvl' <= levels'
    <3>1. lvl \in Nat /\ levels \in Nat /\ lvl <= levels
      BY <1>3, LevelsFacts DEF Walk, TypeOK
    <3>2. lvl' = lvl \/ lvl' = lvl - 1
      BY DEF hop, down
    <3> QED
      BY <2>1, <3>1, <3>2
  <2>3. pc' = "remove" => table'[Member'] # NULL /\ old' = ScoreOf(table[Member])'
    BY <2>1 DEF Walk, ScoreOf
  <2>4. pc' = "insert" => table'[Member'] = NULL
    BY <2>1 DEF Walk
  <2>5. (pc' = "insert" /\ Ties') \/ \E p \in 0..Count' : CameTo(p)'
    <3>1. CASE pc = "insert" /\ Ties
      BY <2>1, <3>1 DEF Ties, ScoreOf
    <3>2. CASE ~(pc = "insert" /\ Ties)
      <4>1. Seeking
        BY <1>3, <3>2 DEF Seeking
      <4>2. PICK p \in 0..Count : CameTo(p)
        BY <4>1, SeekingTypes
      <4>3. Count' = Count
        BY <1>1, ListSame
      <4> QED
        BY <4>1, <4>2, <4>3, HopComes, DownComes
    <3> QED
      BY <3>1, <3>2
  <2>6. Walk'
    BY <2>2, <2>3, <2>4, <2>5 DEF Walk
  <2> QED
    BY <1>1, <2>6
<1> QED
  BY <1>2, <1>3

LEMMA NextStrong == TypeOK /\ Sane /\ Strong /\ [Next]_vars => Strong'
<1> SUFFICES ASSUME TypeOK, Sane, Strong, [Next]_vars, ~tied'
             PROVE  Shape' /\ Walk' /\ ~dangling' /\ pc' # "undefined"
  BY DEF Strong
<1>1. CASE drop
  <2>1. pc' = "idle" /\ dangling' = FALSE
    BY <1>1 DEF drop, Answer
  <2> QED
    BY <1>1, <2>1, DropShape, WalkElsewhere
<1>2. CASE ~drop
  <2>1. ~tied
    <3>1. CASE splice
      BY <3>1 DEF splice
    <3>2. CASE UNCHANGED tied
      BY <3>2
    <3>3. splice \/ UNCHANGED tied
      <4>1. CASE Receive
        BY <4>1 DEF Receive, RecvZadd, RecvPlain, RecvZcount, RecvZrange, Begin, listVars
      <4>2. CASE Serve
        BY <1>2, <4>2 DEF Serve, refuse, zcard, hop, down, lookup, lookupDangling,
           unlink, unlinkMissed, unlinkPartly, zadded, incremented, countedMin, counted,
           ranked, emit, emitted, listVars
      <4>3. CASE UNCHANGED vars
        BY <4>3 DEF vars, listVars
      <4> QED
        BY <4>1, <4>2, <4>3 DEF Next
    <3> QED
      BY <3>1, <3>2, <3>3
  <2>2. Shape /\ Walk /\ ~dangling /\ pc # "undefined" /\ Fine
    BY <2>1 DEF Strong, Sane, Fine
  <2>3. ASSUME UNCHANGED listVars, Walk', pc' # "undefined"
        PROVE  Shape' /\ Walk' /\ ~dangling' /\ pc' # "undefined"
    BY <2>2, <2>3, ShapeKept DEF listVars
  <2>4. CASE Receive
    <3>1. UNCHANGED listVars
      BY <2>4 DEF Receive, RecvZadd, RecvPlain, RecvZcount, RecvZrange, Begin
    <3>2. pc' \notin {"remove", "insert", "undefined"}
      <4>1. CASE RecvPlain
        <5>1. PICK r \in PlainRequests :
                pc' = CASE r.cmd = "ZCARD" -> "card" [] r.cmd = "DROP" -> "drop"
                        [] r.cmd = "MALFORMED" -> "refuse"
          BY <4>1 DEF RecvPlain
        <5>2. r.cmd \in {"ZCARD", "MALFORMED", "DROP"}
          BY DEF PlainRequests
        <5> QED
          BY <5>1, <5>2
      <4>2. CASE RecvZadd
        BY <4>2 DEF RecvZadd
      <4>3. CASE RecvZcount \/ RecvZrange
        BY <4>3 DEF RecvZcount, RecvZrange, Search
      <4> QED
        BY <2>4, <4>1, <4>2, <4>3 DEF Receive
    <3> QED
      BY <2>3, <3>1, <3>2, WalkElsewhere
  <2>5. CASE refuse \/ zcard \/ zadded \/ incremented \/ counted \/ emitted
    <3>1. UNCHANGED listVars /\ pc' = "idle"
      BY <2>5 DEF refuse, zcard, zadded, incremented, counted, emitted, Answer
    <3> QED
      BY <2>3, <3>1, WalkElsewhere
  <2>6. CASE countedMin \/ ranked \/ emit
    <3>1. UNCHANGED listVars /\ pc' \in {"max", "emit"}
      BY <2>6 DEF countedMin, ranked, emit, Search
    <3> QED
      BY <2>3, <3>1, WalkElsewhere
  <2>7. CASE hop \/ down
    BY <2>2, <2>3, <2>7, WalkOn
  <2>8. CASE lookup
    BY <2>3, <2>8, LookupWalk
  <2>9. CASE lookupDangling
    BY <2>2, <2>9 DEF lookupDangling
  <2>10. ASSUME pc = "remove" \/ (pc = "insert" /\ ~Ties)
         PROVE  Seeking /\ \E p \in 0..Count : CameTo(p)
    <3>1. Seeking
      BY <2>2, <2>10 DEF Seeking
    <3> QED
      BY <3>1, SeekingTypes
  <2>11. CASE unlinkMissed \/ unlinkPartly
    <3>1. Seeking
      BY <2>10, <2>11 DEF unlinkMissed, unlinkPartly, Ended
    <3> QED
      BY <2>11, <3>1, NeverMisses, NeverPartly
  <2>12. CASE unlink
    <3>1. Seeking /\ \E p \in 0..Count : CameTo(p)
      BY <2>10, <2>12 DEF unlink, Ended
    <3>2. PICK p \in 0..Count : CameTo(p)
      BY <3>1
    <3>3. Shape' /\ Count' = Count - 1 /\ p + 1 \in 1..Count /\ Count \in Nat
      BY <2>2, <2>12, <3>1, <3>2, UnlinkShape, UnlinkPositions, Positions
    <3>4. Search("insert", 1) /\ UNCHANGED <<callVars, levels, dangling>>
      BY <2>12 DEF unlink
    <3>5. CameTo(0)' /\ lvl' <= levels' /\ pc' = "insert"
      BY <3>4, SearchComes DEF Search
    <3>6. table'[Member'] = NULL
      <4>1. Member' = Member /\ Member \in Members /\ table' = [table EXCEPT ![Member] = NULL]
        BY <2>12, <3>1, <3>4, SeekingTypes DEF unlink, Member, callVars
      <4> QED
        BY <4>1 DEF TypeOK
    <3>7. 0 \in 0..Count'
      BY <3>3
    <3>8. Walk'
      BY <3>5, <3>6, <3>7 DEF Walk
    <3> QED
      BY <2>2, <3>3, <3>4, <3>5, <3>8
  <2>13. CASE splice
    <3>1. pc = "insert" /\ ~Ties /\ table[Member] = NULL
      BY <2>2, <2>13 DEF splice, Ended, Ties, Walk
    <3>2. Seeking /\ \E p \in 0..Count : CameTo(p)
      BY <2>10, <3>1
    <3>3. Shape'
      BY <2>13, <3>2, SpliceShape
    <3>4. pc' = "pair" /\ ~dangling'
      BY <2>2, <2>13, <3>1 DEF splice, NextPair
    <3> QED
      BY <3>3, <3>4, WalkElsewhere
  <2>14. CASE UNCHANGED vars
    <3>1. UNCHANGED <<listVars, walkVars, callVars, pc>>
      BY <2>14 DEF vars
    <3>2. Walk'
      BY <2>2, <3>1 DEF Walk, CameTo, WentDown, Ties, Sought, NewScore, Member, Count, NodeAt, Tall,
         ScoreOf, listVars, walkVars, callVars
    <3> QED
      BY <2>2, <2>3, <3>1, <3>2
  <2> QED
    BY <1>2, <2>4, <2>5, <2>6, <2>7, <2>8, <2>9, <2>11, <2>12, <2>13, <2>14 DEF Next, Serve
<1> QED
  BY <1>1, <1>2

THEOREM StrongInvariant == Spec => [](TypeOK /\ Sane /\ Strong)
BY InitSane, NextSane, InitStrong, NextStrong, PTL DEF Spec

-----------------------------------------------------------------------------
(* What follows from it                                                    *)

LEMMA StrongOrder == TypeOK /\ Sane /\ Strong => MembersInOrder
<1> SUFFICES ASSUME TypeOK, Sane, Strong, ~tied
             PROVE  /\ \A i, j \in DOMAIN order : i < j => ScoreOf(order[i]) < ScoreOf(order[j])
                    /\ {t \in Towers : tower[t] # NULL} = {order[i] : i \in DOMAIN order}
                    /\ \A t \in Towers : tower[t] # NULL => table[tower[t].member] = t
                    /\ \A m \in Members : table[m] # NULL => KeyOf(table[m]) = m
                    /\ size = Len(order)
  BY DEF MembersInOrder
<1>1. Shape /\ Chained /\ Owned
  BY DEF Strong, Sane
<1>2. {t \in Towers : tower[t] # NULL} = {order[i] : i \in DOMAIN order}
  <2>1. \A i \in DOMAIN order : order[i] \in Towers
    BY DEF TypeOK
  <2> QED
    BY <1>1, <2>1 DEF Chained
<1>3. ASSUME NEW m \in Members, table[m] # NULL PROVE KeyOf(table[m]) = m
  <2>1. table[m] \in Towers /\ tower[table[m]].member = m
    BY <1>1, <1>3 DEF Owned, TypeOK
  <2> QED
    BY <2>1, SkipListAssumption DEF KeyOf
<1>4. \A i, j \in DOMAIN order : i < j => ScoreOf(order[i]) < ScoreOf(order[j])
  BY <1>1 DEF Shape, Sorted
<1>5. \A t \in Towers : tower[t] # NULL => table[tower[t].member] = t
  BY <1>1 DEF Chained
<1>6. size = Len(order)
  BY <1>1 DEF Shape, Count
<1> QED
  BY <1>2, <1>3, <1>4, <1>5, <1>6

LEMMA StrongSpans == TypeOK /\ Sane /\ Strong => SpansRight
<1> SUFFICES ASSUME TypeOK, Sane, Strong, ~tied, NEW i \in 0..levels, NEW x \in At(i),
                    NEW ahead, ahead = {y \in At(i) : Position(y) > Position(x)}
             PROVE  IF ahead = {}
                    THEN next[i][x] = NULL /\ span[i][x] = size + 1 - Position(x)
                    ELSE /\ next[i][x] \in ahead
                         /\ \A y \in ahead : Position(next[i][x]) <= Position(y)
                         /\ span[i][x] = Position(next[i][x]) - Position(x)
  BY DEF SpansRight
<1>1. Fine /\ size = Count /\ Count \in Nat
  <2>1. Fine /\ size = Count
    BY DEF Strong, Sane, Fine, Shape
  <2> QED
    BY <2>1, Positions
<1>2. ASSUME NEW p \in 0..Count PROVE Position(NodeAt(p)) = p
  <2>1. CASE p = 0
    BY <2>1 DEF Position, NodeAt
  <2>2. CASE p # 0
    <3>1. p \in 1..Count /\ p \in DOMAIN order /\ NodeAt(p) = order[p] /\ order[p] # HEAD
      BY <1>1, <2>2, Positions DEF NodeAt
    <3>2. \A k \in DOMAIN order : order[k] = order[p] => k = p
      BY <1>1, <3>1, Positions
    <3> QED
      BY <3>1, <3>2 DEF Position
  <2> QED
    BY <2>1, <2>2
<1>3. \A y : y \in At(i) <=> \E p \in 0..Count : y = NodeAt(p) /\ Tall(p, i)
  <2>1. DOMAIN order = 1..Count
    BY <1>1, Positions
  <2>2. ASSUME NEW y \in At(i) PROVE \E p \in 0..Count : y = NodeAt(p) /\ Tall(p, i)
    <3>1. CASE y = HEAD
      BY <1>1, <3>1 DEF NodeAt, Tall
    <3>2. CASE y # HEAD
      <4>1. PICK p \in DOMAIN order : y = order[p] /\ tower[order[p]].height >= i
        BY <2>2, <3>2 DEF At
      <4> QED
        BY <1>1, <2>1, <4>1 DEF NodeAt, Tall
    <3> QED
      BY <3>1, <3>2
  <2>3. ASSUME NEW p \in 0..Count, Tall(p, i) PROVE NodeAt(p) \in At(i)
    <3>1. CASE p = 0
      BY <3>1 DEF NodeAt, At
    <3>2. CASE p # 0
      BY <1>1, <2>1, <2>3, <3>2 DEF NodeAt, At, Tall
    <3> QED
      BY <3>1, <3>2
  <2> QED
    BY <2>2, <2>3
<1>4. PICK p \in 0..Count : x = NodeAt(p) /\ Tall(p, i)
  BY <1>3
<1>5. PICK q \in (p + 1)..(Count + 1) :
        /\ q = Count + 1 <=> next[i][NodeAt(p)] = NULL
        /\ q # Count + 1 => q \in 1..Count /\ next[i][NodeAt(p)] = order[q] /\ Tall(q, i)
        /\ span[i][NodeAt(p)] = q - p
        /\ \A r \in (p + 1)..Count : Tall(r, i) => q <= r
  BY <1>1, <1>4, Successor
<1>6. Position(x) = p
  BY <1>2, <1>4
<1>7. ASSUME NEW y \in ahead
      PROVE  q # Count + 1 /\ q <= Position(y)
  <2>1. PICK r \in 0..Count : y = NodeAt(r) /\ Tall(r, i)
    BY <1>3
  <2>2. r > p
    BY <1>2, <1>6, <2>1
  <2> QED
    BY <1>1, <1>2, <1>5, <2>1, <2>2
<1>8. CASE q = Count + 1
  <2>1. ahead = {}
    BY <1>7, <1>8
  <2> QED
    BY <1>1, <1>4, <1>5, <1>6, <1>8, <2>1
<1>9. CASE q # Count + 1
  <2>1. q \in 0..Count /\ next[i][x] = NodeAt(q) /\ Tall(q, i) /\ q > p
    BY <1>1, <1>4, <1>5, <1>9 DEF NodeAt
  <2>2. Position(next[i][x]) = q
    BY <1>2, <2>1
  <2>3. next[i][x] \in At(i)
    BY <1>3, <2>1
  <2>4. next[i][x] \in ahead
    BY <1>6, <2>1, <2>2, <2>3
  <2> QED
    BY <1>4, <1>5, <1>6, <1>7, <2>2, <2>4
<1> QED
  BY <1>8, <1>9

(* On every level, next leads to the nearest tower of that height and      *)
(* children is the distance to it or to the end, so that the ranks ZRANGE  *)
(* and ZCOUNT add up are positions - after any sequence of insertions and  *)
(* updates, with any heights, in which no two members have one score.      *)
THEOREM SpansAreRight == Spec => []SpansRight
BY StrongInvariant, StrongSpans, PTL

(* Without a tie the members stand in the order of their scores, each once *)
(* and under its own entry of the table.                                   *)
THEOREM MembersAreInOrder == Spec => []MembersInOrder
BY StrongInvariant, StrongOrder, PTL

(* The memory errors of a removal are those of a tie and of nothing else:  *)
(* without one removeNodeFromSkipList always finds its tower, on all of    *)
(* its levels.                                                             *)
THEOREM DanglesOnlyAfterTie == Spec => []DanglingOnlyAfterTie
<1>1. Strong => DanglingOnlyAfterTie
  BY DEF Strong, DanglingOnlyAfterTie
<1> QED
  BY <1>1, StrongInvariant, PTL
=============================================================================
