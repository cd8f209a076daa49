---------------------- MODULE SkipListRefinementProofs ----------------------
(***************************************************************************)
(* SkipList implements SortedSet: every step is a step of the map from     *)
(* members to scores under zsetView, or leaves it alone.  ZCOUNT and       *)
(* ZRANGE answer what the map says because their searches end at the last  *)
(* position within their bound, with that position as their rank.          *)
(***************************************************************************)
EXTENDS SkipListProofs, FunctionTheorems, FiniteSetTheorems

-----------------------------------------------------------------------------
(* The invariant                                                           *)

(* What each step knows of its request.                                    *)
Serving ==
  /\ pc = "idle" => op = NULL
  /\ pc = "refuse" => Refused(op)
  /\ pc = "card" => op.cmd = "ZCARD"
  /\ pc = "drop" => op.cmd = "DROP"
  /\ pc \in {"pair", "remove", "insert"} => ~Refused(op)
  /\ pc \in {"remove", "insert"} => Stores(op, old # NULL)
  /\ pc \in {"min", "max"} => op \in ZcountRequests
  /\ pc \in {"rank", "emit"} => op \in ZrangeRequests
  /\ pc \notin {"pair", "remove", "insert", "undefined"} => todo = <<>>
  /\ pc \notin {"remove", "insert", "undefined"} => old = NULL
  /\ pc # "emit" => out = <<>>

(* The positions the searches of ZCOUNT and ZRANGE go past.                *)
Passed(r) ==
  \/ pc = "min" /\ ScoreOf(order[r]) < op.min
  \/ pc = "max" /\ ScoreOf(order[r]) <= op.max
  \/ pc = "rank" /\ r <= First(op, size)

(* One of them has come to position p, and acc is that position.           *)
Reached(p) == at = NodeAt(p) /\ Tall(p, lvl) /\ acc = p /\ (p # 0 => Passed(p))

Ranking ==
  pc \in {"min", "max", "rank"} => lvl <= levels /\ \E p \in 0..Count : Reached(p)

(* low is the last position with a score below min.                        *)
Lowest ==
  pc = "max" => /\ low \in 0..Count
                /\ \A r \in 1..Count : r <= low <=> ScoreOf(order[r]) < op.min

(* out is the first Len(out) members of the range, at the node after them. *)
Collected(f, l, k) ==
  /\ k <= l - f + 1 /\ acc = l - f + 1 - k
  /\ acc > 0 => at = order[f + k + 1]
  /\ \A j \in 1..k : out[j] = KeyOf(order[f + j])

Emitting ==
  /\ pc = "rank" => First(op, size) <= Last(op, size)
  /\ pc = "emit" =>
       IF First(op, size) > Last(op, size) THEN acc <= 0 /\ out = <<>>
       ELSE Collected(First(op, size), Last(op, size), Len(out))

Ranging == Ranking /\ Lowest /\ Emitting

Ranged == ~tied => Ranging

-----------------------------------------------------------------------------
(* The request                                                             *)

LEMMA AnswerServes ==
  ASSUME NEW r, Answer(r)
  PROVE  Serving'
BY DEF Answer, Serving

LEMMA ReceiveServes ==
  ASSUME TypeOK, Serving, Receive
  PROVE  Serving'
<1>1. ASSUME NEW r, Begin(r)
      PROVE  op' = r /\ old' = NULL /\ out' = <<>> /\ todo = <<>>
  BY <1>1 DEF Begin, Serving
<1>2. CASE RecvZadd
  <2>1. PICK r \in ZaddRequests \cup IncrRequests :
          /\ Begin(r)
          /\ IF Refused(r)
             THEN pc' = "refuse" /\ UNCHANGED todo
             ELSE pc' = "pair" /\ todo' = r.pairs
    BY <1>2 DEF RecvZadd
  <2> QED
    BY <1>1, <2>1 DEF Serving
<1>3. CASE RecvPlain
  <2>1. PICK r \in PlainRequests :
          /\ Begin(r)
          /\ pc' = CASE r.cmd = "ZCARD" -> "card" [] r.cmd = "DROP" -> "drop"
                     [] r.cmd = "MALFORMED" -> "refuse"
          /\ UNCHANGED todo
    BY <1>3 DEF RecvPlain
  <2>2. r.cmd \in {"ZCARD", "MALFORMED", "DROP"}
    BY DEF PlainRequests
  <2> QED
    BY <1>1, <2>1, <2>2 DEF Serving, Refused
<1>4. CASE RecvZcount
  <2>1. PICK r \in ZcountRequests : Begin(r) /\ pc' = "min" /\ UNCHANGED todo
    BY <1>4 DEF RecvZcount, Search
  <2> QED
    BY <1>1, <2>1 DEF Serving
<1>5. CASE RecvZrange
  <2>1. PICK r \in ZrangeRequests : Begin(r) /\ pc' \in {"rank", "emit"} /\ UNCHANGED todo
    BY <1>5 DEF RecvZrange, Search
  <2> QED
    BY <1>1, <2>1 DEF Serving
<1> QED
  BY <1>2, <1>3, <1>4, <1>5 DEF Receive

LEMMA NextServes == TypeOK /\ Sane /\ Serving /\ [Next]_vars => Serving'
<1> SUFFICES ASSUME TypeOK, Sane, Serving, [Next]_vars PROVE Serving'
  OBVIOUS
<1>1. CASE Receive
  BY <1>1, ReceiveServes
<1>2. CASE refuse \/ zcard \/ drop \/ zadded \/ incremented \/ counted \/ emitted
  BY <1>2, AnswerServes DEF refuse, zcard, drop, zadded, incremented, counted, emitted
<1>3. CASE hop \/ down
  <2>1. UNCHANGED <<callVars, pc>>
    BY <1>3 DEF hop, down
  <2> QED
    BY <2>1 DEF Serving, callVars
<1>4. CASE lookup
  <2> DEFINE t == table[Member]
  <2>1. pc = "pair"
    BY <1>4 DEF lookup
  <2>2. CASE ~Stores(op, t # NULL)
    <3>1. pc' = "pair" /\ old' = NULL /\ UNCHANGED <<op, out>>
      BY <1>4, <2>2 DEF lookup, NextPair
    <3> QED
      BY <2>1, <3>1 DEF Serving
  <2>3. CASE Stores(op, t # NULL)
    <3>1. /\ old' = IF t = NULL THEN NULL ELSE ScoreOf(t)
          /\ pc' \in {"remove", "insert"}
          /\ UNCHANGED <<op, out>>
      BY <1>4, <2>3 DEF lookup, Search
    <3>2. t # NULL => ScoreOf(t) # NULL
      <4>1. Member \in Members
        BY <1>4, PairTypes DEF lookup
      <4>2. t # NULL => t \in Towers /\ tower[t] \in Tower
        BY <4>1 DEF Sane, Owned, TypeOK
      <4>3. t # NULL => ScoreOf(t) \in Int
        BY <4>2 DEF Tower, ScoreOf
      <4> QED
        BY <4>3, ZsetApiAssumption
    <3>3. (old' # NULL) = (t # NULL)
      BY <3>1, <3>2
    <3>4. Stores(op', old' # NULL)
      BY <2>3, <3>1, <3>3
    <3> HIDE DEF t
    <3> QED
      BY <2>1, <3>1, <3>4 DEF Serving
  <2> QED
    BY <2>2, <2>3
<1>5. CASE unlink \/ unlinkMissed
  <2>1. pc = "remove" /\ pc' = "insert" /\ UNCHANGED callVars
    BY <1>5 DEF unlink, unlinkMissed, Ended, Search
  <2> QED
    BY <2>1 DEF Serving, callVars
<1>6. CASE lookupDangling \/ unlinkPartly
  <2>1. pc \in {"pair", "remove"} /\ pc' = "undefined" /\ UNCHANGED callVars
    BY <1>6 DEF lookupDangling, unlinkPartly, Ended
  <2> QED
    BY <2>1 DEF Serving, callVars
<1>7. CASE splice
  <2>1. pc = "insert" /\ pc' = "pair" /\ old' = NULL /\ UNCHANGED <<op, out>>
    BY <1>7 DEF splice, Ended, NextPair
  <2> QED
    BY <2>1 DEF Serving
<1>8. CASE countedMin
  <2>1. pc = "min" /\ pc' = "max" /\ UNCHANGED <<op, todo, old, out>>
    BY <1>8 DEF countedMin, Ended, Search
  <2> QED
    BY <2>1 DEF Serving
<1>9. CASE ranked
  <2>1. pc = "rank" /\ pc' = "emit" /\ UNCHANGED callVars
    BY <1>9 DEF ranked, Ended
  <2> QED
    BY <2>1 DEF Serving, callVars
<1>10. CASE emit
  <2>1. pc = "emit" /\ pc' = "emit" /\ UNCHANGED <<op, todo, old>>
    BY <1>10 DEF emit
  <2> QED
    BY <2>1 DEF Serving
<1>11. CASE UNCHANGED vars
  <2>1. UNCHANGED <<callVars, pc>>
    BY <1>11 DEF vars
  <2> QED
    BY <2>1 DEF Serving, callVars
<1> QED
  BY <1>1, <1>2, <1>3, <1>4, <1>5, <1>6, <1>7, <1>8, <1>9, <1>10, <1>11 DEF Next, Serve

-----------------------------------------------------------------------------
(* The searches of ZCOUNT and ZRANGE                                       *)

LEMMA RangeTypes ==
  ASSUME NEW r \in ZrangeRequests, NEW n \in Nat
  PROVE  First(r, n) \in Nat /\ Last(r, n) \in Int /\ Last(r, n) >= -1 /\ Last(r, n) <= n - 1
<1>1. r.left \in Int /\ r.right \in Int
  BY ZsetApiAssumption DEF ZrangeRequests
<1> QED
  BY <1>1 DEF First, Last, Larger

(* The state such a search goes on from.                                   *)
Counting ==
  /\ TypeOK /\ Sane /\ Serving /\ Fine /\ Ranking
  /\ pc \in {"min", "max", "rank"}

LEMMA CountingTypes ==
  ASSUME Counting
  PROVE  /\ Fine /\ Count \in Nat /\ size = Count /\ lvl \in 0..levels
         /\ pc \in {"min", "max"} => op.min \in Int /\ op.max \in Int
         /\ pc = "rank" => First(op, size) \in Nat
         /\ \E p \in 0..Count : Reached(p)
<1>1. Fine /\ Count \in Nat /\ levels \in Nat /\ lvl \in Nat /\ size = Count
  BY Positions, LevelsFacts DEF Counting, TypeOK, Fine, Shape
<1>2. lvl <= levels /\ \E p \in 0..Count : Reached(p)
  BY DEF Counting, Ranking
<1>3. pc \in {"min", "max"} => op.min \in Int /\ op.max \in Int
  BY ZsetApiAssumption DEF Counting, Serving, ZcountRequests
<1>4. pc = "rank" => First(op, size) \in Nat
  BY <1>1, RangeTypes DEF Counting, Serving
<1> QED
  BY <1>1, <1>2, <1>3, <1>4

(* What is passed lies in front of what is not.                            *)
LEMMA PassedInFront ==
  ASSUME Counting, NEW a \in 1..Count, NEW b \in 1..Count, a <= b, Passed(b)
  PROVE  Passed(a)
<1>1. /\ ScoreOf(order[a]) \in Int /\ ScoreOf(order[b]) \in Int
      /\ ScoreOf(order[a]) <= ScoreOf(order[b])
  BY CountingTypes, Positions, InOrder
<1>2. a \in Nat /\ b \in Nat
  BY CountingTypes
<1> QED
  BY <1>1, <1>2, CountingTypes DEF Passed

LEMMA AdvancePassed ==
  ASSUME Counting, NEW p \in 0..Count, Reached(p), NEW q \in (p + 1)..Count,
         next[lvl][at] = order[q], span[lvl][at] = q - p
  PROVE  Advance <=> Passed(q)
<1>1. q \in 1..Count /\ order[q] # NULL /\ acc = p /\ p \in Nat /\ q \in Nat
  BY CountingTypes, Positions DEF Reached
<1>2. acc + span[lvl][at] = q
  BY <1>1
<1>3. CASE pc = "rank"
  <2>1. q \in 0..First(op, size) <=> q <= First(op, size)
    BY <1>1, <1>3, CountingTypes
  <2> QED
    BY <1>1, <1>2, <1>3, <2>1 DEF Advance, Passed
<1>4. CASE pc = "min"
  BY <1>1, <1>4 DEF Advance, Passed
<1>5. CASE pc = "max"
  BY <1>1, <1>5 DEF Advance, Passed
<1> QED
  BY <1>3, <1>4, <1>5 DEF Counting

(* A search stops on a level where nothing later there is to be passed.    *)
LEMMA StopsAtBound ==
  ASSUME Counting, NEW p \in 0..Count, Reached(p), ~Advance, NEW r \in (p + 1)..Count,
         Tall(r, lvl)
  PROVE  ~Passed(r)
<1>1. lvl \in 0..levels /\ at = NodeAt(p) /\ Tall(p, lvl) /\ Fine /\ Count \in Nat
  BY CountingTypes DEF Reached
<1>2. PICK q \in (p + 1)..(Count + 1) :
        /\ q # Count + 1 => q \in 1..Count /\ next[lvl][NodeAt(p)] = order[q]
        /\ span[lvl][NodeAt(p)] = q - p
        /\ \A s \in (p + 1)..Count : Tall(s, lvl) => q <= s
  BY <1>1, Successor
<1>3. q <= r /\ r \in 1..Count /\ q # Count + 1 /\ q \in (p + 1)..Count /\ q \in 1..Count
  BY <1>1, <1>2
<1>4. ~Passed(q)
  BY <1>1, <1>2, <1>3, AdvancePassed
<1> QED
  BY <1>3, <1>4, PassedInFront

LEMMA PassedSame ==
  ASSUME UNCHANGED <<listVars, callVars, pc>>
  PROVE  \A r : Passed(r)' <=> Passed(r)
<1>1. UNCHANGED <<op, pc, order, size>> /\ \A x : ScoreOf(x)' = ScoreOf(x)
  BY ListSame DEF listVars, callVars
<1> QED
  BY <1>1 DEF Passed

LEMMA HopReaches ==
  ASSUME Counting, hop, NEW p \in 0..Count, Reached(p)
  PROVE  \E q \in 0..Count : Reached(q)'
<1>1. lvl \in 0..levels /\ at = NodeAt(p) /\ Tall(p, lvl) /\ Fine /\ Count \in Nat /\ acc = p
  BY CountingTypes DEF Reached
<1>2. /\ Advance /\ at' = next[lvl][at] /\ acc' = acc + span[lvl][at]
      /\ UNCHANGED <<listVars, callVars, pc, lvl>>
  BY DEF hop, Counting
<1>3. PICK q \in (p + 1)..(Count + 1) :
        /\ q = Count + 1 <=> next[lvl][NodeAt(p)] = NULL
        /\ q # Count + 1 => q \in 1..Count /\ next[lvl][NodeAt(p)] = order[q] /\ Tall(q, lvl)
        /\ span[lvl][NodeAt(p)] = q - p
  BY <1>1, Successor
<1>4. q \in (p + 1)..Count /\ q \in 1..Count /\ next[lvl][at] = order[q] /\ Tall(q, lvl)
  BY <1>1, <1>2, <1>3 DEF Advance
<1>5. Passed(q)
  BY <1>1, <1>2, <1>3, <1>4, AdvancePassed
<1>6. at' = NodeAt(q) /\ acc' = q /\ q \in 0..Count
  BY <1>1, <1>2, <1>3, <1>4 DEF NodeAt
<1>7. Reached(q)'
  BY <1>2, <1>4, <1>5, <1>6, ListSame, PassedSame DEF Reached
<1> QED
  BY <1>6, <1>7

LEMMA DownReaches ==
  ASSUME Counting, down, NEW p \in 0..Count, Reached(p)
  PROVE  Reached(p)'
<1>1. lvl \in 0..levels /\ at = NodeAt(p) /\ Tall(p, lvl) /\ Fine /\ acc = p
      /\ (p # 0 => Passed(p))
  BY CountingTypes DEF Reached
<1>2. lvl > 0 /\ lvl' = lvl - 1 /\ UNCHANGED <<listVars, callVars, pc, at, acc>>
  BY DEF down
<1>3. lvl \in Levels /\ lvl - 1 \in Levels /\ lvl \in Nat
  BY <1>1, <1>2, LevelsFacts, Positions
<1>4. Tall(p, lvl - 1)
  BY <1>1, <1>3, TallFacts
<1> QED
  BY <1>1, <1>2, <1>4, ListSame, PassedSame DEF Reached

LEMMA RankingOn ==
  ASSUME Counting, hop \/ down
  PROVE  Ranking'
<1>1. lvl \in Nat /\ levels \in Nat /\ lvl <= levels /\ \E p \in 0..Count : Reached(p)
  BY CountingTypes, Positions
<1>2. UNCHANGED <<listVars, pc>> /\ UNCHANGED levels /\ (lvl' = lvl \/ lvl' = lvl - 1)
  BY DEF hop, down, listVars
<1>3. lvl' <= levels'
  BY <1>1, <1>2
<1>4. \E q \in 0..Count' : Reached(q)'
  BY <1>1, <1>2, ListSame, HopReaches, DownReaches
<1> QED
  BY <1>3, <1>4 DEF Ranking

(* One begins at the sentinels.                                            *)
LEMMA RankingBegins ==
  ASSUME TypeOK, NEW what, Search(what, 0), UNCHANGED listVars
  PROVE  Ranking'
<1>1. lvl' = levels /\ at' = HEAD /\ acc' = 0 /\ levels' = levels /\ levels \in Nat
  BY LevelsFacts DEF Search, listVars, TypeOK
<1>2. Count \in Nat /\ Count' = Count
  BY ListSame DEF TypeOK, Count
<1>3. Reached(0)'
  BY <1>1 DEF Reached, NodeAt, Tall
<1> QED
  BY <1>1, <1>2, <1>3 DEF Ranking

(* It ends where everything to be passed lies behind it.                   *)
LEMMA RankingEnds ==
  ASSUME Counting, ~Advance, lvl = 0
  PROVE  /\ acc \in 0..Count /\ at = NodeAt(acc)
         /\ \A r \in 1..Count : r <= acc <=> Passed(r)
<1>1. PICK p \in 0..Count : Reached(p)
  BY CountingTypes
<1>2. acc = p /\ at = NodeAt(p) /\ (p # 0 => Passed(p)) /\ Count \in Nat /\ Fine
  BY <1>1, CountingTypes DEF Reached
<1>3. ASSUME NEW r \in 1..Count PROVE r <= acc <=> Passed(r)
  <2>1. CASE r <= p
    <3>1. p \in 1..Count /\ Passed(p)
      BY <1>2, <2>1
    <3> QED
      BY <1>2, <2>1, <3>1, PassedInFront
  <2>2. CASE ~(r <= p)
    <3>1. r \in (p + 1)..Count /\ Tall(r, lvl)
      BY <1>2, <2>2, TallFacts
    <3> QED
      BY <1>1, <1>2, <2>2, <3>1, StopsAtBound
  <2> QED
    BY <2>1, <2>2
<1> QED
  BY <1>2, <1>3

-----------------------------------------------------------------------------
(* Ranged is kept                                                          *)

LEMMA RangedElsewhere ==
  ASSUME pc' \notin {"min", "max", "rank", "emit"}
  PROVE  Ranging'
BY DEF Ranging, Ranking, Lowest, Emitting

LEMMA ReceiveRanges ==
  ASSUME TypeOK, Sane, Serving, Receive
  PROVE  Ranging'
<1>1. CASE RecvZadd
  <2>1. pc' \in {"refuse", "pair"}
    BY <1>1 DEF RecvZadd
  <2> QED
    BY <2>1, RangedElsewhere
<1>2. CASE RecvPlain
  <2>1. PICK r \in PlainRequests :
          pc' = CASE r.cmd = "ZCARD" -> "card" [] r.cmd = "DROP" -> "drop"
                  [] r.cmd = "MALFORMED" -> "refuse"
    BY <1>2 DEF RecvPlain
  <2>2. r.cmd \in {"ZCARD", "MALFORMED", "DROP"}
    BY DEF PlainRequests
  <2>3. pc' \in {"card", "drop", "refuse"}
    BY <2>1, <2>2
  <2> QED
    BY <2>3, RangedElsewhere
<1>3. CASE RecvZcount
  <2>1. Search("min", 0) /\ pc' = "min" /\ UNCHANGED listVars
    BY <1>3 DEF RecvZcount, Search, Begin
  <2>2. Ranking'
    BY <2>1, RankingBegins
  <2> QED
    BY <2>1, <2>2 DEF Ranging, Lowest, Emitting
<1>4. CASE RecvZrange
  <2>1. PICK r \in ZrangeRequests :
          /\ Begin(r)
          /\ IF First(r, size) <= Last(r, size)
             THEN Search("rank", 0)
             ELSE pc' = "emit" /\ UNCHANGED walkVars
    BY <1>4 DEF RecvZrange
  <2>2. /\ op' = r /\ size' = size /\ UNCHANGED listVars
        /\ pc = "idle" /\ out' = <<>> /\ acc = 0
    BY <2>1 DEF Begin, Serving, listVars, Sane, Standing
  <2>3. CASE First(r, size) <= Last(r, size)
    <3>1. Search("rank", 0) /\ pc' = "rank"
      BY <2>1, <2>3 DEF Search
    <3>2. Ranking'
      BY <2>2, <3>1, RankingBegins
    <3> QED
      BY <2>2, <2>3, <3>1, <3>2 DEF Ranging, Lowest, Emitting
  <2>4. CASE ~(First(r, size) <= Last(r, size))
    <3>1. pc' = "emit" /\ acc' = 0
      BY <2>1, <2>2, <2>4 DEF walkVars
    <3>2. size \in Int
      BY DEF TypeOK
    <3>3. First(r, size) \in Int /\ Last(r, size) \in Int
      <4>1. r.left \in Int /\ r.right \in Int /\ size \in Int
        BY <3>2, ZsetApiAssumption DEF ZrangeRequests
      <4> QED
        BY <4>1 DEF First, Last, Larger
    <3>4. First(op', size') > Last(op', size')
      BY <2>2, <2>4, <3>3
    <3>5. Emitting'
      BY <2>2, <3>1, <3>4 DEF Emitting
    <3> QED
      BY <3>1, <3>5 DEF Ranging, Ranking, Lowest
  <2> QED
    BY <2>3, <2>4
<1> QED
  BY <1>1, <1>2, <1>3, <1>4 DEF Receive

(* The search for min has counted what lies below it.                      *)
LEMMA CountedMinRanges ==
  ASSUME Counting, countedMin
  PROVE  Ranging'
<1>1. /\ pc = "min" /\ ~Advance /\ lvl = 0 /\ low' = acc /\ op' = op
      /\ Search("max", 0) /\ UNCHANGED listVars
  BY DEF countedMin, Ended
<1>2. acc \in 0..Count /\ \A r \in 1..Count : r <= acc <=> Passed(r)
  BY <1>1, RankingEnds
<1>3. \A r \in 1..Count : r <= acc <=> ScoreOf(order[r]) < op.min
  BY <1>1, <1>2 DEF Passed
<1>4. UNCHANGED order /\ Count' = Count /\ \A x : ScoreOf(x)' = ScoreOf(x)
  BY <1>1, ListSame DEF listVars
<1>5. Lowest'
  BY <1>1, <1>2, <1>3, <1>4 DEF Lowest
<1>6. Ranking' /\ pc' = "max"
  BY <1>1, RankingBegins DEF Search, Counting
<1> QED
  BY <1>5, <1>6 DEF Ranging, Emitting

(* The search by rank stands right before the first member of the range.   *)
LEMMA RankedRanges ==
  ASSUME Counting, Emitting, ranked
  PROVE  Ranging'
<1>0. PICK f, l : f = First(op, size) /\ l = Last(op, size)
  OBVIOUS
<1>1. /\ pc = "rank" /\ ~Advance /\ lvl = 0
      /\ pc' = "emit" /\ at' = next[0][at] /\ acc' = l - f + 1
      /\ UNCHANGED <<listVars, callVars>>
  BY <1>0 DEF ranked, Ended, Target
<1>2. /\ acc \in 0..Count /\ at = NodeAt(acc)
      /\ \A r \in 1..Count : r <= acc <=> Passed(r)
  BY <1>1, RankingEnds
<1>3. \A r \in 1..Count : r <= acc <=> r <= f
  BY <1>0, <1>1, <1>2 DEF Passed
<1>4. f \in Nat /\ l \in Int /\ l <= Count - 1 /\ f <= l /\ Count \in Nat /\ Fine
  BY <1>0, <1>1, CountingTypes, RangeTypes DEF Counting, Serving, Emitting
<1>5. acc = f
  <2>1. f # 0 => f \in 1..Count
    BY <1>4
  <2>2. f + 1 \in 1..Count
    BY <1>4
  <2>3. acc \in Nat /\ f <= acc
    BY <1>2, <1>3, <1>4, <2>1
  <2>4. ~(f + 1 <= acc)
    BY <1>3, <1>4, <2>2
  <2> QED
    BY <1>4, <2>3, <2>4
<1>6. at' = order[f + 1]
  BY <1>1, <1>2, <1>4, <1>5, Successor0
<1>7. out' = <<>> /\ Len(out') = 0
  BY <1>1 DEF Counting, Serving, callVars
<1>8. order' = order /\ op' = op /\ size' = size
  BY <1>1 DEF listVars, callVars
<1>9. Collected(f, l, 0)'
  <2>1. at' = order'[f + 0 + 1] /\ \A j \in 1..0 : FALSE
    BY <1>4, <1>6, <1>8
  <2> QED
    BY <1>1, <1>4, <2>1 DEF Collected
<1>10. Emitting'
  <2>1. f = First(op', size') /\ l = Last(op', size')
    BY <1>0, <1>8
  <2>2. ~(f > l)
    BY <1>4
  <2> QED
    BY <1>1, <1>7, <1>9, <2>1, <2>2 DEF Emitting
<1> QED
  BY <1>1, <1>10 DEF Ranging, Ranking, Lowest

LEMMA EmitRanges ==
  ASSUME TypeOK, Sane, Serving, Fine, Emitting, emit
  PROVE  Ranging'
<1>0. PICK f, l, k : f = First(op, size) /\ l = Last(op, size) /\ k = Len(out)
  OBVIOUS
<1>1. /\ pc = "emit" /\ acc > 0 /\ at # NULL
      /\ out' = Append(out, KeyOf(at)) /\ at' = next[0][at] /\ acc' = acc - 1
      /\ UNCHANGED <<listVars, pc, op>>
  BY DEF emit, More
<1>2. Count \in Nat /\ size = Count /\ acc \in Int /\ k \in Nat /\ out \in Seq(Members)
  BY <1>0, Positions DEF Fine, Shape, TypeOK
<1>3. f \in Nat /\ l \in Int /\ l <= Count - 1
  BY <1>0, <1>1, <1>2, RangeTypes DEF Serving
<1>4. ~(f > l) /\ Collected(f, l, k)
  BY <1>0, <1>1, <1>2 DEF Emitting
<1>5. /\ k + 1 <= l - f + 1 /\ acc - 1 = l - f + 1 - (k + 1) /\ at = order[f + k + 1]
      /\ \A j \in 1..k : out[j] = KeyOf(order[f + j])
  BY <1>1, <1>2, <1>3, <1>4 DEF Collected
<1>6. f + k + 1 \in 0..Count /\ f + k + 1 # 0 /\ at = NodeAt(f + k + 1)
  BY <1>2, <1>3, <1>5 DEF NodeAt
<1>7. acc - 1 > 0 => at' = order[f + (k + 1) + 1]
  <2>1. acc - 1 > 0 => f + k + 1 # Count /\ f + k + 1 + 1 = f + (k + 1) + 1
    BY <1>2, <1>3, <1>5
  <2> QED
    BY <1>1, <1>6, <2>1, Successor0
<1>8. Len(out') = k + 1 /\ \A j \in 1..(k + 1) : out'[j] = KeyOf(order[f + j])
  <2>1. KeyOf(at) \in Members
    <3>1. f + k + 1 \in 1..Count
      BY <1>2, <1>6
    <3> QED
      BY <1>5, <3>1, Positions DEF KeyOf
  <2>2. Len(out') = k + 1 /\ \A j \in 1..(k + 1) : out'[j] = IF j = k + 1 THEN KeyOf(at) ELSE out[j]
    BY <1>0, <1>1, <1>2, <2>1
  <2>3. ASSUME NEW j \in 1..(k + 1) PROVE out'[j] = KeyOf(order[f + j])
    <3>1. CASE j = k + 1
      <4>1. f + j = f + k + 1
        BY <1>2, <1>3, <3>1
      <4> QED
        BY <1>5, <2>2, <3>1, <4>1
    <3>2. CASE j # k + 1
      <4>1. j \in 1..k
        BY <1>2, <3>2
      <4> QED
        BY <1>5, <2>2, <3>2, <4>1
    <3> QED
      BY <3>1, <3>2
  <2> QED
    BY <2>2, <2>3
<1>9. order' = order /\ size' = size /\ \A x : KeyOf(x)' = KeyOf(x)
  BY <1>1 DEF listVars, KeyOf
<1>10. Collected(f, l, k + 1)'
  BY <1>1, <1>5, <1>7, <1>8, <1>9 DEF Collected
<1>11. f = First(op', size') /\ l = Last(op', size')
  BY <1>0, <1>1, <1>9
<1>12. Emitting'
  BY <1>1, <1>4, <1>8, <1>10, <1>11 DEF Emitting
<1> QED
  BY <1>1, <1>12 DEF Ranging, Ranking, Lowest

LEMMA InitRanged == Init => Serving /\ Ranged
BY DEF Init, Serving, Ranged, Ranging, Ranking, Lowest, Emitting

LEMMA NextRanged == TypeOK /\ Sane /\ Strong /\ Serving /\ Ranged /\ [Next]_vars => Ranged'
<1> SUFFICES ASSUME TypeOK, Sane, Strong, Serving, Ranged, [Next]_vars, ~tied'
             PROVE  Ranging'
  BY DEF Ranged
<1>1. CASE Receive
  BY <1>1, ReceiveRanges
<1>2. CASE refuse \/ zcard \/ drop \/ zadded \/ incremented \/ counted \/ emitted
  <2>1. pc' = "idle"
    BY <1>2 DEF refuse, zcard, drop, zadded, incremented, counted, emitted, Answer
  <2> QED
    BY <2>1, RangedElsewhere
<1>3. CASE lookup \/ lookupDangling \/ unlink \/ unlinkMissed \/ unlinkPartly \/ splice
  <2>1. pc' \in {"pair", "remove", "insert", "undefined"}
    <3>1. CASE lookup
      BY <3>1 DEF lookup, NextPair, Search
    <3>2. CASE ~lookup
      BY <1>3, <3>2 DEF lookupDangling, unlink, unlinkMissed, unlinkPartly, splice,
         NextPair, Search
    <3> QED
      BY <3>1, <3>2
  <2> QED
    BY <2>1, RangedElsewhere
<1>4. ASSUME UNCHANGED tied
      PROVE  /\ ~tied /\ Fine /\ Ranging
             /\ pc \in {"min", "max", "rank"} => Counting
  BY <1>4 DEF Strong, Sane, Fine, Ranged, Ranging, Counting
<1>5. CASE hop \/ down
  <2>1. UNCHANGED <<listVars, callVars, pc>>
    BY <1>5 DEF hop, down
  <2>2. CASE pc \in {"remove", "insert"}
    BY <2>1, <2>2, RangedElsewhere
  <2>3. CASE pc \in {"min", "max", "rank"}
    <3>1. Counting /\ Lowest /\ Emitting
      BY <1>4, <2>1, <2>3 DEF listVars, Ranging
    <3>2. Ranking'
      BY <1>5, <3>1, RankingOn
    <3>3. /\ UNCHANGED <<low, op, order, size, pc>> /\ Count' = Count
          /\ \A x : ScoreOf(x)' = ScoreOf(x)
      BY <2>1, ListSame DEF listVars, callVars
    <3>4. Lowest'
      BY <3>1, <3>3 DEF Lowest
    <3>5. Emitting'
      BY <2>3, <3>1, <3>3 DEF Emitting
    <3> QED
      BY <3>2, <3>4, <3>5 DEF Ranging
  <2> QED
    BY <1>5, <2>2, <2>3 DEF hop, down, Searching
<1>6. CASE countedMin
  <2>1. pc = "min" /\ UNCHANGED tied
    BY <1>6 DEF countedMin, Ended, listVars
  <2> QED
    BY <1>4, <1>6, <2>1, CountedMinRanges
<1>7. CASE ranked
  <2>1. pc = "rank" /\ UNCHANGED tied
    BY <1>7 DEF ranked, Ended, listVars
  <2> QED
    BY <1>4, <1>7, <2>1, RankedRanges DEF Ranging
<1>8. CASE emit
  <2>1. UNCHANGED tied
    BY <1>8 DEF emit, listVars
  <2> QED
    BY <1>4, <1>8, <2>1, EmitRanges DEF Ranging
<1>9. CASE UNCHANGED vars
  <2>1. UNCHANGED <<listVars, walkVars, callVars, pc>> /\ UNCHANGED tied
    BY <1>9 DEF vars, listVars
  <2>2. Ranging
    BY <1>4, <2>1
  <2> QED
    BY <2>1, <2>2 DEF Ranging, Ranking, Lowest, Emitting, Collected, Reached, Passed, Count,
       NodeAt, Tall, ScoreOf, KeyOf, listVars, walkVars, callVars
<1> QED
  BY <1>1, <1>2, <1>3, <1>5, <1>6, <1>7, <1>8, <1>9 DEF Next, Serve

Known == TypeOK /\ Sane /\ Strong /\ Serving /\ Ranged

LEMMA KnownInvariant == Spec => []Known
<1>1. Init => Known
  BY InitSane, InitStrong, InitRanged DEF Known
<1>2. Known /\ [Next]_vars => Known'
  BY NextSane, NextStrong, NextServes, NextRanged DEF Known
<1> QED
  BY <1>1, <1>2, PTL DEF Spec

-----------------------------------------------------------------------------
(* The map by positions                                                    *)

(* A state without a tie, between two pairs or outside a ZADD.             *)
Placed == Fine /\ Owned /\ old = NULL

MemberAt(p) == tower[order[p]].member

LEMMA ViewPlain ==
  ASSUME old = NULL, NEW m \in Members
  PROVE  zsetView[m] = IF table[m] = NULL THEN NULL ELSE ScoreOf(table[m])
BY DEF zsetView

LEMMA ViewAtPosition ==
  ASSUME Placed, NEW p \in 1..Count
  PROVE  /\ MemberAt(p) \in Members /\ KeyOf(order[p]) = MemberAt(p)
         /\ zsetView[MemberAt(p)] = ScoreOf(order[p])
         /\ zsetView[MemberAt(p)] \in Int /\ zsetView[MemberAt(p)] # NULL
<1>1. /\ MemberAt(p) \in Members /\ order[p] \in Towers /\ order[p] # HEAD
      /\ order[p] # NULL /\ tower[order[p]] \in Tower /\ ScoreOf(order[p]) \in Int
  BY Positions DEF Placed, MemberAt
<1>2. tower[order[p]] # NULL
  BY <1>1, SkipListAssumption
<1>3. table[MemberAt(p)] = order[p]
  <2>1. \A t \in Towers : tower[t] # NULL => table[tower[t].member] = t
    BY DEF Placed, Fine, Chained
  <2> QED
    BY <1>1, <1>2, <2>1 DEF MemberAt
<1>4. zsetView[MemberAt(p)] = ScoreOf(order[p])
  BY <1>1, <1>3, ViewPlain DEF Placed
<1> QED
  BY <1>1, <1>4, ZsetApiAssumption DEF KeyOf, MemberAt

LEMMA PositionOfMember ==
  ASSUME Placed, NEW m \in Members, zsetView[m] # NULL
  PROVE  \E p \in 1..Count : m = MemberAt(p)
<1>1. table[m] # NULL
  BY ViewPlain DEF Placed
<1>2. table[m] \in Towers /\ tower[table[m]] # NULL /\ tower[table[m]].member = m
  BY <1>1 DEF Placed, Owned, Fine, TypeOK
<1>3. PICK p \in 1..Count : order[p] = table[m]
  BY <1>2, Positions DEF Placed
<1> QED
  BY <1>2, <1>3 DEF MemberAt

LEMMA MembersApart ==
  ASSUME Placed, NEW p \in 1..Count, NEW q \in 1..Count, MemberAt(p) = MemberAt(q)
  PROVE  p = q
<1>1. \A t \in Towers : tower[t] # NULL => table[tower[t].member] = t
  BY DEF Placed, Fine, Chained
<1>2. ASSUME NEW r \in 1..Count PROVE table[MemberAt(r)] = order[r]
  <2>1. order[r] \in Towers /\ tower[order[r]] \in Tower
    BY Positions DEF Placed
  <2>2. tower[order[r]] # NULL
    BY <2>1, SkipListAssumption
  <2> QED
    BY <1>1, <2>1, <2>2 DEF MemberAt
<1> QED
  BY <1>2, Positions DEF Placed

(* How many members an interval of positions holds.                        *)
LEMMA CountOfPositions ==
  ASSUME Placed, NEW a \in 0..Count, NEW b \in 0..Count, NEW S,
         \A m \in S : \E p \in 1..Count : m = MemberAt(p) /\ a < p /\ p <= b,
         \A p \in 1..Count : a < p /\ p <= b => MemberAt(p) \in S
  PROVE  Cardinality(S) = IF b < a THEN 0 ELSE b - a
<1> DEFINE I == (a + 1)..b
           F == [p \in I |-> MemberAt(p)]
<1>1. Count \in Nat /\ a \in Nat /\ b \in Nat
  BY Positions DEF Placed
<1>2. \A p : p \in I <=> p \in 1..Count /\ a < p /\ p <= b
  BY <1>1
<1>3. F \in [I -> S]
  BY <1>2
<1>4. \A p, q \in I : F[p] = F[q] => p = q
  BY <1>2, MembersApart
<1>5. \A m \in S : \E p \in I : F[p] = m
  BY <1>2
<1>6. IsFiniteSet(I) /\ Cardinality(I) = IF a + 1 > b THEN 0 ELSE b - (a + 1) + 1
  BY <1>1, FS_Interval
<1> HIDE DEF I, F
<1>7. F \in Bijection(I, S)
  BY <1>3, <1>4, <1>5, Fun_IsBij
<1>8. Cardinality(S) = Cardinality(I)
  BY <1>6, <1>7, FS_Bijection DEF ExistsBijection
<1> QED
  BY <1>1, <1>6, <1>8

(* The vocabulary of SortedSet is that of SkipList.                        *)
LEMMA SameCardinality == \A S : SS!Cardinality(S) = Cardinality(S)
BY DEF SS!Cardinality, Cardinality

LEMMA CardIsCount ==
  ASSUME Placed
  PROVE  SS!Card = Count /\ SS!Card = size
<1>1. Count \in Nat /\ 0 \in 0..Count /\ Count \in 0..Count /\ size = Count
  BY Positions DEF Placed, Fine, Shape
<1> DEFINE S == {m \in Members : zsetView[m] # NULL}
<1>2. \A m \in S : \E p \in 1..Count : m = MemberAt(p) /\ 0 < p /\ p <= Count
  BY <1>1, PositionOfMember
<1>3. \A p \in 1..Count : 0 < p /\ p <= Count => MemberAt(p) \in S
  BY ViewAtPosition
<1>4. SS!Card = Cardinality(S)
  BY SameCardinality DEF SS!Card, SS!In
<1> HIDE DEF S
<1>5. Cardinality(S) = IF Count < 0 THEN 0 ELSE Count - 0
  BY <1>1, <1>2, <1>3, CountOfPositions
<1> QED
  BY <1>1, <1>4, <1>5

(* The rank of a member is the number of towers before its own.            *)
LEMMA RankIsPosition ==
  ASSUME Placed, NEW p \in 1..Count
  PROVE  SS!Rank(MemberAt(p)) = p - 1
<1>1. Count \in Nat /\ 0 \in 0..Count /\ p - 1 \in 0..Count
  BY Positions DEF Placed
<1> DEFINE S == {k \in Members : zsetView[k] # NULL
                                  /\ (zsetView[k] < zsetView[MemberAt(p)]
                                      \/ (zsetView[k] = zsetView[MemberAt(p)]
                                          /\ k < MemberAt(p)))}
<1>2. SS!Rank(MemberAt(p)) = Cardinality(S)
  BY SameCardinality DEF SS!Rank, SS!In, SS!Precedes
<1>3. ASSUME NEW q \in 1..Count
      PROVE  MemberAt(q) \in S <=> q < p
  <2>1. /\ MemberAt(q) \in Members /\ MemberAt(p) \in Members
        /\ zsetView[MemberAt(q)] = ScoreOf(order[q]) /\ zsetView[MemberAt(p)] = ScoreOf(order[p])
        /\ zsetView[MemberAt(q)] # NULL
        /\ ScoreOf(order[p]) \in Int /\ ScoreOf(order[q]) \in Int
    BY ViewAtPosition
  <2>2. MemberAt(q) \in Nat /\ MemberAt(p) \in Nat
    BY <2>1, ZsetApiAssumption
  <2>3. /\ q < p <=> ScoreOf(order[q]) < ScoreOf(order[p])
        /\ ScoreOf(order[q]) = ScoreOf(order[p]) => q = p
    BY InOrder DEF Placed
  <2>4. ScoreOf(order[q]) = ScoreOf(order[p]) => ~(MemberAt(q) < MemberAt(p))
    BY <2>2, <2>3
  <2>5. MemberAt(q) \in S <=>
          \/ ScoreOf(order[q]) < ScoreOf(order[p])
          \/ ScoreOf(order[q]) = ScoreOf(order[p]) /\ MemberAt(q) < MemberAt(p)
    BY <2>1
  <2> HIDE DEF S
  <2> QED
    BY <2>3, <2>4, <2>5
<1>4. \A m \in S : m \in Members /\ zsetView[m] # NULL
  OBVIOUS
<1> HIDE DEF S
<1>5. \A m \in S : \E q \in 1..Count : m = MemberAt(q) /\ 0 < q /\ q <= p - 1
  <2>1. SUFFICES ASSUME NEW m \in S
                 PROVE  \E q \in 1..Count : m = MemberAt(q) /\ 0 < q /\ q <= p - 1
    OBVIOUS
  <2>2. PICK q \in 1..Count : m = MemberAt(q)
    BY <1>4, PositionOfMember
  <2>3. q < p
    BY <1>3, <2>2
  <2> QED
    BY <1>1, <2>2, <2>3
<1>6. \A q \in 1..Count : 0 < q /\ q <= p - 1 => MemberAt(q) \in S
  BY <1>1, <1>3
<1>7. Cardinality(S) = IF p - 1 < 0 THEN 0 ELSE p - 1 - 0
  BY <1>1, <1>5, <1>6, CountOfPositions
<1> QED
  BY <1>1, <1>2, <1>7

LEMMA SortedIsOrder ==
  ASSUME Placed
  PROVE  SS!Sorted = [i \in 1..Count |-> MemberAt(i)]
<1>1. SS!Sorted = [i \in 1..Count |-> CHOOSE m \in Members : zsetView[m] # NULL /\ SS!Rank(m) = i - 1]
  BY CardIsCount DEF SS!Sorted, SS!In
<1>2. ASSUME NEW i \in 1..Count
      PROVE  (CHOOSE m \in Members : zsetView[m] # NULL /\ SS!Rank(m) = i - 1) = MemberAt(i)
  <2>1. /\ MemberAt(i) \in Members /\ zsetView[MemberAt(i)] # NULL
        /\ SS!Rank(MemberAt(i)) = i - 1
    BY ViewAtPosition, RankIsPosition
  <2>2. ASSUME NEW m \in Members, zsetView[m] # NULL, SS!Rank(m) = i - 1
        PROVE  m = MemberAt(i)
    <3>1. PICK q \in 1..Count : m = MemberAt(q)
      BY <2>2, PositionOfMember
    <3>2. q - 1 = i - 1 /\ q \in Int /\ i \in Int
      BY <2>2, <3>1, RankIsPosition
    <3> QED
      BY <3>1, <3>2
  <2> QED
    BY <2>1, <2>2
<1> QED
  BY <1>1, <1>2

-----------------------------------------------------------------------------
(* The steps that leave the map alone                                      *)

LEMMA SameApi ==
  /\ SS!Requests = Requests
  /\ SS!NoReply = NoReply /\ SS!Null = Null /\ SS!Error = Error /\ SS!Done = Done
  /\ \A n : SS!Integer(n) = Integer(n)
  /\ \A s : SS!Bulk(s) = Bulk(s)
  /\ \A s : SS!Array(s) = Array(s)
  /\ \A r : SS!Refused(r) <=> Refused(r)
  /\ \A r, b : SS!Stores(r, b) <=> Stores(r, b)
  /\ \A r, n : SS!First(r, n) = First(r, n) /\ SS!Last(r, n) = Last(r, n)
<1>1. SS!Requests = Requests
  BY DEF SS!Requests, Requests, SS!ZaddRequests, ZaddRequests, SS!IncrRequests, IncrRequests,
     SS!ZcountRequests, ZcountRequests, SS!ZrangeRequests, ZrangeRequests,
     SS!PlainRequests, PlainRequests, SS!PairLists, PairLists, SS!Pairs, Pairs
<1>2. SS!NoReply = NoReply /\ SS!Null = Null /\ SS!Error = Error /\ SS!Done = Done
  BY DEF SS!NoReply, NoReply, SS!Null, Null, SS!Error, Error, SS!Done, Done
<1>3. /\ \A n : SS!Integer(n) = Integer(n)
      /\ \A s : SS!Bulk(s) = Bulk(s)
      /\ \A s : SS!Array(s) = Array(s)
  BY DEF SS!Integer, Integer, SS!Bulk, Bulk, SS!Array, Array
<1>4. /\ \A r : SS!Refused(r) <=> Refused(r)
      /\ \A r, b : SS!Stores(r, b) <=> Stores(r, b)
  BY DEF SS!Refused, Refused, SS!Stores, Stores
<1>5. \A r, n : SS!First(r, n) = First(r, n) /\ SS!Last(r, n) = Last(r, n)
  BY DEF SS!First, First, SS!Last, Last, SS!Larger, Larger
<1> QED
  BY <1>1, <1>2, <1>3, <1>4, <1>5

LEMMA ViewIs ==
  /\ zsetView = [m \in Members |-> zsetView[m]]
  /\ zsetView' = [m \in Members |-> zsetView'[m]]
BY DEF zsetView

LEMMA ViewSame ==
  ASSUME UNCHANGED <<table, tower>>, old = NULL, old' = NULL
  PROVE  zsetView' = zsetView
<1>1. /\ zsetView = [m \in Members |-> IF table[m] = NULL THEN NULL ELSE ScoreOf(table[m])]
      /\ zsetView' = [m \in Members |-> IF table'[m] = NULL THEN NULL ELSE tower'[table'[m]].score]
  BY DEF zsetView, ScoreOf
<1> QED
  BY <1>1 DEF ScoreOf

LEMMA RefinesReceive ==
  ASSUME Known, Receive
  PROVE  \E r \in SS!Requests : SS!Invoke(r)
<1>1. Serving
  BY DEF Known
<1>2. ASSUME NEW r \in Requests, Begin(r),
             todo' = IF r.cmd \in {"ZADD", "INCR"} /\ ~Refused(r) THEN r.pairs ELSE <<>>
      PROVE  SS!Invoke(r)
  <2>1. /\ op = NULL /\ op' = r /\ reply' = NoReply /\ old = NULL /\ old' = NULL
        /\ UNCHANGED <<table, tower, added, changed, tied>>
    BY <1>1, <1>2 DEF Begin, Serving, listVars
  <2>2. zsetView' = zsetView
    BY <2>1, ViewSame
  <2> QED
    BY <1>2, <2>1, <2>2, SameApi DEF SS!Invoke
<1>3. ASSUME NEW r, Begin(r) PROVE todo = <<>>
  BY <1>1, <1>3 DEF Begin, Serving
<1>4. CASE RecvZadd
  <2>1. PICK r \in ZaddRequests \cup IncrRequests :
          /\ Begin(r)
          /\ IF Refused(r)
             THEN pc' = "refuse" /\ UNCHANGED todo
             ELSE pc' = "pair" /\ todo' = r.pairs
    BY <1>4 DEF RecvZadd
  <2>2. r \in Requests /\ r.cmd \in {"ZADD", "INCR"}
    BY ZaddPairs
  <2> QED
    BY <1>2, <1>3, <2>1, <2>2, SameApi
<1>5. ASSUME NEW r \in Requests, Begin(r), UNCHANGED todo, r.cmd \notin {"ZADD", "INCR"}
      PROVE  SS!Invoke(r)
  BY <1>2, <1>3, <1>5
<1>6. CASE RecvPlain
  <2>1. PICK r \in PlainRequests : Begin(r) /\ UNCHANGED todo
    BY <1>6 DEF RecvPlain
  <2>2. r \in Requests /\ r.cmd \notin {"ZADD", "INCR"}
    BY DEF Requests, PlainRequests
  <2> QED
    BY <1>5, <2>1, <2>2, SameApi
<1>7. CASE RecvZcount
  <2>1. PICK r \in ZcountRequests : Begin(r) /\ UNCHANGED todo
    BY <1>7 DEF RecvZcount
  <2>2. r \in Requests /\ r.cmd \notin {"ZADD", "INCR"}
    BY DEF Requests, ZcountRequests
  <2> QED
    BY <1>5, <2>1, <2>2, SameApi
<1>8. CASE RecvZrange
  <2>1. PICK r \in ZrangeRequests : Begin(r) /\ UNCHANGED todo
    BY <1>8 DEF RecvZrange
  <2>2. r \in Requests /\ r.cmd \notin {"ZADD", "INCR"}
    BY DEF Requests, ZrangeRequests
  <2> QED
    BY <1>5, <2>1, <2>2, SameApi
<1> QED
  BY <1>4, <1>6, <1>7, <1>8 DEF Receive

(* A search does not change the map, wherever it is.                       *)
LEMMA RefinesWalk ==
  ASSUME hop \/ down \/ countedMin \/ ranked \/ emit
  PROVE  UNCHANGED SS!vars
<1>1. UNCHANGED <<table, tower, tied, op, todo, old, added, changed, reply>>
  BY DEF hop, down, countedMin, ranked, emit, listVars, callVars
<1>2. zsetView' = zsetView
  BY <1>1 DEF zsetView, Member, ScoreOf
<1> QED
  BY <1>1, <1>2 DEF SS!vars

LEMMA RefinesStutter ==
  ASSUME UNCHANGED vars
  PROVE  UNCHANGED SS!vars
<1>1. UNCHANGED <<table, tower, tied, op, todo, old, added, changed, reply>>
  BY DEF vars, listVars, callVars
<1>2. zsetView' = zsetView
  BY <1>1 DEF zsetView, Member, ScoreOf
<1> QED
  BY <1>1, <1>2 DEF SS!vars

(* While its tower is out of the list the member has the score it had.     *)
LEMMA RefinesUnlink ==
  ASSUME Known, ~tied, unlink
  PROVE  UNCHANGED SS!vars
<1>1. /\ Target \in Towers /\ table[Member] = Target /\ Member \in Members
      /\ todo # <<>> /\ pc = "remove" /\ old # NULL
  BY UnlinkTarget DEF Known, Sane, Calling
<1>2. /\ table' = [table EXCEPT ![Member] = NULL] /\ tower' = [tower EXCEPT ![Target] = NULL]
      /\ UNCHANGED <<op, todo, old, added, changed, reply, tied>>
  BY DEF unlink, callVars
<1>3. /\ table \in [Members -> Towers \cup {NULL}] /\ tower \in [Towers -> Tower \cup {NULL}]
      /\ \A m \in Members : table[m] # NULL => tower[table[m]].member = m
  BY DEF Known, TypeOK, Sane, Owned
<1>4. ASSUME NEW m \in Members PROVE zsetView'[m] = zsetView[m]
  <2>1. zsetView[m] = IF m = Member THEN old
                      ELSE IF table[m] = NULL THEN NULL ELSE tower[table[m]].score
    BY <1>1 DEF zsetView, ScoreOf
  <2>2. Member' = Member
    BY <1>2 DEF Member
  <2>3. zsetView'[m] = IF m = Member THEN old
                       ELSE IF table'[m] = NULL THEN NULL ELSE tower'[table'[m]].score
    BY <1>1, <1>2, <2>2 DEF zsetView, ScoreOf
  <2>4. m # Member => table'[m] = table[m]
    BY <1>1, <1>2, <1>3
  <2>5. m # Member /\ table[m] # NULL => table[m] # Target
    BY <1>1, <1>3, SkipListAssumption DEF Nodes
  <2>6. m # Member /\ table[m] # NULL => tower'[table[m]] = tower[table[m]]
    BY <1>1, <1>2, <1>3, <2>5
  <2> QED
    BY <2>1, <2>3, <2>4, <2>6
<1>5. zsetView' = zsetView
  BY <1>4, ViewIs
<1> QED
  BY <1>2, <1>5 DEF SS!vars

-----------------------------------------------------------------------------
(* The steps of a ZADD                                                     *)

LEMMA RefinesSkip ==
  ASSUME Known, lookup, ~Stores(op, table[Member] # NULL)
  PROVE  SS!Skip
<1>1. /\ pc = "pair" /\ todo # <<>> /\ todo' = Tail(todo) /\ old = NULL /\ old' = NULL
      /\ UNCHANGED <<op, reply, added, changed>> /\ UNCHANGED <<table, tower, tied>>
  BY DEF lookup, NextPair, Known, Serving, listVars
<1>2. Member \in Members /\ Member = Head(todo).member
  BY <1>1, PairTypes DEF Known, Member
<1>3. zsetView' = zsetView
  BY <1>1, ViewSame
<1>4. SS!In(Member) = (table[Member] # NULL)
  <2>1. table[Member] # NULL => ScoreOf(table[Member]) \in Int
    <3>1. table[Member] # NULL => table[Member] \in Towers /\ tower[table[Member]] # NULL
      BY <1>2 DEF Known, TypeOK, Sane, Owned
    <3>2. table[Member] # NULL => tower[table[Member]] \in Tower
      BY <3>1 DEF Known, TypeOK
    <3> QED
      BY <3>2 DEF Tower, ScoreOf
  <2>2. zsetView[Member] = IF table[Member] = NULL THEN NULL ELSE ScoreOf(table[Member])
    BY <1>1, <1>2, ViewPlain
  <2> QED
    BY <2>1, <2>2, ZsetApiAssumption DEF SS!In
<1>5. ~SS!Stores(op, SS!In(Head(todo).member))
  BY <1>2, <1>4, SameApi
<1> QED
  BY <1>1, <1>3, <1>5 DEF SS!Skip

(* A search for a pair begins: the score that is there is remembered.      *)
LEMMA RefinesLookup ==
  ASSUME Known, lookup, Stores(op, table[Member] # NULL)
  PROVE  UNCHANGED SS!vars
<1>1. /\ pc = "pair" /\ todo # <<>> /\ old = NULL
      /\ old' = IF table[Member] = NULL THEN NULL ELSE ScoreOf(table[Member])
      /\ UNCHANGED <<op, todo, reply, added, changed>> /\ UNCHANGED <<table, tower, tied>>
  BY DEF lookup, Known, Serving, listVars
<1>2. Member' = Member /\ \A x : ScoreOf(x)' = ScoreOf(x)
  BY <1>1 DEF Member, ScoreOf
<1>3. ASSUME NEW m \in Members PROVE zsetView'[m] = zsetView[m]
  <2>1. zsetView[m] = IF table[m] = NULL THEN NULL ELSE ScoreOf(table[m])
    BY <1>1, ViewPlain
  <2>2. zsetView'[m] = IF m = Member /\ old' # NULL THEN old'
                       ELSE IF table[m] = NULL THEN NULL ELSE ScoreOf(table[m])
    BY <1>1, <1>2 DEF zsetView
  <2> QED
    BY <1>1, <2>1, <2>2
<1>4. zsetView' = zsetView
  BY <1>3, ViewIs
<1> QED
  BY <1>1, <1>4 DEF SS!vars

(* A pair takes effect when its tower is in; the set is broken if another  *)
(* member has the score.                                                   *)
LEMMA RefinesStore ==
  ASSUME Known, ~tied, splice
  PROVE  SS!Store
<1>1. PICK t \in Towers, h \in Levels :
        /\ tower[t] = NULL
        /\ tower' = [tower EXCEPT ![t] = [member |-> Member, score |-> NewScore, height |-> h]]
        /\ table' = [table EXCEPT ![Member] = t]
  BY DEF splice
<1>2. /\ pc = "insert" /\ todo # <<>> /\ todo' = Tail(todo) /\ old' = NULL
      /\ added' = added + (IF old = NULL THEN 1 ELSE 0)
      /\ changed' = changed + (IF old = NULL THEN 0 ELSE 1)
      /\ tied' = (tied \/ \E x \in Towers : tower[x] # NULL /\ ScoreOf(x) = NewScore)
      /\ UNCHANGED <<op, reply>>
  BY DEF splice, Ended, NextPair, Known, Sane, Calling
<1>3. Member \in Members /\ NewScore \in Int /\ Member = Head(todo).member
  BY <1>2, PairTypes DEF Known, Member
<1>4. table[Member] = NULL /\ Chained /\ Owned /\ Stores(op, old # NULL)
  BY <1>2 DEF Known, Strong, Walk, Sane, Serving
<1>5. /\ tower \in [Towers -> Tower \cup {NULL}] /\ table \in [Members -> Towers \cup {NULL}]
      /\ old \in Int \cup {NULL} /\ NULL \notin Towers /\ NULL \notin Tower /\ NULL \notin Int
  BY SkipListAssumption, ZsetApiAssumption DEF Known, TypeOK, Nodes
<1>6. /\ zsetView[Member] = old /\ SS!In(Member) = (old # NULL)
      /\ \A k \in Members : k # Member =>
           zsetView[k] = IF table[k] = NULL THEN NULL ELSE tower[table[k]].score
  BY <1>2, <1>3, <1>4 DEF zsetView, ScoreOf, SS!In
<1>7. NewScore = Head(todo).score + IF op.cmd = "INCR" /\ SS!In(Member) THEN zsetView[Member] ELSE 0
  BY <1>6 DEF NewScore
<1>8. zsetView' = [zsetView EXCEPT ![Member] = NewScore]
  <2>1. ASSUME NEW k \in Members
        PROVE  zsetView'[k] = IF k = Member THEN NewScore ELSE zsetView[k]
    <3>1. zsetView'[k] = IF table'[k] = NULL THEN NULL ELSE tower'[table'[k]].score
      BY <1>2 DEF zsetView, ScoreOf
    <3>2. CASE k = Member
      <4>1. table'[k] = t /\ t # NULL
        BY <1>1, <1>3, <1>5, <3>2
      <4>2. tower'[t].score = NewScore
        BY <1>1, <1>5
      <4> QED
        BY <3>1, <3>2, <4>1, <4>2
    <3>3. CASE k # Member
      <4>1. table'[k] = table[k]
        BY <1>1, <1>5, <3>3
      <4>2. table[k] # NULL => table[k] \in Towers /\ table[k] # t
        BY <1>1, <1>4, <1>5 DEF Owned
      <4>3. table[k] # NULL => tower'[table[k]] = tower[table[k]]
        BY <1>1, <1>5, <4>2
      <4> QED
        BY <1>6, <3>1, <3>3, <4>1, <4>3
    <3> QED
      BY <3>2, <3>3
  <2> QED
    BY <1>3, <2>1, ViewIs
<1>9. tied' = (tied \/ \E k \in Members \ {Member} : zsetView[k] = NewScore)
  <2>1. ASSUME NEW x \in Towers, tower[x] # NULL, ScoreOf(x) = NewScore
        PROVE  \E k \in Members \ {Member} : zsetView[k] = NewScore
    <3>1. tower[x] \in Tower /\ table[tower[x].member] = x /\ x # NULL
      BY <1>4, <1>5, <2>1 DEF Chained
    <3>2. tower[x].member \in Members \ {Member}
      BY <1>4, <3>1 DEF Tower
    <3>3. zsetView[tower[x].member] = NewScore
      BY <1>6, <2>1, <3>1, <3>2 DEF ScoreOf
    <3> QED
      BY <3>2, <3>3
  <2>2. ASSUME NEW k \in Members \ {Member}, zsetView[k] = NewScore
        PROVE  \E x \in Towers : tower[x] # NULL /\ ScoreOf(x) = NewScore
    <3>1. table[k] # NULL /\ tower[table[k]].score = NewScore
      BY <1>3, <1>5, <1>6, <2>2
    <3>2. table[k] \in Towers /\ tower[table[k]] # NULL
      BY <1>4, <1>5, <3>1 DEF Owned
    <3> QED
      BY <3>1, <3>2 DEF ScoreOf
  <2> QED
    BY <1>2, <2>1, <2>2
<1>10. SS!Stores(op, SS!In(Member))
  BY <1>4, <1>6, SameApi
<1>11. /\ added' = added + (IF SS!In(Member) THEN 0 ELSE 1)
       /\ changed' = changed + (IF SS!In(Member) THEN 1 ELSE 0)
  BY <1>2, <1>6
<1> QED
  BY <1>2, <1>3, <1>7, <1>8, <1>9, <1>10, <1>11 DEF SS!Store

-----------------------------------------------------------------------------
(* The replies                                                             *)

(* What an answer shows of the map.                                        *)
LEMMA RefinesReturn ==
  ASSUME old = NULL, UNCHANGED listVars, NEW r, Answer(r)
  PROVE  SS!Return(r) /\ UNCHANGED <<zsetView, tied>>
<1>1. old' = NULL /\ UNCHANGED <<table, tower, tied>>
  BY DEF Answer, listVars
<1>2. zsetView' = zsetView
  BY <1>1, ViewSame
<1> QED
  BY <1>1, <1>2 DEF Answer, SS!Return

LEMMA RefinesZaddReplies ==
  ASSUME Known, refuse \/ zadded \/ incremented
  PROVE  SS!Refuse \/ SS!Stored \/ SS!Incremented
<1>1. old = NULL /\ UNCHANGED listVars /\ op # NULL
  BY DEF refuse, zadded, incremented, Known, Serving, Sane, Calling
<1>2. CASE refuse
  <2>1. Refused(op) /\ Answer(Error)
    BY <1>2 DEF refuse, Known, Serving
  <2> QED
    BY <1>1, <2>1, RefinesReturn, SameApi DEF SS!Refuse
<1>3. CASE zadded
  <2>1. /\ ~Refused(op) /\ todo = <<>> /\ op.cmd = "ZADD"
        /\ Answer(Integer(IF op.ch THEN changed ELSE added))
    BY <1>3 DEF zadded, Known, Serving
  <2> QED
    BY <1>1, <2>1, RefinesReturn, SameApi DEF SS!Stored
<1>4. CASE incremented
  <2>1. /\ pc = "pair" /\ ~Refused(op) /\ todo = <<>> /\ op.cmd = "INCR"
        /\ Answer(IF added + changed = 0 THEN Null
                  ELSE Bulk(ScoreOf(table[op.pairs[1].member])))
    BY <1>4 DEF incremented, Known, Serving
  <2>2. added + changed # 0 =>
          zsetView[op.pairs[1].member] = ScoreOf(table[op.pairs[1].member])
    <3>1. added + changed # 0 => table[op.pairs[1].member] # NULL
      BY <2>1 DEF Known, Sane, Calling
    <3>2. op.pairs[1].member \in Members
      <4>1. op \in ZaddRequests \cup IncrRequests
        BY <2>1 DEF Known, Sane, Calling
      <4>2. op.pairs[1] \in Pairs
        BY <2>1, <4>1, ZaddPairs
      <4> QED
        BY <4>2 DEF Pairs
    <3> QED
      BY <1>1, <3>1, <3>2, ViewPlain
  <2>3. Answer(IF added + changed = 0 THEN SS!Null
               ELSE SS!Bulk(zsetView[op.pairs[1].member]))
    BY <2>1, <2>2, SameApi
  <2> QED
    BY <1>1, <2>1, <2>3, RefinesReturn, SameApi DEF SS!Incremented
<1> QED
  BY <1>2, <1>3, <1>4

LEMMA RefinesZcard ==
  ASSUME Known, ~tied, zcard
  PROVE  SS!Zcard
<1>1. /\ old = NULL /\ UNCHANGED listVars /\ op # NULL /\ op.cmd = "ZCARD"
      /\ Answer(Integer(size))
  BY DEF zcard, Known, Serving, Sane, Calling
<1>2. Placed
  BY <1>1 DEF Placed, Known, Strong, Sane, Fine
<1>3. SS!Integer(SS!Card) = Integer(size)
  BY <1>2, CardIsCount, SameApi
<1> QED
  BY <1>1, <1>3, RefinesReturn DEF SS!Zcard

LEMMA RefinesDrop ==
  ASSUME Known, drop
  PROVE  SS!Drop
<1>1. /\ op # NULL /\ op.cmd = "DROP" /\ Answer(Done) /\ old' = NULL
      /\ table' = [m \in Members |-> NULL] /\ tied' = FALSE
  BY DEF drop, noMembers, Answer, Known, Serving, Sane, Calling
<1>2. zsetView' = [m \in Members |-> NULL]
  BY <1>1 DEF zsetView
<1> QED
  BY <1>1, <1>2, SameApi DEF SS!Drop, SS!Return, Answer

(* ZCOUNT: the positions between the ends of its two searches are those    *)
(* of the members with scores from min to max.                             *)
LEMMA RefinesZcount ==
  ASSUME Known, ~tied, counted
  PROVE  SS!Zcount
<1>1. /\ pc = "max" /\ ~Advance /\ lvl = 0 /\ old = NULL /\ UNCHANGED listVars
      /\ op # NULL /\ op \in ZcountRequests
      /\ Answer(Integer(IF Below(acc, low) THEN 0 ELSE acc - low))
  BY DEF counted, Ended, Known, Serving, Sane, Calling
<1>2. Placed /\ Counting /\ Lowest
  BY <1>1 DEF Placed, Known, Strong, Sane, Fine, Ranged, Ranging, Counting
<1>3. /\ low \in 0..Count /\ acc \in 0..Count /\ Count \in Nat
      /\ \A r \in 1..Count : r <= low <=> ScoreOf(order[r]) < op.min
      /\ \A r \in 1..Count : r <= acc <=> ScoreOf(order[r]) <= op.max
  BY <1>1, <1>2, RankingEnds, CountingTypes DEF Lowest, Passed
<1>4. op.min \in Int /\ op.max \in Int /\ op.cmd = "ZCOUNT"
  BY <1>1, ZsetApiAssumption DEF ZcountRequests
<1> DEFINE S == {m \in Members : zsetView[m] # NULL /\ zsetView[m] \in op.min..op.max}
<1>5. ASSUME NEW p \in 1..Count
      PROVE  MemberAt(p) \in S <=> low < p /\ p <= acc
  <2>1. /\ MemberAt(p) \in Members /\ zsetView[MemberAt(p)] # NULL
        /\ zsetView[MemberAt(p)] = ScoreOf(order[p]) /\ ScoreOf(order[p]) \in Int
    BY <1>2, ViewAtPosition
  <2>2. MemberAt(p) \in S <=> op.min <= ScoreOf(order[p]) /\ ScoreOf(order[p]) <= op.max
    BY <1>4, <2>1
  <2> HIDE DEF S
  <2> QED
    BY <1>3, <1>4, <2>1, <2>2
<1>6. \A m \in S : m \in Members /\ zsetView[m] # NULL
  OBVIOUS
<1>7. SS!Zcount <=> /\ op # NULL /\ op.cmd = "ZCOUNT"
                    /\ SS!Return(SS!Integer(Cardinality(S)))
                    /\ UNCHANGED <<zsetView, tied>>
  BY SameCardinality DEF SS!Zcount, SS!In
<1> HIDE DEF S
<1>8. \A m \in S : \E p \in 1..Count : m = MemberAt(p) /\ low < p /\ p <= acc
  BY <1>2, <1>5, <1>6, PositionOfMember
<1>9. Cardinality(S) = IF acc < low THEN 0 ELSE acc - low
  BY <1>2, <1>3, <1>5, <1>8, CountOfPositions
<1>10. Below(acc, low) <=> acc < low
  BY <1>3 DEF Below
<1>11. Answer(SS!Integer(Cardinality(S)))
  BY <1>1, <1>9, <1>10, SameApi
<1> QED
  BY <1>1, <1>4, <1>7, <1>11, RefinesReturn

(* ZRANGE: what it has collected at the end is that part of the order.     *)
LEMMA RefinesZrange ==
  ASSUME Known, ~tied, emitted
  PROVE  SS!Zrange
<1>0. PICK f, l, k : f = First(op, size) /\ l = Last(op, size) /\ k = Len(out)
  OBVIOUS
<1>1. /\ pc = "emit" /\ ~More /\ old = NULL /\ UNCHANGED listVars
      /\ op # NULL /\ op \in ZrangeRequests /\ Answer(Array(out))
  BY DEF emitted, Known, Serving, Sane, Calling
<1>2. Placed /\ Emitting
  BY <1>1 DEF Placed, Known, Strong, Sane, Fine, Ranged, Ranging
<1>3. /\ Count \in Nat /\ size = Count /\ acc \in Int /\ k \in Nat /\ out \in Seq(Members)
      /\ op.cmd = "ZRANGE"
  BY <1>0, <1>1, <1>2, Positions DEF Placed, Fine, Shape, TypeOK, ZrangeRequests
<1>4. f \in Nat /\ l \in Int /\ l >= -1 /\ l <= Count - 1
  BY <1>0, <1>1, <1>3, RangeTypes
<1>5. SS!Sorted = [i \in 1..Count |-> MemberAt(i)] /\ SS!Card = size
  BY <1>2, SortedIsOrder, CardIsCount
<1>6. out = SubSeq(SS!Sorted, f + 1, l + 1)
  <2>1. CASE f > l
    <3>1. out = <<>>
      BY <1>0, <1>1, <1>2, <2>1 DEF Emitting
    <3>2. f + 1 \in Int /\ l + 1 \in Int /\ l + 1 < f + 1
      BY <1>4, <2>1
    <3> QED
      BY <3>1, <3>2, SubSeqEmpty
  <2>2. CASE ~(f > l)
    <3>1. Collected(f, l, k)
      BY <1>0, <1>1, <1>2, <2>2 DEF Emitting
    <3>2. k = l - f + 1
      <4>1. acc > 0 => at = order[f + k + 1] /\ f + k + 1 \in 1..Count
        BY <1>3, <1>4, <3>1 DEF Collected
      <4>2. acc > 0 => at # NULL
        BY <1>2, <4>1, Positions DEF Placed
      <4>3. ~(acc > 0)
        BY <1>1, <4>2 DEF More
      <4> QED
        BY <1>3, <1>4, <3>1, <4>3 DEF Collected
    <3>3. \A i \in (f + 1)..(l + 1) : i \in 1..Count
      BY <1>3, <1>4
    <3>4. \A i \in (f + 1)..(l + 1) : SS!Sorted[i] = MemberAt(i) /\ SS!Sorted[i] \in Members
      BY <1>2, <1>5, <3>3, ViewAtPosition
    <3>5. PICK s : s = SubSeq(SS!Sorted, f + 1, l + 1)
      OBVIOUS
    <3>6. /\ s \in Seq(Members) /\ Len(s) = k
          /\ \A i \in 1..k : s[i] = SS!Sorted[f + 1 + i - 1]
      <4>1. f + 1 \in Int /\ l + 1 \in Int /\ f + 1 <= l + 1 /\ (l + 1) - (f + 1) + 1 = k
        BY <1>4, <2>2, <3>2
      <4> QED
        BY <3>4, <3>5, <4>1, SubSeqProperties
    <3>7. ASSUME NEW i \in 1..k PROVE out[i] = s[i]
      <4>1. f + i \in (f + 1)..(l + 1) /\ f + 1 + i - 1 = f + i /\ f + i \in 1..Count
        BY <1>3, <1>4, <3>2
      <4>2. out[i] = KeyOf(order[f + i])
        BY <3>1 DEF Collected
      <4>3. KeyOf(order[f + i]) = MemberAt(f + i)
        BY <1>2, <4>1, ViewAtPosition
      <4> QED
        BY <3>4, <3>6, <4>1, <4>2, <4>3
    <3>8. Len(out) = Len(s)
      BY <1>0, <3>6
    <3>9. out = s
      BY <1>0, <1>3, <3>6, <3>7, <3>8, SeqEqual
    <3> QED
      BY <3>5, <3>9
  <2> QED
    BY <2>1, <2>2
<1>7. Answer(SS!Array(SubSeq(SS!Sorted, SS!First(op, SS!Card) + 1, SS!Last(op, SS!Card) + 1)))
  BY <1>0, <1>1, <1>5, <1>6, SameApi
<1> QED
  BY <1>1, <1>3, <1>7, RefinesReturn DEF SS!Zrange

-----------------------------------------------------------------------------

LEMMA NeverUndefined ==
  ASSUME Known, Known', ~tied
  PROVE  ~lookupDangling /\ ~unlinkMissed /\ ~unlinkPartly
<1>1. ASSUME lookupDangling \/ unlinkPartly PROVE FALSE
  BY <1>1 DEF lookupDangling, unlinkPartly, listVars, Known, Strong
<1>2. ASSUME unlinkMissed PROVE FALSE
  <2>1. pc = "remove"
    BY <1>2 DEF unlinkMissed, Ended
  <2>2. Seeking
    BY <2>1 DEF Seeking, Known, Strong, Sane, Fine
  <2> QED
    BY <1>2, <2>2, NeverMisses
<1> QED
  BY <1>1, <1>2

LEMMA RefinesServe ==
  ASSUME Known, Known', Serve
  PROVE  SS!Next \/ UNCHANGED SS!vars
<1>1. CASE drop
  BY <1>1, RefinesDrop DEF SS!Next
<1>2. CASE ~drop /\ tied
  <2>1. tied'
    BY <1>2 DEF Serve, refuse, zcard, hop, down, lookup, lookupDangling, unlink, unlinkMissed,
       unlinkPartly, splice, zadded, incremented, countedMin, counted, ranked, emit, emitted,
       listVars
  <2> QED
    BY <1>2, <2>1 DEF SS!Next, SS!Break
<1>3. CASE ~drop /\ ~tied
  <2>1. CASE lookup
    BY <2>1, RefinesSkip, RefinesLookup DEF SS!Next
  <2>2. CASE refuse \/ zadded \/ incremented
    BY <2>2, RefinesZaddReplies DEF SS!Next
  <2>3. CASE zcard \/ counted \/ emitted
    BY <1>3, <2>3, RefinesZcard, RefinesZcount, RefinesZrange DEF SS!Next
  <2>4. CASE splice
    BY <1>3, <2>4, RefinesStore DEF SS!Next
  <2>5. CASE unlink
    BY <1>3, <2>5, RefinesUnlink
  <2>6. CASE hop \/ down \/ countedMin \/ ranked \/ emit
    BY <2>6, RefinesWalk
  <2> QED
    BY <1>3, <2>1, <2>2, <2>3, <2>4, <2>5, <2>6, NeverUndefined DEF Serve
<1> QED
  BY <1>1, <1>2, <1>3

LEMMA RefinesInit == Init => SS!Init
<1> SUFFICES ASSUME Init PROVE SS!Init
  OBVIOUS
<1>1. zsetView = [m \in Members |-> NULL]
  BY DEF Init, zsetView, noMembers
<1> QED
  BY <1>1, SameApi DEF Init, SS!Init

(* The skip list implements the sorted set: each pair of a ZADD takes      *)
(* effect at one step, and every reply - what ZADD counts, ZCARD, ZCOUNT   *)
(* by two searches that add up spans, ZRANGE by a search and a walk - is   *)
(* that of a map from members to scores in their order (skiplist.c:98-259, *)
(* commands.c, zcountCommand, zrangeCommand), until two members come to    *)
(* have one score.                                                         *)
THEOREM SkipListImplementsSortedSet == Spec => ImplementsSortedSet
<1>1. Known /\ Known' /\ [Next]_vars => [SS!Next]_(SS!vars)
  <2> SUFFICES ASSUME Known, Known', [Next]_vars PROVE SS!Next \/ UNCHANGED SS!vars
    OBVIOUS
  <2>1. CASE Receive
    BY <2>1, RefinesReceive DEF SS!Next
  <2>2. CASE Serve
    BY <2>2, RefinesServe
  <2>3. CASE UNCHANGED vars
    BY <2>3, RefinesStutter
  <2> QED
    BY <2>1, <2>2, <2>3 DEF Next
<1> QED
  BY RefinesInit, KnownInvariant, <1>1, PTL DEF Spec, ImplementsSortedSet, SS!Spec
=============================================================================
