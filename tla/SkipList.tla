------------------------------ MODULE SkipList ------------------------------
(***************************************************************************)
(* A sorted set: the skip list of ds/skiplist.c with its hash table from   *)
(* members to nodes, and the commands ZADD, ZCARD, ZCOUNT and ZRANGE that  *)
(* work on it (ds/commands.c).                                             *)
(*                                                                         *)
(* The nodes of one member, linked by down, are a tower: the node of tower *)
(* t at level i is its entry in next[i] and span[i].  The sentinels are    *)
(* the tower HEAD, as high as the list.  A search goes one hop, or one     *)
(* level down, a step; what is written where it ends is one step.  The     *)
(* table is a map here: Dict.tla models hash tables.                       *)
(*                                                                         *)
(* addNodeToSkiplist breaks a tie between equal scores with the key of the *)
(* node it stands on, where removeNodeFromSkipList takes the key of the    *)
(* node after it.  A removal may then miss the tower it looks for, at      *)
(* level 0 or higher up.  What is freed but still linked makes dangling    *)
(* TRUE; every later walk is undefined behaviour and is not modelled.      *)
(*                                                                         *)
(* downStays, HitNewScore, WidenedBelowOnly, RaisedPast, zaddedSwapped and *)
(* countedUnchecked are bugs this code could have had (see PROJECT.json,   *)
(* "mutants"); no action uses them.                                        *)
(***************************************************************************)
EXTENDS ZsetApi

CONSTANTS
  Towers,   (* the addresses of towers                                      *)
  HEAD,     (* the sentinels                                                *)
  MaxLevel, (* SKIPLIST_MAX_LEVEL                                           *)
  Sentinel  (* where strcmp puts the key of the sentinels                   *)

Levels == 0..(MaxLevel - 1)
Nodes == Towers \cup {HEAD}
Tower == [member : Members, score : Int, height : Levels]

ASSUME SkipListAssumption ==
  /\ MaxLevel \in Nat \ {0} /\ Sentinel \in Nat
  /\ HEAD \notin Towers /\ NULL \notin Nodes /\ NULL \notin Tower /\ NULL \notin Requests

VARIABLES
  tower,    (* the tower at each address, NULL where nothing is allocated   *)
  next,     (* at each level, next of the nodes                             *)
  span,     (* at each level, children of the nodes                         *)
  levels,   (* the highest level of the list                                *)
  size,     (* the number of towers                                         *)
  table,    (* list->table: the tower of each member                        *)
  pc,       (* idle, refuse, pair, remove, insert, min, max, rank, emit or  *)
            (* undefined                                                    *)
  op,       (* the request being served, NULL when there is none            *)
  todo,     (* the pairs of a ZADD still to be stored                       *)
  old,      (* target->score of the pair being stored, NULL without target  *)
  lvl, at,  (* i and tmp of the search                                      *)
  dirty,    (* where the search went down at each level                     *)
  children, (* the children array of addNodeToSkiplist                      *)
  acc,      (* children[i], rank or count of the search                     *)
  low,      (* mi of zcountCommand                                          *)
  out,      (* the members ZRANGE has collected                             *)
  added, changed, (* new_insert and changed                                 *)
  reply,    (* the last reply                                               *)
  order,    (* history: the towers linked at level 0, in order              *)
  tied,     (* history: two members have had one score                      *)
  dangling  (* history: something freed is still linked                     *)

listVars == <<tower, next, span, levels, size, table, order, tied, dangling>>
walkVars == <<lvl, at, dirty, children, acc>>
callVars == <<op, todo, old, low, out, added, changed, reply>>
vars == <<listVars, walkVars, callVars, pc>>

-----------------------------------------------------------------------------
(* Where a search goes on along its level                                  *)

ScoreOf(t) == tower[t].score
KeyOf(x) == IF x = HEAD THEN Sentinel ELSE tower[x].member

Member == Head(todo).member
NewScore == Head(todo).score + IF op.cmd = "INCR" /\ old # NULL THEN old ELSE 0

(* A sum of spans that is negative is a huge size_t.                       *)
Advance ==
  LET n == next[lvl][at]
  IN /\ n # NULL
     /\ \/ /\ pc = "remove"
           /\ ScoreOf(n) < old \/ (ScoreOf(n) = old /\ KeyOf(n) < Member)
        \/ /\ pc = "insert"
           /\ ScoreOf(n) < NewScore \/ (ScoreOf(n) = NewScore /\ KeyOf(at) < Member)
        \/ pc = "min" /\ ScoreOf(n) < op.min
        \/ pc = "max" /\ ScoreOf(n) <= op.max
        \/ pc = "rank" /\ acc + span[lvl][at] \in 0..First(op, size)

(* A search begins at the sentinel of the highest level.                   *)
Search(what, start) ==
  /\ pc' = what
  /\ lvl' = levels /\ at' = HEAD /\ acc' = start
  /\ dirty' = [i \in Levels |-> HEAD] /\ children' = [i \in Levels |-> 1]

StopSearch ==
  /\ lvl' = 0 /\ at' = HEAD /\ acc' = 0
  /\ dirty' = [i \in Levels |-> HEAD] /\ children' = [i \in Levels |-> 1]

Answer(r) ==
  /\ pc' = "idle" /\ op' = NULL /\ todo' = <<>> /\ old' = NULL /\ low' = 0 /\ out' = <<>>
  /\ added' = 0 /\ changed' = 0
  /\ reply' = r
  /\ StopSearch

Searching == pc \in {"remove", "insert", "min", "max", "rank"}

hop ==
  /\ Searching /\ Advance
  /\ at' = next[lvl][at]
  /\ acc' = IF pc = "remove" THEN acc ELSE acc + span[lvl][at]
  /\ UNCHANGED <<listVars, callVars, pc, lvl, dirty, children>>

downStays ==
  /\ Searching /\ ~Advance /\ lvl > 0
  /\ dirty' = [dirty EXCEPT ![lvl] = at]
  /\ children' = [children EXCEPT ![lvl] = acc]
  /\ UNCHANGED <<listVars, callVars, pc, at, acc, lvl>>

down ==
  /\ Searching /\ ~Advance /\ lvl > 0
  /\ lvl' = lvl - 1
  /\ dirty' = [dirty EXCEPT ![lvl] = at]
  /\ children' = [children EXCEPT ![lvl] = acc]
  /\ UNCHANGED <<listVars, callVars, pc, at, acc>>

(* The search has ended at level 0.                                        *)
Ended(what) == pc = what /\ ~Advance /\ lvl = 0

-----------------------------------------------------------------------------
(* Requests                                                                *)

Begin(r) ==
  /\ pc = "idle"
  /\ r.cmd # "ZCARD" => ~dangling
  /\ op' = r /\ reply' = NoReply
  /\ UNCHANGED <<listVars, old, low, out, added, changed>>

(* Bound: INCR is read only while the sum stays within MaxScore.           *)
RecvZadd ==
  \E r \in ZaddRequests \cup IncrRequests :
    /\ r.cmd = "INCR" =>
         LET t == table[r.pairs[1].member]
         IN t # NULL => r.pairs[1].score + ScoreOf(t) \in -MaxScore..MaxScore
    /\ Begin(r)
    /\ IF Refused(r)
       THEN pc' = "refuse" /\ UNCHANGED todo
       ELSE pc' = "pair" /\ todo' = r.pairs
    /\ UNCHANGED walkVars

RecvPlain ==
  \E r \in PlainRequests :
    /\ Begin(r)
    /\ pc' = CASE r.cmd = "ZCARD" -> "card" [] r.cmd = "DROP" -> "drop"
               [] r.cmd = "MALFORMED" -> "refuse"
    /\ UNCHANGED <<walkVars, todo>>

RecvZcount ==
  \E r \in ZcountRequests :
    /\ Begin(r)
    /\ Search("min", 0)
    /\ UNCHANGED todo

(* zrangeCommand looks no rank up when the range is empty.                 *)
RecvZrange ==
  \E r \in ZrangeRequests :
    /\ Begin(r)
    /\ IF First(r, size) <= Last(r, size)
       THEN Search("rank", 0)
       ELSE pc' = "emit" /\ UNCHANGED walkVars
    /\ UNCHANGED todo

refuse ==
  /\ pc = "refuse"
  /\ Answer(Error)
  /\ UNCHANGED listVars

zcard ==
  /\ pc = "card"
  /\ Answer(Integer(size))
  /\ UNCHANGED listVars

-----------------------------------------------------------------------------
(* ZADD: one pair after the other                                          *)

(* The pair at hand is done with.                                          *)
NextPair ==
  /\ pc' = "pair" /\ todo' = Tail(todo) /\ old' = NULL
  /\ UNCHANGED <<op, low, out, reply>>

(* addOrUpdateMember and scoreIncrement look the member up.                *)
lookup ==
  /\ pc = "pair" /\ todo # <<>> /\ ~dangling
  /\ LET t == table[Member]
     IN IF ~Stores(op, t # NULL)
        THEN NextPair /\ UNCHANGED <<added, changed, walkVars>>
        ELSE /\ old' = IF t = NULL THEN NULL ELSE ScoreOf(t)
             /\ Search(IF t = NULL THEN "insert" ELSE "remove", 1)
             /\ UNCHANGED <<op, todo, low, out, added, changed, reply>>
  /\ UNCHANGED listVars

(* The pairs after one that left something dangling.                       *)
lookupDangling ==
  /\ pc = "pair" /\ todo # <<>> /\ dangling
  /\ pc' = "undefined"
  /\ UNCHANGED <<listVars, walkVars, callVars>>

Without(s, a) ==
  LET i == CHOOSE j \in DOMAIN s : s[j] = a
  IN [j \in 1..(Len(s) - 1) |-> IF j < i THEN s[j] ELSE s[j + 1]]

(* removeNodeFromSkipList found its tower where it looked, on the levels   *)
(* where the nodes after the search path have the key.                     *)
Target == next[0][at]
HitNewScore == Target # NULL /\ ScoreOf(Target) = NewScore /\ KeyOf(Target) = Member

Hit == Target # NULL /\ ScoreOf(Target) = old /\ KeyOf(Target) = Member
Path == [dirty EXCEPT ![0] = at]
Meets == {i \in 0..levels : next[i][Path[i]] # NULL /\ KeyOf(next[i][Path[i]]) = Member}

Bypassed(t) ==
  [i \in Levels |->
     IF i > tower[t].height THEN next[i]
     ELSE [next[i] EXCEPT ![Path[i]] = next[i][t], ![t] = NULL]]

Narrowed(t) ==
  [i \in Levels |->
     IF i > levels THEN span[i]
     ELSE IF i > tower[t].height THEN [span[i] EXCEPT ![Path[i]] = @ - 1]
     ELSE [span[i] EXCEPT ![Path[i]] = @ + span[i][t] - 1, ![t] = 0]]

unlink ==
  /\ Ended("remove") /\ Hit /\ Meets = 0..tower[Target].height
  /\ next' = Bypassed(Target) /\ span' = Narrowed(Target)
  /\ tower' = [tower EXCEPT ![Target] = NULL]
  /\ order' = Without(order, Target)
  /\ table' = [table EXCEPT ![Member] = NULL]
  /\ size' = size - 1
  /\ Search("insert", 1)
  /\ UNCHANGED <<callVars, levels, tied, dangling>>

(* It did not find it: nothing is removed, the member is added once more.  *)
unlinkMissed ==
  /\ Ended("remove") /\ ~Hit
  /\ Search("insert", 1)
  /\ UNCHANGED <<listVars, callVars>>

(* It found it, but not on every level it is linked at.                    *)
unlinkPartly ==
  /\ Ended("remove") /\ Hit /\ Meets # 0..tower[Target].height
  /\ dangling' = TRUE /\ pc' = "undefined"
  /\ UNCHANGED <<tower, next, span, levels, size, table, order, tied, walkVars, callVars>>

(* The order with t after the node x.                                      *)
InsertedAfter(s, x, t) ==
  LET p == IF x = HEAD THEN 0 ELSE CHOOSE j \in DOMAIN s : s[j] = x
  IN [j \in 1..(Len(s) + 1) |-> IF j <= p THEN s[j] ELSE IF j = p + 1 THEN t ELSE s[j - 1]]

Spliced(t, h) ==
  [i \in Levels |->
     IF i > h THEN next[i]
     ELSE [next[i] EXCEPT ![t] = next[i][Path[i]], ![Path[i]] = t]]

(* The spans on the path of a new tower t of height h: how far it is from  *)
(* there, and what is left of the way to the next one.  A new sentinel     *)
(* spans the whole list.                                                   *)
Width(i) == IF i > levels THEN size + 1 ELSE span[i][Path[i]]
Split(i) == acc - (IF i = 0 THEN acc ELSE children[i])

WidenedBelowOnly(t, h) ==
  [i \in Levels |->
     IF i <= h
     THEN [span[i] EXCEPT ![t] = Width(i) - Split(i), ![Path[i]] = Split(i) + 1]
     ELSE span[i]]

Widened(t, h) ==
  [i \in Levels |->
     IF i <= h
     THEN [span[i] EXCEPT ![t] = Width(i) - Split(i), ![Path[i]] = Split(i) + 1]
     ELSE IF i <= levels THEN [span[i] EXCEPT ![Path[i]] = @ + 1]
     ELSE span[i]]

RaisedPast(h) == Larger(levels, h + 1)

Raised(h) == Larger(levels, h)

(* addNodeToSkiplist: a new tower of random height h, new sentinels up to  *)
(* that height, the spans on the path, the entry in the table.  set frees  *)
(* the key of an entry that is there, and its towers keep it.              *)
splice ==
  /\ Ended("insert")
  /\ \E t \in Towers, h \in Levels :
       /\ tower[t] = NULL
       /\ next' = Spliced(t, h) /\ span' = Widened(t, h)
       /\ tower' = [tower EXCEPT ![t] = [member |-> Member, score |-> NewScore, height |-> h]]
       /\ table' = [table EXCEPT ![Member] = t]
       /\ order' = InsertedAfter(order, at, t)
       /\ levels' = Raised(h)
  /\ size' = size + 1
  /\ tied' = (tied \/ \E x \in Towers : tower[x] # NULL /\ ScoreOf(x) = NewScore)
  /\ dangling' = (dangling \/ table[Member] # NULL)
  /\ added' = added + IF old = NULL THEN 1 ELSE 0
  /\ changed' = changed + IF old = NULL THEN 0 ELSE 1
  /\ NextPair /\ StopSearch

zaddedSwapped ==
  /\ pc = "pair" /\ todo = <<>> /\ op.cmd = "ZADD"
  /\ Answer(Integer(IF op.ch THEN added ELSE changed))
  /\ UNCHANGED listVars

(* The last pair is stored: the reply.                                     *)
zadded ==
  /\ pc = "pair" /\ todo = <<>> /\ op.cmd = "ZADD"
  /\ Answer(Integer(IF op.ch THEN changed ELSE added))
  /\ UNCHANGED listVars

incremented ==
  /\ pc = "pair" /\ todo = <<>> /\ op.cmd = "INCR"
  /\ Answer(IF added + changed = 0 THEN Null ELSE Bulk(ScoreOf(table[op.pairs[1].member])))
  /\ UNCHANGED listVars

-----------------------------------------------------------------------------
(* ZCOUNT and ZRANGE                                                       *)

countedMin ==
  /\ Ended("min")
  /\ low' = acc
  /\ Search("max", 0)
  /\ UNCHANGED <<listVars, op, todo, old, out, added, changed, reply>>

(* The ranks are unsigned: a negative one is above every other.            *)
Below(a, b) == IF (a < 0) = (b < 0) THEN a < b ELSE b < 0

countedUnchecked ==
  /\ Ended("max")
  /\ Answer(Integer(acc - low))
  /\ UNCHANGED listVars

counted ==
  /\ Ended("max")
  /\ Answer(Integer(IF Below(acc, low) THEN 0 ELSE acc - low))
  /\ UNCHANGED listVars

(* rankByOrder returns the node after the one it ended on.                 *)
ranked ==
  /\ Ended("rank")
  /\ pc' = "emit" /\ at' = Target /\ acc' = Last(op, size) - First(op, size) + 1
  /\ UNCHANGED <<listVars, callVars, lvl, dirty, children>>

More == acc > 0 /\ at # NULL

emit ==
  /\ pc = "emit" /\ More
  /\ out' = Append(out, KeyOf(at))
  /\ at' = next[0][at] /\ acc' = acc - 1
  /\ UNCHANGED <<listVars, pc, op, todo, old, low, added, changed, reply, lvl, dirty, children>>

emitted ==
  /\ pc = "emit" /\ ~More
  /\ Answer(Array(out))
  /\ UNCHANGED listVars

-----------------------------------------------------------------------------
(* newSkipList, and freeSkipList for DEL and FLUSHALL                      *)

noTowers == [t \in Towers |-> NULL]
noLinks == [i \in Levels |-> [x \in Nodes |-> NULL]]
noSpans == [i \in Levels |-> [x \in Nodes |-> IF i = 0 /\ x = HEAD THEN 1 ELSE 0]]
noMembers == [m \in Members |-> NULL]

drop ==
  /\ pc = "drop"
  /\ tower' = noTowers /\ next' = noLinks /\ span' = noSpans /\ table' = noMembers
  /\ levels' = 0 /\ size' = 0
  /\ order' = <<>> /\ tied' = FALSE /\ dangling' = FALSE
  /\ Answer(Done)

Init ==
  /\ tower = noTowers /\ next = noLinks /\ span = noSpans /\ table = noMembers
  /\ levels = 0 /\ size = 0
  /\ order = <<>> /\ tied = FALSE /\ dangling = FALSE
  /\ pc = "idle" /\ op = NULL /\ todo = <<>> /\ old = NULL /\ low = 0 /\ out = <<>>
  /\ added = 0 /\ changed = 0
  /\ reply = NoReply
  /\ lvl = 0 /\ at = HEAD /\ acc = 0
  /\ dirty = [i \in Levels |-> HEAD] /\ children = [i \in Levels |-> 1]

Receive == RecvZadd \/ RecvPlain \/ RecvZcount \/ RecvZrange

Serve ==
  \/ refuse \/ zcard \/ drop
  \/ hop \/ down
  \/ lookup \/ lookupDangling
  \/ unlink \/ unlinkMissed \/ unlinkPartly \/ splice
  \/ zadded \/ incremented
  \/ countedMin \/ counted
  \/ ranked \/ emit \/ emitted

Next == Receive \/ Serve

Spec == Init /\ [][Next]_vars

(* The thread serves a request to its end.                                 *)
FairSpec == Spec /\ WF_vars(Serve)

-----------------------------------------------------------------------------
TypeOK ==
  /\ tower \in [Towers -> Tower \cup {NULL}]
  /\ next \in [Levels -> [Nodes -> Towers \cup {NULL}]]
  /\ span \in [Levels -> [Nodes -> Int]]
  /\ levels \in Levels /\ size \in Int
  /\ table \in [Members -> Towers \cup {NULL}]
  /\ pc \in {"idle", "refuse", "card", "drop", "pair", "remove", "insert", "min", "max",
             "rank", "emit", "undefined"}
  /\ op \in Requests \cup {NULL}
  /\ todo \in Seq(Pairs)
  /\ old \in Int \cup {NULL}
  /\ lvl \in Levels /\ at \in Nodes \cup {NULL}
  /\ dirty \in [Levels -> Nodes] /\ children \in [Levels -> Int]
  /\ acc \in Int /\ low \in Int
  /\ out \in Seq(Members)
  /\ added \in Nat /\ changed \in Nat
  /\ reply \in Replies
  /\ order \in Seq(Towers)
  /\ tied \in BOOLEAN /\ dangling \in BOOLEAN

-----------------------------------------------------------------------------
(* Safety: the list while no two members have had one score                *)

Position(x) == IF x = HEAD THEN 0 ELSE CHOOSE i \in DOMAIN order : order[i] = x

(* The towers that have a node at level i, and the sentinel.               *)
At(i) == {HEAD} \cup {order[j] : j \in {k \in DOMAIN order : tower[order[k]].height >= i}}

(* On each level next leads to the nearest tower of that height, and       *)
(* children is the distance to it, or to the end: what rankByScore and     *)
(* rankByOrder add up (skiplist.c:155-208, 224-259).                       *)
SpansRight ==
  ~tied =>
    \A i \in 0..levels : \A x \in At(i) :
      LET ahead == {y \in At(i) : Position(y) > Position(x)}
          n == next[i][x]
      IN IF ahead = {}
         THEN n = NULL /\ span[i][x] = size + 1 - Position(x)
         ELSE /\ n \in ahead /\ \A y \in ahead : Position(n) <= Position(y)
              /\ span[i][x] = Position(n) - Position(x)

(* The members are in the order of their scores, each linked once and      *)
(* found in the table: an update moves its member, it never copies it.     *)
MembersInOrder ==
  ~tied =>
    /\ \A i, j \in DOMAIN order : i < j => ScoreOf(order[i]) < ScoreOf(order[j])
    /\ {t \in Towers : tower[t] # NULL} = {order[i] : i \in DOMAIN order}
    /\ \A t \in Towers : tower[t] # NULL => table[tower[t].member] = t
    /\ \A m \in Members : table[m] # NULL => KeyOf(table[m]) = m
    /\ size = Len(order)

(* Only members with equal scores make a removal miss its tower, and       *)
(* nothing else leaves a pointer to what was freed.                        *)
DanglingOnlyAfterTie == dangling \/ pc = "undefined" => tied

(* ZCARD is the number of members, as the tests expect: the set's hash has *)
(* each of them once (tests/sorted_set_test.rb:51-59).                     *)
CardIsMembers ==
  pc = "idle" => size = Cardinality({m \in Members : table[m] # NULL})

(* Every request is answered: each search goes down to level 0 and each    *)
(* range ends.                                                             *)
Answered == pc # "idle" ~> (pc = "idle" \/ dangling)

-----------------------------------------------------------------------------
(* Refinement.  A pair that replaces a score takes effect when the new     *)
(* tower is in: until then the member has the score it had.                *)

zsetView ==
  [m \in Members |->
     IF todo # <<>> /\ m = Member /\ old # NULL THEN old
     ELSE IF table[m] = NULL THEN NULL ELSE ScoreOf(table[m])]

SS == INSTANCE SortedSet WITH zset <- zsetView, broken <- tied

ImplementsSortedSet == SS!Spec
=============================================================================
