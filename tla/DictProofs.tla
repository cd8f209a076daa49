----------------------------- MODULE DictProofs -----------------------------
(***************************************************************************)
(* Dict is well typed, and its lists stay well formed until a SET meets an *)
(* expired node: ListsWellFormed, NodesAccounted, KeysUnique and           *)
(* UndefinedOnlyAfterStale for every set of keys, every hash function and  *)
(* every heap.                                                             *)
(*                                                                         *)
(* What a step may do to the objects that are stored, and which request    *)
(* each walk of a list serves: OnlyNamedKeysChange and DelDeletes.  With   *)
(* them, Dict implements Keyspace: every step of the thread is a step of   *)
(* the map from keys to objects under dbView, or leaves it alone.          *)
(***************************************************************************)
EXTENDS Dict, SequenceTheorems, TLAPS

-----------------------------------------------------------------------------
(* The requests                                                            *)

(* The fields a request of each command carries.                           *)
LEMMA RequestFields ==
  ASSUME NEW r \in Requests
  PROVE  /\ r.cmd \in {"GET", "SETBIT", "LOADBITMAP", "ZADD"} => r.key \in Keys
         /\ r.cmd = "ZADD" => r.adds \in BOOLEAN
         /\ r.cmd = "SET" => /\ r.key \in Keys /\ r.val \in Strings /\ r.ttl \in Nat
                             /\ r.nx \in BOOLEAN /\ r.xx \in BOOLEAN
         /\ r.cmd = "LOADSTR" => r.key \in Keys /\ r.val \in Strings /\ r.exp \in Nat
         /\ r.cmd = "DEL" => r.keys \in Seq(Keys) /\ Len(r.keys) \in Nat \ {0}
         /\ r.cmd \in {"GET", "SETBIT", "LOADBITMAP", "ZADD", "SET", "DEL", "FLUSHALL", "LOADSTR"}
<1>1. CASE r \in GetRequests \cup ZaddRequests
  BY <1>1 DEF GetRequests, ZaddRequests
<1>2. CASE r \in SetRequests
  BY <1>2, ApiAssumption DEF SetRequests
<1>3. CASE r \in DelRequests
  <2>1. r.cmd = "DEL" /\ r.keys \in KeyLists
    BY <1>3 DEF DelRequests
  <2>2. PICK n \in 1..MaxDel : r.keys \in [1..n -> Keys]
    BY <2>1 DEF KeyLists
  <2> QED
    BY <2>1, <2>2, ApiAssumption
<1>4. CASE r \in FlushRequests
  BY <1>4 DEF FlushRequests
<1>5. CASE r \in LoadRequests
  BY <1>5, ApiAssumption DEF LoadRequests
<1> QED
  BY <1>1, <1>2, <1>3, <1>4, <1>5 DEF Requests

-----------------------------------------------------------------------------
(* Type correctness.  TypeOK is not inductive: it does not say which       *)
(* request a call belongs to, and so what fields the request has.          *)

(* What pc and caller say of the request: a walk has a key, a walk of del  *)
(* for DEL still has that key in rest, and the other calls belong to the   *)
(* commands that make them.                                                *)
Control ==
  /\ pc # "idle" => op # NULL
  /\ pc = "find" => key \in Keys
  /\ pc = "find" /\ caller \in {"get", "purge", "set"} =>
       op.cmd \in {"GET", "SETBIT", "LOADBITMAP", "ZADD"}
  /\ pc = "find" /\ caller = "setWithExpiry" => op.cmd = "SET"
  /\ pc = "find" /\ caller = "del" =>
       op.cmd = "ZADD" \/ (op.cmd = "DEL" /\ Len(rest) >= 1)
  /\ pc = "load" => op.cmd = "LOADSTR" /\ key \in Keys

LEMMA ListFieldsType ==
  ASSUME NEW l \in List, NEW a \in Addrs, mem \in [Addrs -> Node \cup {NULL}], ~Free(a)
  PROVE  /\ Extended(l, a) \in List
         /\ Shortened(l, a) \in List
         /\ Touchable(Neighbours(l, a)) => Unlinked(l, a) \in [Addrs -> Node \cup {NULL}]
<1>1. mem[a] \in Node
  BY DEF Free
<1>2. Extended(l, a) \in List /\ Shortened(l, a) \in List
  BY <1>1 DEF List, Node, Extended, Shortened
<1>3. ASSUME NEW n \in Node, NEW v \in Addrs \cup {NULL}, NEW w \in Addrs \cup {NULL}
      PROVE  [n EXCEPT !.next = v, !.prev = w] \in Node
  BY DEF Node
<1>4. ASSUME Touchable(Neighbours(l, a))
      PROVE  Unlinked(l, a) \in [Addrs -> Node \cup {NULL}]
  <2>1. ASSUME NEW x \in Addrs
        PROVE  Unlinked(l, a)[x] \in Node \cup {NULL}
    <3>1. CASE x \in Neighbours(l, a)
      <4>1. mem[x] \in Node
        BY <1>4, <3>1 DEF Touchable, Free
      <4>2. /\ (IF x = mem[a].prev THEN mem[a].next ELSE mem[x].next) \in Addrs \cup {NULL}
            /\ (IF x = mem[a].next THEN mem[a].prev ELSE mem[x].prev) \in Addrs \cup {NULL}
        BY <1>1, <4>1 DEF Node
      <4> QED
        BY <1>3, <3>1, <4>1, <4>2 DEF Unlinked
    <3>2. CASE x \notin Neighbours(l, a)
      BY <3>2 DEF Unlinked
    <3> QED
      BY <3>1, <3>2
  <2>2. Unlinked(l, a) = [x \in Addrs |-> Unlinked(l, a)[x]]
    BY DEF Unlinked
  <2> QED
    BY <2>1, <2>2
<1> QED
  BY <1>2, <1>4

LEMMA WithoutType ==
  ASSUME NEW s \in Seq(Addrs), NEW a
  PROVE  Without(s, a) \in Seq(Addrs)
<1> DEFINE i == CHOOSE j \in DOMAIN s : s[j] = a
           f(i0) == [j \in 1..(Len(s) - 1) |-> IF j < i0 THEN s[j] ELSE s[j + 1]]
<1>1. CASE Len(s) = 0
  <2>1. 1..(Len(s) - 1) = 1..0
    BY <1>1
  <2>2. \A i0 : f(i0) \in [1..0 -> Addrs]
    BY <2>1
  <2> QED
    BY <2>2 DEF Without
<1>2. CASE Len(s) # 0
  <2>1. Len(s) - 1 \in Nat /\ \A j \in 1..(Len(s) - 1) : s[j] \in Addrs /\ s[j + 1] \in Addrs
    BY <1>2
  <2>2. \A i0 : f(i0) \in [1..(Len(s) - 1) -> Addrs]
    BY <2>1
  <2>3. \A i0 : f(i0) \in Seq(Addrs)
    BY <2>1, <2>2
  <2> QED
    BY <2>3 DEF Without
<1> QED
  BY <1>1, <1>2

Heap == [Addrs -> Node \cup {NULL}]

(* A node stays one, and stays allocated, when a link of it is written.     *)
LEMMA RelinkedNode ==
  ASSUME NEW n \in Node, NEW v \in Addrs \cup {NULL}
  PROVE  /\ [n EXCEPT !.next = v] \in Node /\ [n EXCEPT !.prev = v] \in Node
         /\ [n EXCEPT !.next = v] # NULL /\ [n EXCEPT !.prev = v] # NULL
<1>1. [n EXCEPT !.next = v] \in Node /\ [n EXCEPT !.prev = v] \in Node
  BY DEF Node
<1> QED
  BY <1>1, DictAssumption

LEMMA LinkedType ==
  ASSUME NEW m \in Heap, NEW l \in List, NEW a \in Addrs, m[a] # NULL,
         l.head # NULL => m[l.tail] # NULL
  PROVE  Linked(m, l, a) \in Heap
<1> DEFINE m1 == [m EXCEPT ![l.tail] = [m[l.tail] EXCEPT !.next = a]]
<1>1. l.tail \in Addrs \cup {NULL}
  BY DEF List
<1>2. CASE l.head = NULL
  BY <1>2 DEF Linked
<1>3. CASE l.head # NULL /\ l.tail \in Addrs
  <2>1. m[l.tail] \in Node /\ m[a] \in Node
    BY <1>3 DEF Heap
  <2>2. m1 \in Heap /\ m1[a] \in Node
    BY <1>3, <2>1, RelinkedNode DEF Heap
  <2>3. [m1 EXCEPT ![a] = [m1[a] EXCEPT !.prev = l.tail]] \in Heap
    <3> HIDE DEF m1
    <3> QED
      BY <1>1, <2>2, RelinkedNode DEF Heap
  <2>4. Linked(m, l, a) = [m1 EXCEPT ![a] = [m1[a] EXCEPT !.prev = l.tail]]
    BY <1>3 DEF Linked
  <2> QED
    BY <2>3, <2>4
<1>4. CASE l.head # NULL /\ l.tail = NULL
  <2>1. m[a] \in Node
    BY DEF Heap
  <2>2. [m EXCEPT ![a] = [m[a] EXCEPT !.prev = l.tail]] \in Heap
    BY <1>1, <2>1, RelinkedNode DEF Heap
  <2>3. \A w : [m EXCEPT ![l.tail] = w] = m
    BY <1>4, DictAssumption DEF Heap
  <2> QED
    BY <1>4, <2>2, <2>3 DEF Linked
<1> QED
  BY <1>1, <1>2, <1>3, <1>4

LEMMA AddType ==
  ASSUME TypeOK, NEW m \in Heap, NEW k \in Keys, NEW v \in Values, NEW e \in Nat,
         Add(m, k, v, e)
  PROVE  /\ mem' \in Heap
         /\ lists' \in [Buckets -> List]
         /\ chain' \in [Buckets -> Seq(Addrs)]
<1>1. Hash[k] \in Buckets /\ lists[Hash[k]] \in List
  BY DictAssumption DEF TypeOK, HeapTypeOK
<1>2. PICK a \in Addrs :
        LET m1 == [m EXCEPT ![a] = newNode(k, v, e)]
        IN /\ lists[Hash[k]].head # NULL => m1[lists[Hash[k]].tail] # NULL
           /\ mem' = Linked(m1, lists[Hash[k]], a)
           /\ lists' = [lists EXCEPT ![Hash[k]] = Extended(lists[Hash[k]], a)]
           /\ chain' = IF stale THEN chain ELSE [chain EXCEPT ![Hash[k]] = Append(@, a)]
  BY DEF Add
<1>3. newNode(k, v, e) \in Node /\ newNode(k, v, e) # NULL
  BY DictAssumption DEF newNode, Node
<1>4. mem' \in Heap
  <2> DEFINE m1 == [m EXCEPT ![a] = newNode(k, v, e)]
  <2>1. m1 \in Heap /\ m1[a] # NULL
    BY <1>3 DEF Heap
  <2>2. mem' = Linked(m1, lists[Hash[k]], a) /\ (lists[Hash[k]].head # NULL => m1[lists[Hash[k]].tail] # NULL)
    BY <1>2
  <2> HIDE DEF m1
  <2> QED
    BY <1>1, <2>1, <2>2, LinkedType
<1>5. lists' \in [Buckets -> List]
  BY <1>1, <1>2 DEF TypeOK, HeapTypeOK, Extended, List
<1>6. chain' \in [Buckets -> Seq(Addrs)]
  BY <1>1, <1>2 DEF TypeOK, HeapTypeOK
<1> QED
  BY <1>4, <1>5, <1>6

LEMMA RemoveType ==
  ASSUME TypeOK, cur \in Addrs, ~Free(cur), key \in Keys, Remove
  PROVE  /\ mem' \in Heap
         /\ lists' \in [Buckets -> List]
         /\ chain' \in [Buckets -> Seq(Addrs)]
<1>1. Hash[key] \in Buckets /\ lists[Hash[key]] \in List
  BY DictAssumption DEF TypeOK, HeapTypeOK
<1>2. /\ Unlinked(lists[Hash[key]], cur) \in Heap
      /\ Shortened(lists[Hash[key]], cur) \in List
  BY <1>1, ListFieldsType DEF TypeOK, HeapTypeOK, Remove, Heap
<1>3. Without(chain[Hash[key]], cur) \in Seq(Addrs)
  BY <1>1, WithoutType DEF TypeOK, HeapTypeOK
<1> QED
  BY <1>1, <1>2, <1>3 DEF Remove, TypeOK, HeapTypeOK, Heap

LEMMA FindType ==
  ASSUME NEW tbl \in [Buckets -> List], NEW k \in Keys, NEW who, Find(who, k, tbl)
  PROVE  pc' = "find" /\ caller' = who /\ key' = k /\ cur' \in Addrs \cup {NULL}
BY DictAssumption DEF Find, List

(* An answer leaves the thread idle, whatever it answers.                  *)
LEMMA AnswerType ==
  ASSUME NEW r \in Replies, Answer(r)
  PROVE  CallTypeOK' /\ Control' /\ pc' = "idle"
BY DictAssumption DEF Answer, CallTypeOK, Control, Buckets

LEMMA RepliesType ==
  ASSUME NEW r \in Requests, NEW v \in Values, NEW n \in Nat
  PROVE  {OK, Null, NoReply, GetReply(v), OnObject(r, v), Integer(n)} \subseteq Replies
BY DEF Values, Replies, GetReply, OnObject, Integer, Bulk, OK, Null, WrongType, NoReply

LEMMA ObjectType == ASSUME NEW r PROVE ObjectOf(r) \in Values
BY DEF ObjectOf, Values

(* The value a lookup has not found: nil, or a walk of set.                *)
LEMMA GotNullType ==
  ASSUME NEW tbl \in [Buckets -> List], CallTypeOK, op # NULL, key \in Keys,
         op.cmd \in {"GET", "SETBIT", "LOADBITMAP", "ZADD"}, gotNull(tbl)
  PROVE  CallTypeOK' /\ Control'
<1>1. CASE op.cmd = "GET"
  <2>1. Answer(Null)
    BY <1>1 DEF gotNull
  <2> QED
    BY <2>1, AnswerType DEF Replies
<1>2. CASE op.cmd # "GET"
  <2>1. Find("set", key, tbl) /\ UNCHANGED <<op, bkt, since, rest, count, reply>>
    BY <1>2 DEF gotNull
  <2> QED
    BY <1>2, <2>1, FindType DEF CallTypeOK, Control
<1> QED
  BY <1>1, <1>2

(* del goes on with the next key of a DEL or ends the command.             *)
LEMMA DelNextType ==
  ASSUME NEW tbl \in [Buckets -> List], CallTypeOK, Control, NEW n \in Nat,
         pc = "find", caller = "del", delNext(n, tbl)
  PROVE  CallTypeOK' /\ Control'
<1>1. CASE op.cmd = "ZADD" \/ Len(rest) = 1
  <2>1. Answer(OK) \/ Answer(Integer(n))
    BY <1>1 DEF delNext
  <2>2. OK \in Replies /\ Integer(n) \in Replies
    BY DEF Replies, Integer
  <2> QED
    BY <2>1, <2>2, AnswerType
<1>2. CASE op.cmd # "ZADD" /\ Len(rest) # 1
  <2>1. /\ Find("del", rest[2], tbl)
        /\ rest' = Tail(rest) /\ count' = n
        /\ UNCHANGED <<op, bkt, since, reply>>
    BY <1>2 DEF delNext
  <2>2. op.cmd = "DEL" /\ Len(rest) >= 1 /\ op # NULL
    BY <1>2 DEF Control
  <2>3. rest \in Seq(Keys) /\ Len(rest) >= 2
    <3>1. rest \in Seq(Keys)
      BY DEF CallTypeOK
    <3>2. Len(rest) \in Nat
      BY <3>1
    <3>3. \A n0 \in Nat : n0 >= 1 /\ n0 # 1 => n0 >= 2
      OBVIOUS
    <3> QED
      BY <1>2, <2>2, <3>1, <3>2, <3>3
  <2>4. rest[2] \in Keys /\ Tail(rest) \in Seq(Keys) /\ Len(Tail(rest)) >= 1
    BY <2>3
  <2> QED
    BY <2>1, <2>2, <2>4, FindType DEF CallTypeOK, Control
<1> QED
  BY <1>1, <1>2

Typed == TypeOK /\ Control

LEMMA TypedInit == Init => Typed
<1> SUFFICES ASSUME Init PROVE Typed
  OBVIOUS
<1>1. HeapTypeOK
  <2>1. [head |-> NULL, tail |-> NULL, size |-> 0] \in List
    BY DEF List
  <2>2. <<>> \in Seq(Addrs)
    OBVIOUS
  <2> QED
    BY <2>1, <2>2 DEF Init, HeapTypeOK
<1>2. CallTypeOK /\ Control
  BY DictAssumption DEF Init, CallTypeOK, Control, Buckets, Replies
<1> QED
  BY <1>1, <1>2 DEF Typed, TypeOK, Init

LEMMA TypedReceive == Typed /\ Receive => Typed'
<1> SUFFICES ASSUME Typed, Receive PROVE Typed'
  OBVIOUS
<1> USE DEF Typed
<1>1. HeapTypeOK /\ CallTypeOK /\ clock \in Nat
  BY DEF TypeOK
<1>2. ASSUME NEW r \in Requests, Begin(r)
      PROVE  /\ op' \in Requests /\ op' = r /\ since' \in Nat /\ reply' \in Replies /\ count' \in Nat
             /\ clock' \in Nat /\ HeapTypeOK' /\ op' # NULL
  BY <1>1, <1>2, DictAssumption DEF Begin, HeapTypeOK, heapVars, CallTypeOK, Replies
<1>3. CASE RecvLookup
  <2>1. PICK r \in GetRequests \cup ZaddRequests :
          /\ Begin(r)
          /\ Find(IF r.cmd = "LOADBITMAP" THEN "set" ELSE "get", r.key, lists)
          /\ UNCHANGED <<bkt, rest>>
    BY <1>3 DEF RecvLookup
  <2>2. r \in Requests /\ r.cmd \in {"GET", "SETBIT", "LOADBITMAP", "ZADD"} /\ r.key \in Keys
    BY DEF Requests, GetRequests, ZaddRequests
  <2>3. PICK who \in {"get", "set"} : Find(who, r.key, lists)
    BY <2>1
  <2>4. pc' = "find" /\ caller' = who /\ key' = r.key /\ cur' \in Addrs \cup {NULL}
    BY <1>1, <2>2, <2>3, FindType DEF HeapTypeOK
  <2>5. CallTypeOK' /\ Control'
    BY <1>1, <1>2, <2>1, <2>2, <2>4 DEF CallTypeOK, Control
  <2> QED
    BY <1>2, <2>1, <2>2, <2>5 DEF TypeOK
<1>4. CASE RecvSet
  <2>1. PICK r \in SetRequests :
          /\ Begin(r)
          /\ IF r.nx /\ r.xx
             THEN pc' = "refuse" /\ UNCHANGED <<caller, key, cur>>
             ELSE Find("setWithExpiry", r.key, lists)
          /\ UNCHANGED <<bkt, rest>>
    BY <1>4 DEF RecvSet
  <2>2. r \in Requests /\ r.cmd = "SET" /\ r.key \in Keys
    BY DEF Requests, SetRequests
  <2>3. CallTypeOK' /\ Control'
    <3>1. CASE r.nx /\ r.xx
      BY <1>1, <1>2, <2>1, <2>2, <3>1 DEF CallTypeOK, Control
    <3>2. CASE ~(r.nx /\ r.xx)
      <4>1. pc' = "find" /\ caller' = "setWithExpiry" /\ key' = r.key /\ cur' \in Addrs \cup {NULL}
        BY <1>1, <2>1, <2>2, <3>2, FindType DEF HeapTypeOK
      <4> QED
        BY <1>1, <1>2, <2>1, <2>2, <4>1 DEF CallTypeOK, Control
    <3> QED
      BY <3>1, <3>2
  <2> QED
    BY <1>2, <2>1, <2>2, <2>3 DEF TypeOK
<1>5. CASE RecvDel
  <2>1. PICK r \in DelRequests :
          Begin(r) /\ Find("del", Head(r.keys), lists) /\ rest' = r.keys /\ UNCHANGED bkt
    BY <1>5 DEF RecvDel
  <2>2. r \in Requests /\ r.cmd = "DEL"
    BY DEF Requests, DelRequests
  <2>3. r.keys \in Seq(Keys) /\ Len(r.keys) >= 1 /\ Head(r.keys) \in Keys
    BY <2>2, RequestFields
  <2>4. pc' = "find" /\ caller' = "del" /\ key' = Head(r.keys) /\ cur' \in Addrs \cup {NULL}
    BY <1>1, <2>1, <2>3, FindType DEF HeapTypeOK
  <2>5. CallTypeOK' /\ Control'
    BY <1>1, <1>2, <2>1, <2>2, <2>3, <2>4 DEF CallTypeOK, Control
  <2> QED
    BY <1>2, <2>1, <2>2, <2>5 DEF TypeOK
<1>6. CASE RecvFlush
  <2>1. PICK r \in FlushRequests : Begin(r)
    BY <1>6 DEF RecvFlush
  <2>2. r \in Requests
    BY DEF Requests
  <2>3. lists[1].tail \in Addrs \cup {NULL} /\ 1 \in Buckets
    BY <1>1, DictAssumption DEF HeapTypeOK, List, Buckets
  <2>4. CallTypeOK' /\ Control'
    BY <1>1, <1>2, <1>6, <2>1, <2>2, <2>3 DEF RecvFlush, CallTypeOK, Control
  <2> QED
    BY <1>2, <2>1, <2>2, <2>4 DEF TypeOK
<1>7. CASE RecvLoad
  <2>1. PICK r \in LoadRequests :
          Begin(r) /\ pc' = "load" /\ key' = r.key /\ UNCHANGED <<caller, cur, bkt, rest>>
    BY <1>7 DEF RecvLoad
  <2>2. r \in Requests /\ r.cmd = "LOADSTR" /\ r.key \in Keys
    BY DEF Requests, LoadRequests
  <2>3. CallTypeOK' /\ Control'
    BY <1>1, <1>2, <2>1, <2>2 DEF CallTypeOK, Control
  <2> QED
    BY <1>2, <2>1, <2>2, <2>3 DEF TypeOK
<1> QED
  BY <1>3, <1>4, <1>5, <1>6, <1>7 DEF Receive

LEMMA TypedServe == Typed /\ Serve => Typed'
<1> SUFFICES ASSUME Typed, Serve PROVE Typed'
  OBVIOUS
<1>1. HeapTypeOK /\ CallTypeOK /\ Control /\ clock \in Nat
  BY DEF Typed, TypeOK
<1>2. ASSUME CallTypeOK', Control', HeapTypeOK', UNCHANGED clock
      PROVE  Typed'
  BY <1>1, <1>2 DEF Typed, TypeOK
<1>3. ASSUME UNCHANGED heapVars PROVE HeapTypeOK'
  BY <1>1, <1>3 DEF heapVars, HeapTypeOK
<1>4. {OK, Null} \subseteq Replies
  BY DEF Replies
<1>5. ASSUME pc = "find"
      PROVE  op # NULL /\ op \in Requests /\ key \in Keys
  BY <1>1, <1>5 DEF Control, CallTypeOK
<1>6. ASSUME At PROVE pc = "find" /\ cur \in Addrs /\ ~Free(cur) /\ mem[cur] \in Node
  BY <1>1, <1>6 DEF At, CallTypeOK, HeapTypeOK, Free
<1>7. CASE Refuse
  BY <1>1, <1>2, <1>3, <1>4, <1>7, AnswerType DEF Refuse
<1>8. CASE findNext
  <2>1. cur \in Addrs /\ mem[cur] \in Node
    BY <1>1, <1>8 DEF findNext, CallTypeOK, HeapTypeOK, Free
  <2>2. CallTypeOK' /\ Control'
    BY <1>1, <1>8, <2>1 DEF findNext, CallTypeOK, Control, Node
  <2> QED
    BY <1>2, <1>3, <1>8, <2>2 DEF findNext
<1>9. CASE getHit
  <2>1. At /\ caller = "get" /\ UNCHANGED <<clock, heapVars>>
        /\ Answer(IF op.cmd = "GET" THEN GetReply(mem[cur].val) ELSE OnObject(op, mem[cur].val))
    BY <1>9 DEF getHit
  <2>2. mem[cur].val \in Values /\ op \in Requests
    BY <1>5, <1>6, <2>1 DEF Node
  <2>3. GetReply(mem[cur].val) \in Replies /\ OnObject(op, mem[cur].val) \in Replies
    BY <2>2, RepliesType
  <2>4. PICK r \in Replies : Answer(r)
    BY <2>1, <2>3
  <2> QED
    BY <1>2, <1>3, <2>1, <2>4, AnswerType
<1>10. CASE getExpired
  <2>1. At /\ caller = "get" /\ Find("purge", key, lists) /\ UNCHANGED clock /\ UNCHANGED heapVars
        /\ UNCHANGED <<op, bkt, since, rest, count, reply>>
    BY <1>10 DEF getExpired
  <2>2. pc' = "find" /\ caller' = "purge" /\ key' = key /\ cur' \in Addrs \cup {NULL}
    BY <1>1, <1>5, <1>6, <2>1, FindType DEF HeapTypeOK
  <2>3. CallTypeOK' /\ Control'
    BY <1>1, <1>5, <1>6, <2>1, <2>2 DEF CallTypeOK, Control
  <2> QED
    BY <1>2, <1>3, <2>1, <2>3
<1>11. CASE getMiss
  <2>1. pc = "find" /\ caller \in {"get", "purge"} /\ gotNull(lists) /\ UNCHANGED clock /\ UNCHANGED heapVars
    BY <1>11 DEF getMiss, Missed
  <2>2. op.cmd \in {"GET", "SETBIT", "LOADBITMAP", "ZADD"}
    BY <1>1, <2>1 DEF Control
  <2>3. CallTypeOK' /\ Control'
    BY <1>1, <1>5, <2>1, <2>2, GotNullType DEF HeapTypeOK
  <2> QED
    BY <1>2, <1>3, <2>1, <2>3
<1>12. CASE purgeHit
  <2>1. At /\ caller = "purge" /\ Remove /\ gotNull(lists') /\ UNCHANGED clock
    BY <1>12 DEF purgeHit
  <2>2. HeapTypeOK'
    BY <1>1, <1>5, <1>6, <2>1, RemoveType DEF Typed, HeapTypeOK, Remove, Heap
  <2>3. op.cmd \in {"GET", "SETBIT", "LOADBITMAP", "ZADD"}
    BY <1>1, <1>6, <2>1 DEF Control
  <2>4. CallTypeOK' /\ Control'
    BY <1>1, <1>5, <1>6, <2>1, <2>2, <2>3, GotNullType DEF HeapTypeOK
  <2> QED
    BY <1>2, <2>1, <2>2, <2>4
<1>13. CASE setMiss
  <2>1. /\ pc = "find" /\ caller = "set" /\ UNCHANGED clock /\ UNCHANGED <<stale, dup>>
        /\ Add(mem, key, ObjectOf(op), DefaultExpiry)
        /\ IF op.cmd = "ZADD" /\ ~op.adds
           THEN Find("del", key, lists') /\ UNCHANGED <<op, bkt, since, rest, count, reply>>
           ELSE Answer(OK)
    BY <1>13 DEF setMiss, Missed
  <2>2. HeapTypeOK'
    BY <1>1, <1>5, <2>1, AddType, ObjectType, DictAssumption DEF Typed, HeapTypeOK, Heap
  <2>3. CASE op.cmd = "ZADD" /\ ~op.adds
    <3>1. pc' = "find" /\ caller' = "del" /\ key' = key /\ cur' \in Addrs \cup {NULL}
      BY <1>5, <2>1, <2>2, <2>3, FindType DEF HeapTypeOK
    <3>2. CallTypeOK' /\ Control'
      BY <1>1, <1>5, <2>1, <2>3, <3>1 DEF CallTypeOK, Control
    <3> QED
      BY <1>2, <2>1, <2>2, <3>2
  <2>4. CASE ~(op.cmd = "ZADD" /\ ~op.adds)
    <3>1. Answer(OK)
      BY <2>1, <2>4
    <3> QED
      BY <1>2, <1>4, <2>1, <2>2, <3>1, AnswerType
  <2> QED
    BY <2>3, <2>4
<1>14. CASE setHit
  <2>1. /\ At /\ mem' = [mem EXCEPT ![cur].val = ObjectOf(op)] /\ Answer(OK)
        /\ UNCHANGED clock /\ UNCHANGED <<lists, chain, stale, dup>>
    BY <1>14 DEF setHit
  <2>2. [mem[cur] EXCEPT !.val = ObjectOf(op)] \in Node
    BY <1>6, <2>1, ObjectType DEF Node
  <2>3. HeapTypeOK'
    BY <1>1, <2>1, <2>2 DEF HeapTypeOK
  <2> QED
    BY <1>2, <1>4, <2>1, <2>3, AnswerType
<1>15. ASSUME op.cmd = "SET", op \in Requests
       PROVE  ExpiryOf(op) \in Nat /\ op.val \in Values
  BY <1>1, <1>15, RequestFields, DictAssumption DEF ExpiryOf, CallTypeOK, Values
<1>16. CASE setxHit
  <2>1. /\ At /\ caller = "setWithExpiry" /\ UNCHANGED clock /\ UNCHANGED <<lists, chain, stale, dup>>
        /\ IF op.nx
           THEN Answer(Null) /\ UNCHANGED mem
           ELSE /\ mem' = [mem EXCEPT ![cur].val = op.val, ![cur].exp = ExpiryOf(op)]
                /\ Answer(OK)
    BY <1>16 DEF setxHit
  <2>2. ExpiryOf(op) \in Nat /\ op.val \in Values
    BY <1>1, <1>5, <1>6, <1>15, <2>1 DEF Control
  <2>3. CASE op.nx
    <3>1. HeapTypeOK'
      BY <1>1, <2>1, <2>3 DEF HeapTypeOK
    <3> QED
      BY <1>2, <1>4, <2>1, <2>3, <3>1, AnswerType
  <2>4. CASE ~op.nx
    <3> DEFINE n == [mem[cur] EXCEPT !.val = op.val]
    <3>1. n \in Node
      BY <1>6, <2>1, <2>2 DEF Node
    <3>2. [n EXCEPT !.exp = ExpiryOf(op)] \in Node
      <4> HIDE DEF n
      <4> QED
        BY <2>2, <3>1 DEF Node
    <3>3. mem' = [mem EXCEPT ![cur] = [n EXCEPT !.exp = ExpiryOf(op)]]
      BY <1>1, <1>6, <2>1, <2>4 DEF HeapTypeOK
    <3>4. HeapTypeOK'
      <4> HIDE DEF n
      <4> QED
        BY <1>1, <2>1, <3>2, <3>3 DEF HeapTypeOK
    <3> QED
      BY <1>2, <1>4, <2>1, <2>4, <3>4, AnswerType
  <2> QED
    BY <2>3, <2>4
<1>17. CASE setxMiss
  <2>1. /\ pc = "find" /\ caller = "setWithExpiry" /\ UNCHANGED clock /\ UNCHANGED <<stale, dup>>
        /\ IF op.xx
           THEN Answer(Null) /\ UNCHANGED <<mem, lists, chain>>
           ELSE Add(mem, key, op.val, ExpiryOf(op)) /\ Answer(OK)
    BY <1>17 DEF setxMiss, Missed
  <2>2. ExpiryOf(op) \in Nat /\ op.val \in Values
    BY <1>1, <1>5, <1>15, <2>1 DEF Control
  <2>3. HeapTypeOK'
    <3>1. CASE op.xx
      BY <1>1, <2>1, <3>1 DEF HeapTypeOK
    <3>2. CASE ~op.xx
      BY <1>1, <1>5, <2>1, <2>2, <3>2, AddType DEF Typed, HeapTypeOK, Heap
    <3> QED
      BY <3>1, <3>2
  <2> QED
    BY <1>2, <1>4, <2>1, <2>3, AnswerType
<1>18. CASE setxExpired
  <2> DEFINE m == [mem EXCEPT ![cur] = NULL]
  <2>1. At /\ caller = "setWithExpiry" /\ stale' = TRUE /\ UNCHANGED <<clock, dup>>
    BY <1>18 DEF setxExpired
  <2>2. ExpiryOf(op) \in Nat /\ op.val \in Values
    BY <1>1, <1>5, <1>6, <1>15, <2>1 DEF Control
  <2>3. m \in Heap
    BY <1>1, <1>6, <2>1 DEF HeapTypeOK, Heap
  <2>4. CASE mem' = m /\ UNCHANGED <<lists, chain>> /\ Answer(Null)
    <3>1. HeapTypeOK'
      BY <1>1, <2>1, <2>3, <2>4 DEF HeapTypeOK, Heap
    <3> QED
      BY <1>2, <1>4, <2>1, <2>4, <3>1, AnswerType
  <2>5. CASE Add(m, key, op.val, ExpiryOf(op)) /\ Answer(OK)
    <3>1. HeapTypeOK'
      <4> HIDE DEF m
      <4> QED
        BY <1>1, <1>5, <1>6, <2>1, <2>2, <2>3, <2>5, AddType DEF Typed, HeapTypeOK, Heap
    <3> QED
      BY <1>2, <1>4, <2>1, <2>5, <3>1, AnswerType
  <2>6. CASE /\ pc' = "undefined" /\ mem' = m
             /\ UNCHANGED <<lists, chain, caller, op, key, cur, bkt, since, rest, count, reply>>
    <3>1. HeapTypeOK'
      BY <1>1, <2>1, <2>3, <2>6 DEF HeapTypeOK, Heap
    <3>2. CallTypeOK' /\ Control'
      BY <1>1, <1>5, <1>6, <2>1, <2>6 DEF CallTypeOK, Control
    <3> QED
      BY <1>2, <2>1, <3>1, <3>2
  <2> QED
    BY <1>18, <2>4, <2>5, <2>6 DEF setxExpired
<1>19. CASE setFromLoad
  <2>1. /\ pc = "load" /\ Answer(OK) /\ UNCHANGED clock /\ UNCHANGED stale
        /\ IF op.exp < clock
           THEN UNCHANGED <<mem, lists, chain, dup>>
           ELSE Add(mem, key, op.val, op.exp) /\ dup' = (dup \/ IsLinked(key))
    BY <1>19 DEF setFromLoad
  <2>2. op.exp \in Nat /\ op.val \in Values /\ key \in Keys
    BY <1>1, <2>1, RequestFields DEF Control, CallTypeOK, Values
  <2>3. HeapTypeOK'
    <3>1. CASE op.exp < clock
      BY <1>1, <2>1, <3>1 DEF HeapTypeOK
    <3>2. CASE ~(op.exp < clock)
      <4>1. Add(mem, key, op.val, op.exp) /\ dup' \in BOOLEAN
        BY <1>1, <2>1, <3>2 DEF HeapTypeOK, IsLinked
      <4> QED
        BY <1>1, <2>1, <2>2, <4>1, AddType DEF Typed, HeapTypeOK, Heap
    <3> QED
      BY <3>1, <3>2
  <2> QED
    BY <1>2, <1>4, <2>1, <2>3, AnswerType
<1>20. CASE delHit
  <2>1. At /\ caller = "del" /\ Remove /\ UNCHANGED clock
        /\ delNext(count + IF isExpired(cur) THEN 0 ELSE 1, lists')
    BY <1>20 DEF delHit
  <2>2. HeapTypeOK'
    BY <1>1, <1>5, <1>6, <2>1, RemoveType DEF Typed, HeapTypeOK, Remove, Heap
  <2>3. PICK n \in Nat : delNext(n, lists')
    <3>1. count + (IF isExpired(cur) THEN 0 ELSE 1) \in Nat
      BY <1>1 DEF CallTypeOK
    <3> QED
      BY <2>1, <3>1
  <2>4. CallTypeOK' /\ Control'
    BY <1>1, <1>6, <2>1, <2>2, <2>3, DelNextType DEF HeapTypeOK
  <2> QED
    BY <1>2, <2>1, <2>2, <2>4
<1>21. CASE delMiss
  <2>1. pc = "find" /\ caller = "del" /\ delNext(count, lists) /\ UNCHANGED clock /\ UNCHANGED heapVars
    BY <1>21 DEF delMiss, Missed
  <2>2. count \in Nat /\ lists \in [Buckets -> List]
    BY <1>1 DEF CallTypeOK, HeapTypeOK
  <2>3. CallTypeOK' /\ Control'
    BY <1>1, <2>1, <2>2, DelNextType
  <2> QED
    BY <1>2, <1>3, <2>1, <2>3
<1>22. CASE flushNode
  <2>1. cur \in Addrs /\ mem[cur] \in Node /\ Without(chain[bkt], cur) \in Seq(Addrs) /\ bkt \in Buckets
    BY <1>1, <1>22, WithoutType DEF flushNode, CallTypeOK, HeapTypeOK, Free
  <2>2. mem' \in Heap /\ chain' \in [Buckets -> Seq(Addrs)] /\ UNCHANGED <<clock, lists, stale, dup>>
    BY <1>1, <1>22, <2>1 DEF flushNode, HeapTypeOK, Heap
  <2>3. HeapTypeOK'
    BY <1>1, <2>2 DEF HeapTypeOK, Heap
  <2>4. CallTypeOK' /\ Control'
    BY <1>1, <1>22, <2>1 DEF flushNode, CallTypeOK, Control, Node
  <2> QED
    BY <1>2, <2>2, <2>3, <2>4
<1>23. CASE flushBucket
  <2>1. bkt + 1 \in Buckets /\ lists[bkt + 1].tail \in Addrs \cup {NULL}
    BY <1>1, <1>23, DictAssumption DEF flushBucket, CallTypeOK, HeapTypeOK, List, Buckets
  <2>2. CallTypeOK' /\ Control'
    BY <1>1, <1>23, <2>1 DEF flushBucket, CallTypeOK, Control
  <2> QED
    BY <1>2, <1>3, <1>23, <2>2 DEF flushBucket
<1>24. CASE flushDone
  <2>1. [head |-> NULL, tail |-> NULL, size |-> 0] \in List /\ <<>> \in Seq(Addrs)
    BY DEF List
  <2>2. HeapTypeOK'
    BY <1>1, <1>24, <2>1 DEF flushDone, HeapTypeOK
  <2> QED
    BY <1>2, <1>4, <1>24, <2>2, AnswerType DEF flushDone
<1>25. CASE readFreed \/ writeFreed
  <2>1. UNCHANGED heapVars /\ UNCHANGED clock /\ Undefined
    BY <1>25 DEF readFreed, writeFreed, Undefined
  <2>2. op # NULL
    BY <1>1, <1>25 DEF readFreed, writeFreed, Control, At, Missed
  <2>3. CallTypeOK' /\ Control'
    BY <1>1, <2>1, <2>2 DEF Undefined, CallTypeOK, Control
  <2> QED
    BY <1>2, <1>3, <2>1, <2>3
<1> QED
  BY <1>7, <1>8, <1>9, <1>10, <1>11, <1>12, <1>13, <1>14, <1>16, <1>17, <1>18, <1>19,
     <1>20, <1>21, <1>22, <1>23, <1>24, <1>25 DEF Serve

LEMMA TypedTick == Typed /\ (Tick \/ UNCHANGED vars) => Typed'
<1> SUFFICES ASSUME Typed, Tick \/ UNCHANGED vars PROVE Typed'
  OBVIOUS
<1>1. UNCHANGED <<heapVars, callVars>> /\ clock' \in Nat
  BY DEF Typed, TypeOK, Tick, vars, callVars
<1> QED
  BY <1>1 DEF Typed, TypeOK, HeapTypeOK, CallTypeOK, Control, heapVars, callVars

(* Every variable keeps its type: in particular every pointer is NULL or   *)
(* an address, and a request that is served has the fields its command     *)
(* reads.                                                                  *)
THEOREM TypeCorrect == Spec => []TypeOK
<1>1. Typed /\ [Next]_vars => Typed'
  BY TypedReceive, TypedServe, TypedTick DEF Next
<1>2. Typed => TypeOK
  BY DEF Typed
<1> QED
  BY TypedInit, <1>1, <1>2, PTL DEF Spec

-----------------------------------------------------------------------------
(* The inductive invariant                                                 *)

(* A bucket as removeNodeFromList and findNode rely on it.                 *)
Shape == \A b \in Buckets : BackwardOK(b) /\ ListOK(b)

Accounted ==
  \A a \in Addrs : ~Free(a) <=> \E b \in Buckets : \E i \in DOMAIN chain[b] : chain[b][i] = a

Disjoint ==
  \A b, c \in Buckets : \A i \in DOMAIN chain[b], j \in DOMAIN chain[c] :
    chain[b][i] = chain[c][j] => b = c /\ i = j

LastOf(s) == IF Len(s) = 0 THEN NULL ELSE s[Len(s)]

(* FLUSHALL has emptied the buckets before bkt, stands on the last node    *)
(* left in bkt, and will find the tail of every bucket after it.           *)
Flushing ==
  /\ \A b \in Buckets : BackwardOK(b)
  /\ \A b \in Buckets : b < bkt => chain[b] = <<>>
  /\ cur = LastOf(chain[bkt])
  /\ \A b \in Buckets : b > bkt => lists[b].tail = LastOf(chain[b])

(* findNode stands on the node at p of the bucket of its key, or past its  *)
(* end, and no node before it has the key.                                 *)
Walking ==
  LET s == chain[Hash[key]]
  IN \E p \in 1..(Len(s) + 1) :
       /\ cur = IF p = Len(s) + 1 THEN NULL ELSE s[p]
       /\ \A i \in 1..(p - 1) : mem[s[i]].key # key

Sound ==
  ~stale =>
    /\ pc # "undefined"
    /\ Accounted /\ Disjoint
    /\ pc # "flush" => Shape
    /\ pc = "flush" => Flushing
    /\ pc = "find" => Walking

-----------------------------------------------------------------------------
(* What the primitives write                                               *)

LEMMA RelinkedFields ==
  ASSUME NEW n \in Node, NEW v \in Addrs \cup {NULL}, NEW n1
  PROVE  /\ n1 = [n EXCEPT !.next = v] =>
              /\ n1 \in Node /\ n1.key = n.key /\ n1.val = n.val /\ n1.exp = n.exp
              /\ n1.next = v /\ n1.prev = n.prev
         /\ n1 = [n EXCEPT !.prev = v] =>
              /\ n1 \in Node /\ n1.key = n.key /\ n1.val = n.val /\ n1.exp = n.exp
              /\ n1.next = n.next /\ n1.prev = v
BY DEF Node

LEMMA LinkedValues ==
  ASSUME NEW m \in Heap, NEW l \in List, NEW a \in Addrs, m[a] \in Node,
         l.head # NULL => l.tail \in Addrs /\ m[l.tail] \in Node /\ l.tail # a
  PROVE  LET w == Linked(m, l, a)
         IN /\ \A x \in Addrs : x # a /\ (l.head = NULL \/ x # l.tail) => w[x] = m[x]
            /\ w[a] \in Node /\ w[a].key = m[a].key /\ w[a].next = m[a].next
            /\ w[a].prev = IF l.head = NULL THEN m[a].prev ELSE l.tail
            /\ l.head # NULL => /\ w[l.tail] \in Node /\ w[l.tail].key = m[l.tail].key
                                /\ w[l.tail].next = a /\ w[l.tail].prev = m[l.tail].prev
<1>1. CASE l.head = NULL
  BY <1>1 DEF Linked
<1>2. CASE l.head # NULL
  <2> DEFINE t == [m[l.tail] EXCEPT !.next = a]
             n == [m[a] EXCEPT !.prev = l.tail]
  <2>1. l.tail \in Addrs /\ m[l.tail] \in Node /\ l.tail # a
    BY <1>2
  <2>2. t \in Node /\ t.key = m[l.tail].key /\ t.next = a /\ t.prev = m[l.tail].prev
    BY <2>1, RelinkedNode, RelinkedFields
  <2>3. n \in Node /\ n.key = m[a].key /\ n.next = m[a].next /\ n.prev = l.tail
    BY <2>1, RelinkedNode, RelinkedFields
  <2>4. Linked(m, l, a) = [[m EXCEPT ![l.tail] = t] EXCEPT ![a] = n]
    BY <1>2, <2>1 DEF Linked, Heap
  <2> HIDE DEF t, n
  <2> QED
    BY <1>2, <2>1, <2>2, <2>3, <2>4 DEF Heap
<1> QED
  BY <1>1, <1>2

-----------------------------------------------------------------------------
(* addNodeToList of a new node                                             *)

(* Add, while every list is well formed: one free address becomes the last *)
(* node of the bucket, and no other node changes its key.                  *)
LEMMA AddKeepsLists ==
  ASSUME TypeOK, ~stale, Shape, Accounted, Disjoint,
         NEW k \in Keys, NEW v \in Values, NEW e \in Nat, Add(mem, k, v, e)
  PROVE  /\ Shape' /\ Accounted' /\ Disjoint'
         /\ \E a \in Addrs :
              /\ Free(a) /\ mem'[a] \in Node /\ mem'[a].key = k
              /\ \A x \in Addrs \ {a} :
                   ~Free(x)' => ~Free(x) /\ mem'[x].key = mem[x].key
<1> DEFINE b == Hash[k]
           l == lists[b]
           s == chain[b]
           n == Len(s)
<1>1. /\ b \in Buckets /\ l \in List /\ s \in Seq(Addrs) /\ n \in Nat
      /\ mem \in Heap /\ chain \in [Buckets -> Seq(Addrs)] /\ lists \in [Buckets -> List]
  BY DictAssumption DEF TypeOK, HeapTypeOK, Heap
<1>2. PICK a \in Addrs :
        /\ mem[a] = NULL
        /\ mem' = Linked([mem EXCEPT ![a] = newNode(k, v, e)], l, a)
        /\ lists' = [lists EXCEPT ![b] = Extended(l, a)]
        /\ chain' = [chain EXCEPT ![b] = Append(s, a)]
  BY DEF Add
<1> DEFINE m == [mem EXCEPT ![a] = newNode(k, v, e)]
<1>3. /\ newNode(k, v, e) \in Node /\ newNode(k, v, e).key = k
      /\ newNode(k, v, e).next = NULL /\ newNode(k, v, e).prev = NULL
  BY DEF newNode, Node
<1>4. /\ m \in Heap /\ m[a] = newNode(k, v, e)
      /\ \A x \in Addrs \ {a} : m[x] = mem[x]
  BY <1>1, <1>3 DEF Heap
<1>5. /\ \A c \in Buckets : chain[c] \in Seq(Addrs) /\ Len(chain[c]) \in Nat
                           /\ DOMAIN chain[c] = 1..Len(chain[c])
      /\ \A c \in Buckets : \A i \in 1..Len(chain[c]) :
           chain[c][i] \in Addrs /\ chain[c][i] # a /\ mem[chain[c][i]] \in Node
  <2>1. \A c \in Buckets : chain[c] \in Seq(Addrs)
    BY <1>1
  <2>2. ASSUME NEW c \in Buckets, NEW i \in 1..Len(chain[c])
        PROVE  chain[c][i] \in Addrs /\ ~Free(chain[c][i])
    BY <2>1 DEF Shape, BackwardOK
  <2> QED
    BY <1>1, <1>2, <2>1, <2>2 DEF Free, Heap
<1>6. l.head # NULL <=> n # 0
  BY <1>1, <1>5, DictAssumption DEF Shape, ListOK
<1>7. n # 0 => l.tail = s[n] /\ l.tail \in Addrs /\ mem[l.tail] \in Node /\ l.tail # a
  BY <1>1, <1>5 DEF Shape, ListOK
<1>8. /\ \A x \in Addrs : x # a /\ (n = 0 \/ x # l.tail) => mem'[x] = mem[x]
      /\ mem'[a] \in Node /\ mem'[a].key = k /\ mem'[a].next = NULL
      /\ mem'[a].prev = IF n = 0 THEN NULL ELSE s[n]
      /\ n # 0 => /\ mem'[s[n]] \in Node /\ mem'[s[n]].key = mem[s[n]].key
                  /\ mem'[s[n]].next = a /\ mem'[s[n]].prev = mem[s[n]].prev
  <2>1. l.head # NULL => l.tail \in Addrs /\ m[l.tail] \in Node /\ l.tail # a
    BY <1>4, <1>6, <1>7
  <2>2. m[a] \in Node /\ mem' = Linked(m, l, a)
    BY <1>2, <1>3, <1>4
  <2> HIDE DEF m, l, s, n
  <2> QED
    BY <1>1, <1>3, <1>4, <1>6, <1>7, <2>1, <2>2, LinkedValues
<1>9. chain'[b] = Append(s, a) /\ \A c \in Buckets \ {b} : chain'[c] = chain[c]
  BY <1>1, <1>2
<1>10. /\ Len(chain'[b]) = n + 1 /\ DOMAIN chain'[b] = 1..(n + 1)
       /\ chain'[b][n + 1] = a /\ \A i \in 1..n : chain'[b][i] = s[i]
  BY <1>1, <1>9
<1>11. lists'[b] = Extended(l, a) /\ \A c \in Buckets \ {b} : lists'[c] = lists[c]
  BY <1>1, <1>2
<1>12. ASSUME NEW c \in Buckets \ {b}
       PROVE  BackwardOK(c)' /\ ListOK(c)'
  <2>1. \A i \in 1..Len(chain[c]) : mem'[chain[c][i]] = mem[chain[c][i]]
    BY <1>1, <1>5, <1>7, <1>8 DEF Disjoint
  <2>2. BackwardOK(c) /\ ListOK(c)
    BY DEF Shape
  <2>3. chain'[c] = chain[c] /\ lists'[c] = lists[c]
    BY <1>9, <1>11
  <2>4. BackwardOK(c)'
    BY SMTT(30), <1>5, <2>1, <2>2, <2>3 DEF BackwardOK, Free
  <2>5. ListOK(c)'
    BY <1>5, <2>1, <2>2, <2>3 DEF ListOK
  <2> QED
    BY <2>4, <2>5
<1>13. BackwardOK(b) /\ ListOK(b)
  BY <1>1 DEF Shape
<1>14. ASSUME NEW i \in 1..n
       PROVE  /\ s[i] \in Addrs /\ mem'[s[i]] \in Node /\ mem'[s[i]].key = mem[s[i]].key
              /\ mem'[s[i]].prev = mem[s[i]].prev
              /\ mem'[s[i]].next = IF i = n THEN a ELSE mem[s[i]].next
  <2>1. CASE i = n
    BY <1>1, <1>5, <1>8, <2>1
  <2>2. CASE i # n
    <3>1. s[i] # s[n]
      BY <1>1, <1>5, <2>2 DEF Disjoint
    <3> QED
      BY <1>1, <1>5, <1>7, <1>8, <2>2, <3>1
  <2> QED
    BY <2>1, <2>2
<1>15. BackwardOK(b)'
  <2> SUFFICES ASSUME NEW i \in 1..(n + 1)
               PROVE  /\ mem'[chain'[b][i]] # NULL
                      /\ mem'[chain'[b][i]].prev = IF i = 1 THEN NULL ELSE chain'[b][i - 1]
                      /\ Hash[mem'[chain'[b][i]].key] = b
    BY <1>10 DEF BackwardOK, Free
  <2>1. CASE i = n + 1
    BY <1>1, <1>8, <1>10, <2>1, DictAssumption
  <2>2. CASE i \in 1..n
    <3>1. chain'[b][i] = s[i] /\ (i # 1 => chain'[b][i - 1] = s[i - 1])
      BY SMTT(30), <1>1, <1>10, <2>2
    <3>2. mem[s[i]].prev = (IF i = 1 THEN NULL ELSE s[i - 1]) /\ Hash[mem[s[i]].key] = b
      BY <1>1, <1>5, <1>13, <2>2 DEF BackwardOK
    <3> QED
      BY <1>14, <2>2, <3>1, <3>2, DictAssumption
  <2> QED
    BY <1>1, <2>1, <2>2
<1>16. ListOK(b)'
  <2>1. /\ lists'[b].size = n + 1 /\ lists'[b].tail = a
        /\ lists'[b].head = IF n = 0 THEN a ELSE l.head
    BY <1>6, <1>11, <1>13 DEF Extended, ListOK
  <2>2. lists'[b].head = chain'[b][1]
    BY <1>1, <1>10, <1>13, <2>1 DEF ListOK
  <2>3. ASSUME NEW i \in 1..(n + 1)
        PROVE  mem'[chain'[b][i]].next = IF i = n + 1 THEN NULL ELSE chain'[b][i + 1]
    <3>1. CASE i = n + 1
      BY <1>8, <1>10, <3>1
    <3>2. CASE i \in 1..n
      <4>1. mem[s[i]].next = IF i = n THEN NULL ELSE s[i + 1]
        BY <1>13, <3>2 DEF ListOK
      <4>2. CASE i = n
        <5>1. chain'[b][i] = s[i] /\ chain'[b][i + 1] = a /\ i # n + 1
          BY <1>1, <1>10, <3>2, <4>2
        <5>2. mem'[s[i]].next = a
          BY <1>14, <3>2, <4>2
        <5> QED
          BY <5>1, <5>2
      <4>3. CASE i # n
        <5>1. i + 1 \in 1..n
          BY <1>1, <3>2, <4>3
        <5>2. chain'[b][i] = s[i] /\ chain'[b][i + 1] = s[i + 1]
          BY <1>10, <3>2, <5>1
        <5>3. mem'[s[i]].next = mem[s[i]].next
          BY <1>14, <3>2, <4>3
        <5>4. mem[s[i]].next = s[i + 1]
          BY <4>1, <4>3
        <5>5. i # n + 1
          BY <1>1, <3>2
        <5> QED
          BY <5>2, <5>3, <5>4, <5>5
      <4> QED
        BY <4>2, <4>3
    <3>3. i = n + 1 \/ i \in 1..n
      BY <1>1
    <3> QED
      BY <3>1, <3>2, <3>3
  <2> QED
    BY <1>1, <1>10, <2>1, <2>2, <2>3 DEF ListOK
<1>17. Shape'
  BY <1>12, <1>15, <1>16 DEF Shape
<1>18. ASSUME NEW x \in Addrs
       PROVE  /\ ~Free(x)' <=> x = a \/ ~Free(x)
              /\ x # a /\ ~Free(x)' => mem'[x].key = mem[x].key
  <2>1. CASE x = a
    BY <1>8, <2>1, DictAssumption DEF Free
  <2>2. CASE x # a /\ n # 0 /\ x = l.tail
    <3>1. x = s[n] /\ n \in 1..n
      BY <1>1, <1>7, <2>2
    <3> QED
      BY <1>7, <1>14, <2>2, <3>1, DictAssumption DEF Free
  <2>3. CASE x # a /\ (n = 0 \/ x # l.tail)
    BY <1>8, <2>3 DEF Free
  <2> QED
    BY <2>1, <2>2, <2>3
<1>19. Accounted'
  <2> SUFFICES ASSUME NEW x \in Addrs
               PROVE  ~Free(x)' <=> \E c \in Buckets : \E i \in DOMAIN chain'[c] : chain'[c][i] = x
    BY DEF Accounted
  <2>1. x = a => \E i \in DOMAIN chain'[b] : chain'[b][i] = x
    BY <1>1, <1>10
  <2>2. ASSUME NEW c \in Buckets, NEW i \in DOMAIN chain[c], chain[c][i] = x
        PROVE  \E j \in DOMAIN chain'[c] : chain'[c][j] = x
    <3>1. CASE c = b
      <4>1. i \in 1..n /\ i \in 1..(n + 1)
        BY <1>1, <1>5, <2>2, <3>1
      <4> QED
        BY <1>10, <2>2, <3>1, <4>1
    <3>2. CASE c # b
      BY <1>9, <2>2, <3>2
    <3> QED
      BY <3>1, <3>2
  <2>3. ASSUME NEW c \in Buckets, NEW i \in DOMAIN chain'[c], chain'[c][i] = x, x # a
        PROVE  \E j \in DOMAIN chain[c] : chain[c][j] = x
    <3>1. CASE c = b
      <4>1. i \in 1..n
        BY <1>1, <1>10, <2>3, <3>1
      <4> QED
        BY <1>1, <1>5, <1>10, <2>3, <3>1, <4>1
    <3>2. CASE c # b
      BY <1>9, <2>3, <3>2
    <3> QED
      BY <3>1, <3>2
  <2> QED
    BY <1>1, <1>18, <2>1, <2>2, <2>3 DEF Accounted
<1>20. Disjoint'
  <2> SUFFICES ASSUME NEW c \in Buckets, NEW d \in Buckets,
                      NEW i \in DOMAIN chain'[c], NEW j \in DOMAIN chain'[d],
                      chain'[c][i] = chain'[d][j]
               PROVE  c = d /\ i = j
    BY DEF Disjoint
  <2>1. ASSUME NEW f \in Buckets, NEW h \in DOMAIN chain'[f]
        PROVE  \/ chain'[f][h] = a /\ f = b /\ h = n + 1
               \/ chain'[f][h] # a /\ h \in DOMAIN chain[f] /\ chain'[f][h] = chain[f][h]
    <3>1. CASE f = b
      <4>1. h \in 1..(n + 1)
        BY <1>10, <3>1
      <4>2. CASE h = n + 1
        BY <1>10, <3>1, <4>2
      <4>3. CASE h \in 1..n
        BY <1>1, <1>5, <1>10, <3>1, <4>3
      <4> QED
        BY <1>1, <4>1, <4>2, <4>3
    <3>2. CASE f # b
      BY <1>5, <1>9, <3>2
    <3> QED
      BY <3>1, <3>2
  <2> QED
    BY <2>1 DEF Disjoint
<1> QED
  BY <1>2, <1>8, <1>17, <1>18, <1>19, <1>20 DEF Free

-----------------------------------------------------------------------------
(* removeNodeFromList and freeListNode                                     *)

OneToOne(s) == \A i, j \in 1..Len(s) : s[i] = s[j] => i = j

(* A sequence without one of its elements.                                 *)
LEMMA WithoutAt ==
  ASSUME NEW s \in Seq(Addrs), NEW p \in 1..Len(s),
         OneToOne(s),
         NEW w, w = Without(s, s[p])
  PROVE  /\ w \in Seq(Addrs) /\ Len(w) = Len(s) - 1 /\ DOMAIN w = 1..(Len(s) - 1)
         /\ \A j \in 1..(Len(s) - 1) : w[j] = IF j < p THEN s[j] ELSE s[j + 1]
<1>1. Len(s) \in Nat /\ DOMAIN s = 1..Len(s)
  OBVIOUS
<1>2. (CHOOSE j \in DOMAIN s : s[j] = s[p]) = p
  BY <1>1 DEF OneToOne
<1>3. w = [j \in 1..(Len(s) - 1) |-> IF j < p THEN s[j] ELSE s[j + 1]]
  BY <1>2 DEF Without
<1>4. Len(s) - 1 \in Nat
  BY <1>1
<1>5. w \in [1..(Len(s) - 1) -> Addrs]
  BY <1>1, <1>3
<1>6. w \in Seq(Addrs) /\ Len(w) = Len(s) - 1
  BY <1>4, <1>5
<1> QED
  BY <1>3, <1>6

(* The nodes around the one at p of a well formed bucket.                  *)
LEMMA NeighboursAt ==
  ASSUME TypeOK, NEW b \in Buckets, BackwardOK(b), ListOK(b),
         OneToOne(chain[b]),
         NEW p \in 1..Len(chain[b])
  PROVE  LET s == chain[b]
             n == Len(s)
         IN /\ mem[s[p]].prev = IF p = 1 THEN NULL ELSE s[p - 1]
            /\ mem[s[p]].next = IF p = n THEN NULL ELSE s[p + 1]
            /\ \A i \in 1..n : s[i] \in Addrs /\ mem[s[i]] \in Node
            /\ \A i \in 1..n : s[i] \in Neighbours(lists[b], s[p]) <=> i = p - 1 \/ i = p + 1
            /\ \A x \in Neighbours(lists[b], s[p]) : \E i \in 1..n : x = s[i]
<1> DEFINE s == chain[b]
           n == Len(s)
<1>1. s \in Seq(Addrs) /\ n \in Nat /\ DOMAIN s = 1..n /\ lists[b].size = n
  BY DEF TypeOK, HeapTypeOK, ListOK
<1>2. \A i \in 1..n : s[i] \in Addrs /\ mem[s[i]] \in Node
  BY <1>1 DEF BackwardOK, Free, TypeOK, HeapTypeOK
<1>3. mem[s[p]].prev = IF p = 1 THEN NULL ELSE s[p - 1]
  BY <1>1 DEF BackwardOK
<1>4. mem[s[p]].next = IF p = n THEN NULL ELSE s[p + 1]
  BY <1>1 DEF ListOK
<1> USE DEF OneToOne
<1>5. CASE n = 1
  <2>1. Neighbours(lists[b], s[p]) = {}
    BY <1>1, <1>5 DEF Neighbours
  <2> QED
    BY <1>1, <1>2, <1>3, <1>4, <1>5, <2>1
<1>6. CASE n > 1 /\ p = 1
  <2>0. 2 \in 1..n /\ mem[s[p]].prev = NULL /\ mem[s[p]].next = s[2]
    BY <1>1, <1>3, <1>4, <1>6
  <2>1. Neighbours(lists[b], s[p]) = {s[2]} /\ 2 \in 1..n
    BY <1>1, <1>6, <2>0 DEF Neighbours
  <2> QED
    BY <1>1, <1>2, <1>3, <1>4, <1>6, <2>1
<1>7. CASE n > 1 /\ p = n
  <2>0. p - 1 \in 1..n
    BY <1>1, <1>7
  <2>1. mem[s[p]].prev # NULL /\ p - 1 \in 1..n
    BY <1>2, <1>3, <1>7, <2>0, DictAssumption
  <2>2. Neighbours(lists[b], s[p]) = {s[p - 1]}
    BY <1>1, <1>3, <1>4, <1>7, <2>1 DEF Neighbours
  <2> QED
    BY <1>1, <1>2, <1>3, <1>4, <1>7, <2>1, <2>2
<1>8. CASE p > 1 /\ p < n
  <2>1. mem[s[p]].prev # NULL /\ mem[s[p]].next # NULL /\ p - 1 \in 1..n /\ p + 1 \in 1..n
    BY SMTT(30), <1>1, <1>2, <1>3, <1>4, <1>8, DictAssumption
  <2>2. Neighbours(lists[b], s[p]) = {s[p - 1], s[p + 1]}
    BY <1>1, <1>3, <1>4, <1>8, <2>1 DEF Neighbours
  <2> QED
    BY <1>1, <1>2, <1>3, <1>4, <1>8, <2>1, <2>2
<1>9. n = 1 \/ (n > 1 /\ (p = 1 \/ p = n)) \/ (p > 1 /\ p < n)
  <2>1. \A m \in Nat : \A q \in 1..m :
          m = 1 \/ (m > 1 /\ (q = 1 \/ q = m)) \/ (q > 1 /\ q < m)
    OBVIOUS
  <2> QED
    BY <1>1, <2>1
<1> QED
  BY <1>5, <1>6, <1>7, <1>8, <1>9

(* Taking one node out of a bucket and freeing it keeps the account of     *)
(* nodes.                                                                  *)
LEMMA ChainWithout ==
  ASSUME TypeOK, Accounted, Disjoint,
         NEW b \in Buckets, NEW p \in 1..Len(chain[b]),
         chain' = [chain EXCEPT ![b] = Without(chain[b], chain[b][p])],
         \A x \in Addrs : Free(x)' <=> Free(x) \/ x = chain[b][p]
  PROVE  Accounted' /\ Disjoint'
<1> DEFINE s == chain[b]
           n == Len(s)
           a == s[p]
           w == Without(s, a)
           old(j) == IF j < p THEN j ELSE j + 1
<1>1. s \in Seq(Addrs) /\ n \in Nat /\ DOMAIN s = 1..n /\ chain \in [Buckets -> Seq(Addrs)]
  BY DEF TypeOK, HeapTypeOK
<1>2. /\ w \in Seq(Addrs) /\ Len(w) = n - 1 /\ DOMAIN w = 1..(n - 1)
      /\ \A j \in 1..(n - 1) : w[j] = IF j < p THEN s[j] ELSE s[j + 1]
  <2>1. w = Without(s, s[p]) /\ p \in 1..Len(s)
    OBVIOUS
  <2>2. s \in Seq(Addrs) /\ OneToOne(s)
    BY <1>1 DEF OneToOne, Disjoint
  <2> HIDE DEF w, s, a
  <2> QED
    BY <2>1, <2>2, WithoutAt
<1>3. chain'[b] = w /\ \A c \in Buckets \ {b} : chain'[c] = chain[c]
  BY <1>1
<1>4. \A x \in Addrs : Free(x)' <=> Free(x) \/ x = a
  OBVIOUS
<1>5. ASSUME NEW j \in 1..(n - 1)
       PROVE  old(j) \in 1..n /\ old(j) # p /\ w[j] = s[old(j)]
  <2>1. p \in 1..n
    OBVIOUS
  <2> HIDE DEF w, s, n
  <2> QED
    BY <1>1, <1>2, <2>1
<1>6. ASSUME NEW c \in Buckets, NEW j \in DOMAIN chain'[c]
       PROVE  \E i \in DOMAIN chain[c] :
                /\ chain'[c][j] = chain[c][i] /\ (c = b => i # p /\ i = old(j))
                /\ (c # b => i = j)
  <2>1. CASE c = b
    <3>1. j \in 1..(n - 1) /\ chain'[c][j] = w[j]
      BY <1>2, <1>3, <2>1
    <3>2. old(j) \in DOMAIN chain[c] /\ old(j) # p /\ w[j] = chain[c][old(j)]
      BY <1>1, <1>5, <2>1, <3>1
    <3> HIDE DEF old, w
    <3> QED
      BY <2>1, <3>1, <3>2
  <2>2. CASE c # b
    BY <1>3, <2>2
  <2> QED
    BY <2>1, <2>2
<1>7. ASSUME NEW c \in Buckets, NEW i \in DOMAIN chain[c], chain[c][i] # a
       PROVE  \E j \in DOMAIN chain'[c] : chain'[c][j] = chain[c][i]
  <2>1. CASE c = b
    <3>1. i \in 1..n /\ i # p /\ p \in 1..n
      BY <1>1, <1>7, <2>1
    <3>2. PICK j \in 1..(n - 1) : j = IF i < p THEN i ELSE i - 1
      <4> HIDE DEF n
      <4> QED
        BY <1>1, <3>1
    <3>3. w[j] = s[i]
      <4>1. old(j) = i
        <5> HIDE DEF n
        <5> QED
          BY <1>1, <3>1, <3>2
      <4> QED
        BY <1>5, <4>1
    <3> QED
      BY <1>2, <1>3, <2>1, <3>3
  <2>2. CASE c # b
    BY <1>3, <2>2
  <2> QED
    BY <2>1, <2>2
<1>8. Accounted'
  <2> SUFFICES ASSUME NEW x \in Addrs
               PROVE  ~Free(x)' <=> \E c \in Buckets : \E j \in DOMAIN chain'[c] : chain'[c][j] = x
    BY DEF Accounted
  <2>1. CASE x = a
    <3>1. ASSUME NEW c \in Buckets, NEW j \in DOMAIN chain'[c], chain'[c][j] = a
          PROVE  FALSE
      <4>1. PICK i \in DOMAIN chain[c] : chain[c][i] = a /\ (c = b => i # p)
        BY <1>6, <3>1
      <4> QED
        BY <1>1, <4>1 DEF Disjoint
    <3> QED
      BY <1>4, <2>1, <3>1 DEF Free
  <2>2. CASE x # a
    <3>1. ~Free(x)' <=> \E c \in Buckets : \E i \in DOMAIN chain[c] : chain[c][i] = x
      BY <1>4, <2>2 DEF Accounted
    <3> QED
      BY <1>6, <1>7, <2>2, <3>1
  <2> QED
    BY <2>1, <2>2
<1>9. Disjoint'
  <2> SUFFICES ASSUME NEW c \in Buckets, NEW d \in Buckets,
                      NEW i \in DOMAIN chain'[c], NEW j \in DOMAIN chain'[d],
                      chain'[c][i] = chain'[d][j]
               PROVE  c = d /\ i = j
    BY DEF Disjoint
  <2>1. PICK i0 \in DOMAIN chain[c] : /\ chain'[c][i] = chain[c][i0]
                                      /\ (c = b => i0 = old(i)) /\ (c # b => i0 = i)
    BY <1>6
  <2>2. PICK j0 \in DOMAIN chain[d] : /\ chain'[d][j] = chain[d][j0]
                                      /\ (d = b => j0 = old(j)) /\ (d # b => j0 = j)
    BY <1>6
  <2>3. c = d /\ i0 = j0
    <3>1. chain[c][i0] = chain[d][j0]
      BY <2>1, <2>2
    <3> QED
      BY <3>1 DEF Disjoint
  <2>4. CASE c = b
    <3>1. i \in 1..(n - 1) /\ j \in 1..(n - 1) /\ old(i) = old(j)
      BY <1>2, <1>3, <2>1, <2>2, <2>3, <2>4
    <3>2. i = j
      <4> HIDE DEF n
      <4> QED
        BY <1>1, <3>1
    <3> QED
      BY <2>3, <3>2
  <2> QED
    BY <2>1, <2>2, <2>3, <2>4
<1> QED
  BY <1>8, <1>9

(* Remove of the node at p, while every list is well formed: that node and *)
(* no other is freed, and no other node changes its key.                   *)
LEMMA RemoveKeepsLists ==
  ASSUME TypeOK, ~stale, Shape, Accounted, Disjoint, key \in Keys,
         NEW b \in Buckets, b = Hash[key],
         NEW p \in 1..Len(chain[b]), cur = chain[b][p], Remove
  PROVE  /\ Shape' /\ Accounted' /\ Disjoint'
         /\ mem'[cur] = NULL
         /\ \A x \in Addrs \ {cur} : /\ Free(x)' <=> Free(x)
                                     /\ ~Free(x) => mem'[x].key = mem[x].key
<1> DEFINE l == lists[b]
           s == chain[b]
           n == Len(s)
           w == Without(s, cur)
<1>1. /\ b \in Buckets /\ l \in List /\ s \in Seq(Addrs) /\ n \in Nat /\ DOMAIN s = 1..n
      /\ mem \in Heap /\ chain \in [Buckets -> Seq(Addrs)] /\ lists \in [Buckets -> List]
  BY DictAssumption DEF TypeOK, HeapTypeOK, Heap
<1>2. BackwardOK(b) /\ ListOK(b)
  BY <1>1 DEF Shape
<1>3. \A i, j \in 1..n : s[i] = s[j] => i = j
  BY <1>1 DEF Disjoint
<1>4. /\ mem[cur].prev = IF p = 1 THEN NULL ELSE s[p - 1]
      /\ mem[cur].next = IF p = n THEN NULL ELSE s[p + 1]
      /\ \A i \in 1..n : s[i] \in Addrs /\ mem[s[i]] \in Node
      /\ \A i \in 1..n : s[i] \in Neighbours(l, cur) <=> i = p - 1 \/ i = p + 1
      /\ \A x \in Neighbours(l, cur) : \E i \in 1..n : x = s[i]
  <2>1. /\ mem[s[p]].prev = IF p = 1 THEN NULL ELSE s[p - 1]
        /\ mem[s[p]].next = IF p = n THEN NULL ELSE s[p + 1]
        /\ \A i \in 1..n : s[i] \in Addrs /\ mem[s[i]] \in Node
        /\ \A i \in 1..n : s[i] \in Neighbours(lists[b], s[p]) <=> i = p - 1 \/ i = p + 1
        /\ \A x \in Neighbours(lists[b], s[p]) : \E i \in 1..n : x = s[i]
    <3>1. OneToOne(chain[b])
      BY <1>3 DEF OneToOne
    <3> QED
      BY <1>2, <3>1, NeighboursAt
  <2> QED
    BY <2>1
<1>5. /\ w \in Seq(Addrs) /\ Len(w) = n - 1 /\ DOMAIN w = 1..(n - 1)
      /\ \A j \in 1..(n - 1) : w[j] = IF j < p THEN s[j] ELSE s[j + 1]
  <2>1. w = Without(s, s[p]) /\ p \in 1..Len(s)
    OBVIOUS
  <2>2. s \in Seq(Addrs) /\ OneToOne(s)
    BY <1>1, <1>3 DEF OneToOne
  <2> HIDE DEF w, s
  <2> QED
    BY <2>1, <2>2, WithoutAt
<1>6. /\ mem' = [Unlinked(l, cur) EXCEPT ![cur] = NULL]
      /\ lists' = [lists EXCEPT ![b] = Shortened(l, cur)]
      /\ chain' = [chain EXCEPT ![b] = w]
  BY DEF Remove
<1>7. cur \in Addrs /\ mem'[cur] = NULL /\ \A x \in Addrs \ {cur} : mem'[x] = Unlinked(l, cur)[x]
  BY <1>4, <1>6 DEF Unlinked
<1>8. ASSUME NEW x \in Addrs \ {cur}, x \notin Neighbours(l, cur)
      PROVE  mem'[x] = mem[x]
  BY <1>7, <1>8 DEF Unlinked
<1>9. ASSUME NEW i \in 1..n, i # p
      PROVE  /\ s[i] \in Addrs /\ s[i] # cur /\ mem'[s[i]] \in Node
             /\ mem'[s[i]].key = mem[s[i]].key
             /\ mem'[s[i]].next = IF i = p - 1 THEN mem[cur].next ELSE mem[s[i]].next
             /\ mem'[s[i]].prev = IF i = p + 1 THEN mem[cur].prev ELSE mem[s[i]].prev
  <2>1. s[i] \in Addrs /\ s[i] # cur /\ mem[s[i]] \in Node
    BY <1>3, <1>4, <1>9
  <2>2. CASE s[i] \notin Neighbours(l, cur)
    BY <1>4, <1>8, <2>1, <2>2
  <2>3. CASE s[i] \in Neighbours(l, cur)
    <3> DEFINE o == mem[s[i]]
               nx == IF s[i] = mem[cur].prev THEN mem[cur].next ELSE mem[s[i]].next
               pv == IF s[i] = mem[cur].next THEN mem[cur].prev ELSE mem[s[i]].prev
               nd == [mem[s[i]] EXCEPT !.next = nx]
    <3>1. nx \in Addrs \cup {NULL} /\ pv \in Addrs \cup {NULL}
      BY <1>4, <2>1 DEF Node
    <3>2. nd \in Node /\ nd.key = mem[s[i]].key /\ nd.next = nx /\ nd.prev = mem[s[i]].prev
      <4>1. nd = [o EXCEPT !.next = nx] /\ o \in Node
        BY <2>1
      <4> HIDE DEF nx, nd, o
      <4>2. nd \in Node /\ nd.key = o.key /\ nd.next = nx /\ nd.prev = o.prev
        BY <3>1, <4>1, RelinkedFields
      <4> QED
        BY <4>2 DEF o
    <3>3. mem'[s[i]] = [nd EXCEPT !.prev = pv]
      BY <1>7, <2>1, <2>3 DEF Unlinked
    <3>4. /\ mem'[s[i]] \in Node /\ mem'[s[i]].key = mem[s[i]].key
          /\ mem'[s[i]].next = nx /\ mem'[s[i]].prev = pv
      <4> HIDE DEF nx, pv, nd
      <4> QED
        BY <3>1, <3>2, <3>3, RelinkedNode, RelinkedFields
    <3>5. s[i] = mem[cur].prev <=> i = p - 1
      <4>1. p = 1 \/ p - 1 \in 1..n
        BY <1>1
      <4>2. CASE p = 1
        BY <1>4, <2>1, <4>2, DictAssumption
      <4>3. CASE p # 1
        BY <1>3, <1>4, <4>1, <4>3
      <4> QED
        BY <4>2, <4>3
    <3>6. s[i] = mem[cur].next <=> i = p + 1
      <4>1. p = n \/ p + 1 \in 1..n
        BY <1>1
      <4>2. CASE p = n
        BY <1>4, <2>1, <4>2, DictAssumption
      <4>3. CASE p # n
        BY <1>3, <1>4, <4>1, <4>3
      <4> QED
        BY <4>2, <4>3
    <3> QED
      BY <2>1, <3>4, <3>5, <3>6
  <2> QED
    BY <2>2, <2>3
<1>10. chain'[b] = w /\ \A c \in Buckets \ {b} : chain'[c] = chain[c]
  BY <1>1, <1>6
<1>11. lists'[b] = Shortened(l, cur) /\ \A c \in Buckets \ {b} : lists'[c] = lists[c]
  BY <1>1, <1>6
<1>12. \A c \in Buckets : /\ chain[c] \in Seq(Addrs) /\ DOMAIN chain[c] = 1..Len(chain[c])
                          /\ Len(chain[c]) \in Nat
                          /\ \A i \in 1..Len(chain[c]) : chain[c][i] \in Addrs
  <2>1. \A c \in Buckets : chain[c] \in Seq(Addrs)
    BY <1>1
  <2> QED
    BY <2>1
<1>13. ASSUME NEW c \in Buckets \ {b}
       PROVE  BackwardOK(c)' /\ ListOK(c)'
  <2>1. ASSUME NEW i \in 1..Len(chain[c])
        PROVE  mem'[chain[c][i]] = mem[chain[c][i]]
    <3>1. \A j \in 1..n : chain[c][i] # s[j]
      BY <1>1, <1>12 DEF Disjoint
    <3>2. chain[c][i] # cur /\ chain[c][i] \notin Neighbours(l, cur)
      BY <1>4, <3>1
    <3> QED
      BY <1>8, <1>12, <3>2
  <2>2. BackwardOK(c) /\ ListOK(c)
    BY DEF Shape
  <2>3. chain'[c] = chain[c] /\ lists'[c] = lists[c]
    BY <1>10, <1>11
  <2> DEFINE cs == chain[c]
  <2>4. DOMAIN cs = 1..Len(cs)
    BY <1>12
  <2>5. BackwardOK(c)'
    <3>1. \A i \in DOMAIN cs :
            /\ mem'[cs[i]] # NULL
            /\ mem'[cs[i]].prev = IF i = 1 THEN NULL ELSE cs[i - 1]
            /\ Hash[mem'[cs[i]].key] = c
      BY <2>1, <2>2, <2>4 DEF BackwardOK, Free
    <3> HIDE DEF cs
    <3>2. chain'[c] = cs
      BY <2>3 DEF cs
    <3> QED
      BY <3>1, <3>2 DEF BackwardOK, Free
  <2>6. ListOK(c)'
    BY SMTT(30), <1>12, <2>1, <2>2, <2>3 DEF ListOK
  <2> QED
    BY <2>5, <2>6
(* Where the nodes of the bucket were: the one at j of w was at old(j).    *)
<1> DEFINE old(j) == IF j < p THEN j ELSE j + 1
<1>14. ASSUME NEW j \in 1..(n - 1)
       PROVE  /\ old(j) \in 1..n /\ old(j) # p /\ w[j] = s[old(j)]
              /\ (old(j) = p - 1 <=> j = p - 1) /\ (old(j) = p + 1 <=> j = p)
  <2>1. p \in 1..n
    OBVIOUS
  <2> HIDE DEF w, s, n
  <2> QED
    BY <1>1, <1>5, <2>1
<1>15. ASSUME NEW j \in 1..(n - 1)
       PROVE  /\ mem'[w[j]] # NULL /\ Hash[mem'[w[j]].key] = b
              /\ mem'[w[j]].prev = IF j = 1 THEN NULL ELSE w[j - 1]
              /\ mem'[w[j]].next = IF j = n - 1 THEN NULL ELSE w[j + 1]
  <2>0. PICK i \in 1..n : /\ i = old(j) /\ i # p /\ w[j] = s[i]
                          /\ (i = p - 1 <=> j = p - 1) /\ (i = p + 1 <=> j = p)
    BY <1>14
  <2>1. /\ mem'[w[j]] \in Node /\ mem'[w[j]].key = mem[w[j]].key
        /\ mem'[w[j]].next = IF j = p - 1 THEN mem[cur].next ELSE mem[w[j]].next
        /\ mem'[w[j]].prev = IF j = p THEN mem[cur].prev ELSE mem[w[j]].prev
    <3>1. /\ mem'[s[i]] \in Node
          /\ mem'[s[i]].key = mem[s[i]].key
          /\ mem'[s[i]].next = IF i = p - 1 THEN mem[cur].next ELSE mem[s[i]].next
          /\ mem'[s[i]].prev = IF i = p + 1 THEN mem[cur].prev ELSE mem[s[i]].prev
      BY <1>9, <2>0
    <3> HIDE DEF w, s, n
    <3> QED
      BY <2>0, <3>1
  <2>2. /\ Hash[mem[w[j]].key] = b
        /\ mem[w[j]].prev = IF i = 1 THEN NULL ELSE s[i - 1]
        /\ mem[w[j]].next = IF i = n THEN NULL ELSE s[i + 1]
    <3>1. /\ Hash[mem[s[i]].key] = b
          /\ mem[s[i]].prev = IF i = 1 THEN NULL ELSE s[i - 1]
          /\ mem[s[i]].next = IF i = n THEN NULL ELSE s[i + 1]
      BY <1>1, <1>2 DEF BackwardOK, ListOK
    <3> HIDE DEF w, s, n
    <3> QED
      BY <2>0, <3>1
  <2>3. (IF j = p THEN mem[cur].prev ELSE mem[w[j]].prev) = IF j = 1 THEN NULL ELSE w[j - 1]
    <3>1. j = 1 \/ j - 1 \in 1..(n - 1)
      BY <1>1
    <3>2. p \in 1..n /\ n \in Nat
      BY <1>1
    <3> HIDE DEF w, s, n
    <3> QED
      BY <1>4, <1>5, <2>0, <2>2, <3>1, <3>2
  <2>4. (IF j = p - 1 THEN mem[cur].next ELSE mem[w[j]].next) = IF j = n - 1 THEN NULL ELSE w[j + 1]
    <3>1. j = n - 1 \/ j + 1 \in 1..(n - 1)
      BY <1>1
    <3>2. p \in 1..n /\ n \in Nat
      BY <1>1
    <3> HIDE DEF w, s, n
    <3> QED
      BY <1>4, <1>5, <2>0, <2>2, <3>1, <3>2
  <2> QED
    BY <2>1, <2>2, <2>3, <2>4, DictAssumption
<1>16. BackwardOK(b)'
  <2>1. \A j \in 1..(n - 1) :
          /\ mem'[w[j]] # NULL /\ Hash[mem'[w[j]].key] = b
          /\ mem'[w[j]].prev = IF j = 1 THEN NULL ELSE w[j - 1]
    BY <1>15
  <2> HIDE DEF w, n
  <2> QED
    BY <1>5, <1>10, <2>1 DEF BackwardOK, Free
<1>17. ListOK(b)'
  <2>1. /\ l.size = n
        /\ l.head = IF n = 0 THEN NULL ELSE s[1]
        /\ l.tail = IF n = 0 THEN NULL ELSE s[n]
    BY <1>2 DEF ListOK
  <2>2. p \in 1..n /\ n \in Nat
    BY <1>1
  <2>3. CASE n = 1
    <3>1. Shortened(l, cur) = [head |-> NULL, tail |-> NULL, size |-> 0]
      BY <2>1, <2>3 DEF Shortened
    <3>2. chain'[b] = w /\ Len(w) = 0
      BY <1>5, <1>10, <2>3
    <3> HIDE DEF w
    <3> QED
      BY <1>11, <3>1, <3>2 DEF ListOK
  <2>4. CASE n > 1
    <3>1. /\ Shortened(l, cur).size = n - 1
          /\ Shortened(l, cur).head = IF mem[cur].prev = NULL THEN mem[cur].next ELSE l.head
          /\ Shortened(l, cur).tail =
               IF mem[cur].prev # NULL /\ mem[cur].next = NULL THEN mem[cur].prev ELSE l.tail
      BY <2>1, <2>2, <2>4 DEF Shortened
    <3>2. (mem[cur].prev = NULL <=> p = 1) /\ (mem[cur].next = NULL <=> p = n)
      <4>1. (p = 1 \/ p - 1 \in 1..n) /\ (p = n \/ p + 1 \in 1..n)
        BY <2>2
      <4> HIDE DEF s, n
      <4> QED
        BY <1>4, <4>1, DictAssumption
    <3>3. /\ w[1] = IF 1 < p THEN s[1] ELSE s[2]
          /\ w[n - 1] = IF n - 1 < p THEN s[n - 1] ELSE s[n]
      <4> HIDE DEF s, n, w
      <4> QED
        BY <1>5, <2>2, <2>4
    <3>4. Shortened(l, cur).head = w[1]
      <4> HIDE DEF s, n, w
      <4> QED
        BY <1>4, <2>1, <2>2, <2>4, <3>1, <3>2, <3>3
    <3>5. Shortened(l, cur).tail = w[n - 1]
      <4> HIDE DEF s, n, w
      <4> QED
        BY <1>4, <2>1, <2>2, <2>4, <3>1, <3>2, <3>3
    <3>6. \A j \in 1..(n - 1) : mem'[w[j]].next = IF j = n - 1 THEN NULL ELSE w[j + 1]
      BY <1>15
    <3>7. n - 1 # 0
      <4> HIDE DEF n
      <4> QED
        BY <2>2, <2>4
    <3>8. /\ Len(w) # 0
          /\ lists'[b].size = Len(w) /\ lists'[b].head = w[1] /\ lists'[b].tail = w[Len(w)]
          /\ \A j \in 1..Len(w) : mem'[w[j]].next = IF j = Len(w) THEN NULL ELSE w[j + 1]
      <4> HIDE DEF s, n, w
      <4> QED
        BY <1>5, <1>11, <3>1, <3>4, <3>5, <3>6, <3>7
    <3>9. chain'[b] = w
      BY <1>10
    <3> HIDE DEF w
    <3> QED
      BY <3>8, <3>9 DEF ListOK
  <2>5. n = 1 \/ n > 1
    <3> HIDE DEF n
    <3> QED
      BY <2>2
  <2> QED
    BY <2>3, <2>4, <2>5
<1>18. Shape'
  BY <1>13, <1>16, <1>17 DEF Shape
<1>19. ASSUME NEW x \in Addrs \ {cur}
       PROVE  /\ Free(x)' <=> Free(x)
              /\ ~Free(x) => mem'[x].key = mem[x].key
  <2>1. CASE x \notin Neighbours(l, cur)
    BY <1>8, <2>1 DEF Free
  <2>2. CASE x \in Neighbours(l, cur)
    <3>1. PICK i \in 1..n : x = s[i]
      BY <1>4, <2>2
    <3>2. i # p /\ mem[s[i]] \in Node
      BY <1>4, <3>1
    <3> QED
      BY <1>9, <3>1, <3>2, DictAssumption DEF Free
  <2> QED
    BY <2>1, <2>2
<1>20. Accounted' /\ Disjoint'
  <2>1. \A x \in Addrs : Free(x)' <=> Free(x) \/ x = chain[b][p]
    BY <1>7, <1>19 DEF Free
  <2>2. chain' = [chain EXCEPT ![b] = Without(chain[b], chain[b][p])]
    BY <1>6
  <2> QED
    BY <2>1, <2>2, ChainWithout
<1> QED
  BY <1>7, <1>18, <1>19, <1>20

-----------------------------------------------------------------------------
(* Where a step leaves the thread                                          *)

(* A command that returns with every list well formed.                     *)
LEMMA SoundAnswer ==
  ASSUME Shape', Accounted', Disjoint', NEW r, Answer(r)
  PROVE  Sound'
BY DEF Sound, Answer

(* A walk that begins with every list well formed.                         *)
LEMMA SoundFind ==
  ASSUME Typed', Shape', Accounted', Disjoint', NEW who, NEW k, Find(who, k, lists')
  PROVE  Sound'
<1>1. pc' = "find" /\ key' = k /\ cur' = lists'[Hash[k]].head
  BY DEF Find
<1>2. k \in Keys /\ Hash[k] \in Buckets
  BY <1>1, DictAssumption DEF Typed, Control
<1> DEFINE s == chain'[Hash[k]]
<1>3. s \in Seq(Addrs) /\ Len(s) \in Nat
  BY <1>2 DEF Typed, TypeOK, HeapTypeOK
<1>4. cur' = IF Len(s) = 0 THEN NULL ELSE s[1]
  BY <1>1, <1>2 DEF Shape, ListOK
<1>5. cur' = IF 1 = Len(s) + 1 THEN NULL ELSE s[1]
  <2> HIDE DEF s
  <2> QED
    BY <1>3, <1>4
<1>6. 1 \in 1..(Len(s) + 1) /\ \A i \in 1..(1 - 1) : mem'[s[i]].key # key'
  <2> HIDE DEF s
  <2> QED
    BY <1>3
<1>7. Walking'
  BY <1>1, <1>5, <1>6 DEF Walking
<1> QED
  BY <1>1, <1>7 DEF Sound

LEMMA SoundGotNull ==
  ASSUME Typed', Shape', Accounted', Disjoint', gotNull(lists')
  PROVE  Sound'
BY SoundAnswer, SoundFind DEF gotNull

LEMMA SoundDelNext ==
  ASSUME Typed', Shape', Accounted', Disjoint', NEW n, delNext(n, lists')
  PROVE  Sound'
BY SoundAnswer, SoundFind DEF delNext

(* Writing the value or the expiry of a node moves no link.                *)
LEMMA RelabelKeepsLists ==
  ASSUME TypeOK, Shape, Accounted, Disjoint, cur \in Addrs, ~Free(cur), NEW nd \in Node,
         nd.key = mem[cur].key, nd.next = mem[cur].next, nd.prev = mem[cur].prev,
         mem' = [mem EXCEPT ![cur] = nd], UNCHANGED <<lists, chain>>
  PROVE  Shape' /\ Accounted' /\ Disjoint'
<1>1. ASSUME NEW x \in Addrs
      PROVE  /\ Free(x)' <=> Free(x)
             /\ mem'[x].key = mem[x].key /\ mem'[x].next = mem[x].next /\ mem'[x].prev = mem[x].prev
  BY DictAssumption DEF TypeOK, HeapTypeOK, Free
<1>2. \A b \in Buckets : \A i \in DOMAIN chain[b] : chain[b][i] \in Addrs
  BY DEF TypeOK, HeapTypeOK
<1>3. ASSUME NEW b \in Buckets PROVE BackwardOK(b)' /\ ListOK(b)'
  <2>1. BackwardOK(b) /\ ListOK(b) /\ chain' = chain /\ lists' = lists
    BY DEF Shape
  <2>2. BackwardOK(b)'
    BY <1>1, <1>2, <2>1 DEF BackwardOK
  <2>3. \A i \in 1..Len(chain[b]) : chain[b][i] \in Addrs
    BY DEF TypeOK, HeapTypeOK
  <2>4. ListOK(b)'
    BY <1>1, <2>1, <2>3 DEF ListOK
  <2> QED
    BY <2>2, <2>4
<1> QED
  BY <1>1, <1>3 DEF Shape, Accounted, Disjoint

LEMMA SameLists ==
  ASSUME UNCHANGED heapVars
  PROVE  (Shape => Shape') /\ (Accounted => Accounted') /\ (Disjoint => Disjoint')
BY DEF heapVars, Shape, BackwardOK, ListOK, Accounted, Disjoint, Free

-----------------------------------------------------------------------------
(* Walks                                                                   *)

(* A walk that is not over stands on a node of its bucket, and the nodes   *)
(* it has passed have other keys.                                          *)
LEMMA WalkAt ==
  ASSUME Typed, Sound, ~stale, pc = "find", cur # NULL
  PROVE  /\ Hash[key] \in Buckets /\ BackwardOK(Hash[key]) /\ ListOK(Hash[key])
         /\ cur \in Addrs /\ ~Free(cur)
         /\ \E p \in 1..Len(chain[Hash[key]]) :
              /\ cur = chain[Hash[key]][p]
              /\ \A i \in 1..(p - 1) : mem[chain[Hash[key]][i]].key # key
<1> DEFINE s == chain[Hash[key]]
<1>1. key \in Keys /\ Hash[key] \in Buckets
  BY DictAssumption DEF Typed, Control
<1>2. BackwardOK(Hash[key]) /\ ListOK(Hash[key]) /\ Walking
  BY <1>1 DEF Sound, Shape
<1>3. s \in Seq(Addrs) /\ Len(s) \in Nat /\ DOMAIN s = 1..Len(s)
  BY <1>1 DEF Typed, TypeOK, HeapTypeOK
<1>4. PICK p \in 1..(Len(s) + 1) : /\ cur = IF p = Len(s) + 1 THEN NULL ELSE s[p]
                                   /\ \A i \in 1..(p - 1) : mem[s[i]].key # key
  BY <1>2 DEF Walking
<1>5. p \in 1..Len(s) /\ cur = s[p]
  <2>1. p # Len(s) + 1 /\ cur = s[p]
    BY <1>4
  <2> HIDE DEF s
  <2> QED
    BY <1>3, <2>1
<1>6. cur \in Addrs /\ ~Free(cur)
  BY <1>2, <1>3, <1>5 DEF BackwardOK
<1> QED
  BY <1>1, <1>2, <1>4, <1>5, <1>6

(* A walk that found nothing proves that no node has the key.              *)
LEMMA WalkMissed ==
  ASSUME Typed, Sound, ~stale, Missed
  PROVE  ~IsLinked(key)
<1> DEFINE s == chain[Hash[key]]
<1>1. key \in Keys /\ Hash[key] \in Buckets /\ pc = "find" /\ cur = NULL
  BY DictAssumption DEF Typed, Control, Missed
<1>2. Shape /\ Walking /\ Accounted
  BY <1>1 DEF Sound
<1>3. s \in Seq(Addrs) /\ Len(s) \in Nat /\ \A i \in 1..Len(s) : s[i] # NULL
  BY <1>1, DictAssumption DEF Typed, TypeOK, HeapTypeOK
<1>4. PICK p \in 1..(Len(s) + 1) : /\ cur = IF p = Len(s) + 1 THEN NULL ELSE s[p]
                                   /\ \A i \in 1..(p - 1) : mem[s[i]].key # key
  BY <1>2 DEF Walking
<1>5. \A i \in 1..Len(s) : mem[s[i]].key # key
  <2>1. p = Len(s) + 1
    <3> HIDE DEF s
    <3> QED
      BY <1>1, <1>3, <1>4
  <2>2. p - 1 = Len(s)
    <3> HIDE DEF s
    <3> QED
      BY <1>3, <2>1
  <2> QED
    BY <1>4, <2>2
<1>6. ASSUME NEW a \in Addrs, ~Free(a), mem[a].key = key
      PROVE  FALSE
  <2>1. PICK b \in Buckets : \E i \in DOMAIN chain[b] : chain[b][i] = a
    BY <1>2, <1>6 DEF Accounted
  <2>2. PICK i \in DOMAIN chain[b] : chain[b][i] = a
    BY <2>1
  <2>3. Hash[mem[a].key] = b
    BY <1>2, <2>2 DEF Shape, BackwardOK
  <2>4. b = Hash[key] /\ i \in 1..Len(s) /\ s[i] = a
    BY <1>3, <1>6, <2>2, <2>3
  <2> QED
    BY <1>5, <1>6, <2>4
<1> QED
  BY <1>6 DEF IsLinked

LEMMA SoundFindNext ==
  ASSUME Typed, Sound, ~stale, findNext
  PROVE  Sound'
<1> DEFINE s == chain[Hash[key]]
<1>1. /\ pc = "find" /\ cur # NULL /\ mem[cur].key # key /\ cur' = mem[cur].next
      /\ UNCHANGED heapVars /\ pc' = pc /\ key' = key
  BY DEF findNext
<1>2. PICK p \in 1..Len(s) : cur = s[p] /\ \A i \in 1..(p - 1) : mem[s[i]].key # key
  BY <1>1, WalkAt
<1>3. ListOK(Hash[key]) /\ s \in Seq(Addrs) /\ Len(s) \in Nat
  BY <1>1, WalkAt DEF Typed, TypeOK, HeapTypeOK
<1>4. cur' = IF p = Len(s) THEN NULL ELSE s[p + 1]
  BY <1>1, <1>2, <1>3 DEF ListOK
<1>5. /\ p + 1 \in 1..(Len(s) + 1)
      /\ cur' = IF p + 1 = Len(s) + 1 THEN NULL ELSE s[p + 1]
      /\ \A i \in 1..((p + 1) - 1) : mem[s[i]].key # key
  <2> HIDE DEF s
  <2> QED
    BY <1>1, <1>2, <1>3, <1>4
<1>6. Walking'
  <2>1. chain'[Hash[key']] = s /\ mem' = mem /\ key' = key
    BY <1>1 DEF heapVars
  <2> HIDE DEF s
  <2> QED
    BY <1>5, <2>1 DEF Walking
<1> QED
  BY <1>1, <1>6, SameLists DEF Sound, heapVars

-----------------------------------------------------------------------------
(* FLUSHALL                                                                *)

LEMMA SoundRecvFlush ==
  ASSUME Typed, Sound, ~stale, RecvFlush
  PROVE  Sound'
<1>1. PICK r : Begin(r)
  BY DEF RecvFlush
<1>2. pc = "idle" /\ UNCHANGED heapVars /\ pc' = "flush" /\ bkt' = 1 /\ cur' = lists[1].tail
  BY <1>1 DEF RecvFlush, Begin
<1>3. Shape /\ Accounted /\ Disjoint
  BY <1>2 DEF Sound
<1>4. \A b \in Buckets : lists[b].tail = LastOf(chain[b])
  BY <1>3 DEF Shape, ListOK, LastOf
<1>5. 1 \in Buckets /\ \A b \in Buckets : ~(b < 1)
  BY DictAssumption DEF Buckets
<1>6. Shape' /\ Accounted' /\ Disjoint'
  BY <1>2, <1>3, SameLists
<1>7. chain' = chain /\ lists' = lists
  BY <1>2 DEF heapVars
<1>8. Flushing'
  BY <1>2, <1>4, <1>5, <1>6, <1>7 DEF Flushing, Shape
<1> QED
  BY <1>2, <1>6, <1>8 DEF Sound

LEMMA SoundFlushNode ==
  ASSUME Typed, Sound, ~stale, flushNode
  PROVE  Sound'
<1>1. /\ pc = "flush" /\ cur # NULL /\ mem' = [mem EXCEPT ![cur] = NULL] /\ cur' = mem[cur].prev
      /\ chain' = [chain EXCEPT ![bkt] = Without(@, cur)]
      /\ UNCHANGED <<lists, stale, pc, bkt>>
  BY DEF flushNode
<1>2. Accounted /\ Disjoint /\ Flushing
  BY <1>1 DEF Sound
<1>3. PICK b \in Buckets : b = bkt
  BY DEF Typed, TypeOK, CallTypeOK
<1> DEFINE s == chain[b]
           n == Len(s)
           w == Without(s, s[n])
<1>4. /\ s \in Seq(Addrs) /\ n \in Nat /\ DOMAIN s = 1..n
      /\ chain \in [Buckets -> Seq(Addrs)] /\ mem \in [Addrs -> Node \cup {NULL}]
  BY DEF Typed, TypeOK, HeapTypeOK
<1>5. n # 0 /\ cur = s[n]
  BY <1>1, <1>2, <1>3 DEF Flushing, LastOf
<1>6. n \in 1..n
  <2> HIDE DEF n
  <2> QED
    BY <1>4, <1>5
<1>7. w \in Seq(Addrs) /\ Len(w) = n - 1 /\ \A j \in 1..(n - 1) : w[j] = s[j]
  <2>1. s \in Seq(Addrs) /\ OneToOne(s)
    BY <1>2, <1>4 DEF OneToOne, Disjoint
  <2>2. w = Without(s, s[n])
    OBVIOUS
  <2> HIDE DEF s, w
  <2>3. /\ w \in Seq(Addrs) /\ Len(w) = n - 1
        /\ \A j \in 1..(n - 1) : w[j] = IF j < n THEN s[j] ELSE s[j + 1]
    BY <1>6, <2>1, <2>2, WithoutAt
  <2> HIDE DEF n
  <2> QED
    BY <1>4, <2>3
<1>8. chain' = [chain EXCEPT ![b] = w] /\ chain'[b] = w
      /\ \A c \in Buckets \ {b} : chain'[c] = chain[c]
  BY <1>1, <1>3, <1>4, <1>5
<1>9. cur \in Addrs /\ mem'[cur] = NULL /\ \A x \in Addrs \ {cur} : mem'[x] = mem[x]
  BY <1>1, <1>4, <1>5, <1>6
<1>10. Accounted' /\ Disjoint'
  <2>1. \A x \in Addrs : Free(x)' <=> Free(x) \/ x = chain[b][n]
    BY <1>5, <1>9 DEF Free
  <2>2. chain' = [chain EXCEPT ![b] = Without(chain[b], chain[b][n])]
    BY <1>8
  <2> QED
    BY <1>2, <1>6, <2>1, <2>2, ChainWithout DEF Typed
<1>11. \A c \in Buckets : /\ BackwardOK(c) /\ chain[c] \in Seq(Addrs)
                          /\ DOMAIN chain[c] = 1..Len(chain[c])
  BY <1>2, <1>4 DEF Flushing
<1>12. ASSUME NEW c \in Buckets \ {b}
       PROVE  BackwardOK(c)'
  <2> DEFINE cs == chain[c]
  <2>1. ASSUME NEW i \in DOMAIN cs
        PROVE  mem'[cs[i]] = mem[cs[i]]
    <3>1. cs[i] # cur
      BY <1>2, <1>4, <1>5, <1>6 DEF Disjoint
    <3> QED
      BY <1>9, <1>11, <3>1
  <2>2. \A i \in DOMAIN cs :
          /\ mem'[cs[i]] # NULL
          /\ mem'[cs[i]].prev = IF i = 1 THEN NULL ELSE cs[i - 1]
          /\ Hash[mem'[cs[i]].key] = c
    BY <1>11, <2>1 DEF BackwardOK, Free
  <2>3. chain'[c] = cs
    BY <1>8
  <2> HIDE DEF cs
  <2> QED
    BY <2>2, <2>3 DEF BackwardOK, Free
<1>13. BackwardOK(b)'
  <2>1. ASSUME NEW i \in 1..(n - 1)
        PROVE  /\ mem'[w[i]] # NULL
               /\ mem'[w[i]].prev = IF i = 1 THEN NULL ELSE w[i - 1]
               /\ Hash[mem'[w[i]].key] = b
    <3>1. i \in 1..n /\ i # n /\ (i = 1 \/ i - 1 \in 1..(n - 1))
      <4> HIDE DEF n
      <4> QED
        BY <1>4
    <3>2. s[i] # cur /\ s[i] \in Addrs
      <4>1. \A j \in 1..n : s[j] \in Addrs
        BY <1>4
      <4>2. OneToOne(s)
        BY <1>2, <1>4 DEF OneToOne, Disjoint
      <4> HIDE DEF s
      <4>3. \A j, k \in 1..n : s[j] = s[k] => j = k
        BY <4>2 DEF OneToOne
      <4> HIDE DEF n
      <4> QED
        BY <1>5, <1>6, <3>1, <4>1, <4>3
    <3>3. /\ mem[s[i]] # NULL /\ Hash[mem[s[i]].key] = b
          /\ mem[s[i]].prev = IF i = 1 THEN NULL ELSE s[i - 1]
      <4>1. \A j \in DOMAIN s : /\ mem[s[j]] # NULL /\ Hash[mem[s[j]].key] = b
                                /\ mem[s[j]].prev = IF j = 1 THEN NULL ELSE s[j - 1]
        BY <1>11 DEF BackwardOK, Free
      <4> HIDE DEF s
      <4> QED
        BY <1>4, <3>1, <4>1
    <3> HIDE DEF w, s, n
    <3> QED
      BY <1>7, <1>9, <3>1, <3>2, <3>3
  <2>2. DOMAIN w = 1..(n - 1)
    <3> HIDE DEF w, n
    <3> QED
      BY <1>7
  <2>3. \A i \in DOMAIN w :
          /\ mem'[w[i]] # NULL
          /\ mem'[w[i]].prev = IF i = 1 THEN NULL ELSE w[i - 1]
          /\ Hash[mem'[w[i]].key] = b
    <3> HIDE DEF w, n
    <3> QED
      BY <2>1, <2>2
  <2>4. chain'[b] = w
    BY <1>8
  <2> HIDE DEF w, n, s
  <2> QED
    BY <2>3, <2>4 DEF BackwardOK, Free
<1>14. cur' = LastOf(w)
  <2>1. mem[s[n]].prev = IF n = 1 THEN NULL ELSE s[n - 1]
    BY <1>4, <1>6, <1>11 DEF BackwardOK
  <2>2. n = 1 \/ n - 1 \in 1..(n - 1)
    <3> HIDE DEF n
    <3> QED
      BY <1>4, <1>6
  <2>3. cur' = mem[s[n]].prev
    BY <1>1, <1>5
  <2> HIDE DEF w, n, s
  <2> QED
    BY <1>4, <1>7, <2>1, <2>2, <2>3 DEF LastOf
<1>15. Flushing'
  <2>1. bkt' = b /\ lists' = lists
    BY <1>1, <1>3
  <2>2. \A c \in Buckets : c < b => chain'[c] = <<>>
    BY <1>2, <1>3, <1>8 DEF Flushing
  <2>3. ASSUME NEW c \in Buckets, c > b
        PROVE  lists[c].tail = LastOf(chain'[c])
    <3>1. c # b
      BY <2>3 DEF Buckets
    <3>2. chain'[c] = chain[c]
      BY <1>8, <3>1
    <3>3. lists[c].tail = LastOf(chain[c])
      BY <1>2, <1>3, <2>3 DEF Flushing
    <3> QED
      BY <3>2, <3>3
  <2>4. cur' = LastOf(chain'[b])
    BY <1>8, <1>14
  <2>5. \A c \in Buckets : BackwardOK(c)'
    BY <1>12, <1>13
  <2> QED
    BY <2>1, <2>2, <2>3, <2>4, <2>5 DEF Flushing
<1> QED
  BY <1>1, <1>10, <1>15 DEF Sound

LEMMA SoundFlushBucket ==
  ASSUME Typed, Sound, ~stale, flushBucket
  PROVE  Sound'
<1>1. /\ pc = "flush" /\ cur = NULL /\ bkt' = bkt + 1 /\ cur' = lists[bkt + 1].tail
      /\ bkt \in 1..NBuckets /\ bkt < NBuckets /\ NBuckets \in Nat
      /\ UNCHANGED <<heapVars, pc>>
  BY DictAssumption DEF flushBucket, Typed, TypeOK, CallTypeOK, Buckets
<1>2. Accounted /\ Disjoint /\ Flushing
  BY <1>1 DEF Sound
<1>3. Accounted' /\ Disjoint' /\ \A b \in Buckets : BackwardOK(b)'
  BY <1>1, <1>2, SameLists DEF Flushing, BackwardOK, Free, heapVars
<1>4. chain' = chain /\ lists' = lists /\ stale' = stale
  BY <1>1 DEF heapVars
<1>5. bkt + 1 \in Buckets /\ bkt + 1 > bkt
  BY <1>1 DEF Buckets
<1>6. cur' = LastOf(chain[bkt + 1])
  BY <1>1, <1>2, <1>5 DEF Flushing
<1>7. chain[bkt] = <<>>
  <2>1. chain[bkt] \in Seq(Addrs)
    BY DEF Typed, TypeOK, HeapTypeOK, CallTypeOK
  <2>2. LastOf(chain[bkt]) = NULL
    BY <1>1, <1>2 DEF Flushing
  <2> QED
    BY <2>1, <2>2, DictAssumption DEF LastOf
<1>8. ASSUME NEW b \in Buckets
      PROVE  /\ b < bkt + 1 => chain[b] = <<>>
             /\ b > bkt + 1 => lists[b].tail = LastOf(chain[b])
  <2>1. b < bkt + 1 => b < bkt \/ b = bkt
    BY <1>1 DEF Buckets
  <2>2. b > bkt + 1 => b > bkt
    BY <1>1 DEF Buckets
  <2> QED
    BY <1>2, <1>7, <2>1, <2>2 DEF Flushing
<1>9. Flushing'
  BY <1>1, <1>3, <1>4, <1>6, <1>8 DEF Flushing
<1> QED
  BY <1>1, <1>3, <1>9 DEF Sound

LEMMA SoundFlushDone ==
  ASSUME Typed, Sound, ~stale, flushDone
  PROVE  Sound'
<1>1. /\ pc = "flush" /\ cur = NULL /\ bkt = NBuckets /\ Answer(OK)
      /\ lists' = [b \in Buckets |-> [head |-> NULL, tail |-> NULL, size |-> 0]]
      /\ chain' = [b \in Buckets |-> <<>>]
      /\ mem' = mem
  BY DEF flushDone
<1>2. Accounted /\ Flushing
  BY <1>1 DEF Sound
<1>3. chain[bkt] = <<>>
  <2>1. chain[bkt] \in Seq(Addrs)
    BY DEF Typed, TypeOK, HeapTypeOK, CallTypeOK
  <2>2. LastOf(chain[bkt]) = NULL
    BY <1>1, <1>2 DEF Flushing
  <2> QED
    BY <2>1, <2>2, DictAssumption DEF LastOf
<1>4. ASSUME NEW b \in Buckets PROVE chain[b] = <<>>
  <2>1. b < bkt \/ b = bkt
    BY <1>1, DictAssumption DEF Buckets
  <2> QED
    BY <1>2, <1>3, <2>1 DEF Flushing
<1>5. \A a \in Addrs : mem[a] = NULL
  BY <1>2, <1>4 DEF Accounted, Free
<1>6. Shape'
  <2>1. \A b \in Buckets : BackwardOK(b)'
    BY <1>1 DEF BackwardOK
  <2>2. \A b \in Buckets : ListOK(b)'
    BY <1>1 DEF ListOK
  <2> QED
    BY <2>1, <2>2 DEF Shape
<1>7. Accounted' /\ Disjoint'
  BY <1>1, <1>5 DEF Accounted, Disjoint, Free
<1> QED
  BY <1>1, <1>6, <1>7, SoundAnswer

-----------------------------------------------------------------------------
(* No freed node is reached                                                *)

(* The node freeLinkedList stands on is allocated.                         *)
LEMMA FlushAt ==
  ASSUME Typed, Sound, ~stale, pc = "flush", cur # NULL
  PROVE  ~Free(cur)
<1>1. Flushing /\ bkt \in Buckets /\ chain[bkt] \in Seq(Addrs)
  BY DEF Sound, Typed, TypeOK, HeapTypeOK, CallTypeOK
<1>2. BackwardOK(bkt) /\ cur = LastOf(chain[bkt])
  BY <1>1 DEF Flushing
<1>3. Len(chain[bkt]) \in DOMAIN chain[bkt] /\ cur = chain[bkt][Len(chain[bkt])]
  BY <1>1, <1>2 DEF LastOf
<1> QED
  BY <1>2, <1>3 DEF BackwardOK

(* The tail of a list that is not empty is allocated.                      *)
LEMMA TailAllocated ==
  ASSUME TypeOK, Shape, NEW b \in Buckets, lists[b].head # NULL
  PROVE  lists[b].tail \in Addrs /\ ~Free(lists[b].tail)
<1>1. chain[b] \in Seq(Addrs) /\ BackwardOK(b) /\ ListOK(b)
  BY DEF TypeOK, HeapTypeOK, Shape
<1>2. Len(chain[b]) # 0 /\ lists[b].tail = chain[b][Len(chain[b])]
  BY <1>1 DEF ListOK
<1>3. Len(chain[b]) \in DOMAIN chain[b]
  BY <1>1, <1>2
<1> QED
  BY <1>1, <1>2, <1>3 DEF BackwardOK

LEMMA NoReadFreed ==
  ASSUME Typed, Sound, ~stale
  PROVE  ~readFreed
<1> SUFFICES ASSUME readFreed PROVE FALSE
  OBVIOUS
<1>1. pc \in {"find", "flush"} /\ cur # NULL /\ Free(cur)
  BY DEF readFreed
<1> QED
  BY <1>1, WalkAt, FlushAt

LEMMA NoWriteFreed ==
  ASSUME Typed, Sound, ~stale
  PROVE  ~writeFreed
<1> SUFFICES ASSUME writeFreed PROVE FALSE
  OBVIOUS
<1>1. \/ At /\ ~Touchable(Neighbours(lists[Hash[key]], cur))
      \/ pc \in {"find", "load"} /\ AddIsUndefined(mem, key)
  BY DEF writeFreed, Missed
<1>2. CASE At /\ ~Touchable(Neighbours(lists[Hash[key]], cur))
  <2>1. pc = "find" /\ cur # NULL
    BY <1>2 DEF At
  <2>2. PICK p \in 1..Len(chain[Hash[key]]) : cur = chain[Hash[key]][p]
    BY <2>1, WalkAt
  <2>3. /\ Hash[key] \in Buckets /\ BackwardOK(Hash[key]) /\ ListOK(Hash[key])
        /\ chain[Hash[key]] \in Seq(Addrs) /\ Disjoint
    BY <2>1, WalkAt DEF Sound, Typed, TypeOK, HeapTypeOK
  <2>4. ASSUME NEW x \in Neighbours(lists[Hash[key]], cur)
        PROVE  x # NULL /\ ~Free(x)
    <3>1. OneToOne(chain[Hash[key]])
      BY <2>3 DEF OneToOne, Disjoint
    <3>2. TypeOK
      BY DEF Typed
    <3>3. PICK b \in Buckets : b = Hash[key]
      BY <2>3
    <3>4. /\ BackwardOK(b) /\ ListOK(b) /\ OneToOne(chain[b]) /\ p \in 1..Len(chain[b])
          /\ x \in Neighbours(lists[b], chain[b][p])
      BY <2>2, <2>3, <2>4, <3>1, <3>3
    <3>5. /\ \A i \in 1..Len(chain[b]) : chain[b][i] \in Addrs /\ mem[chain[b][i]] \in Node
          /\ \A y \in Neighbours(lists[b], chain[b][p]) : \E i \in 1..Len(chain[b]) : y = chain[b][i]
      BY <3>2, <3>4, NeighboursAt
    <3>6. PICK i \in 1..Len(chain[b]) : x = chain[b][i]
      BY <3>4, <3>5
    <3> QED
      BY <3>5, <3>6, DictAssumption DEF Free
  <2> QED
    BY <1>2, <2>4 DEF Touchable
<1>3. CASE pc \in {"find", "load"} /\ AddIsUndefined(mem, key)
  <2>1. key \in Keys /\ Hash[key] \in Buckets
    BY <1>3, DictAssumption DEF Typed, Control
  <2>2. Shape
    BY <1>3 DEF Sound
  <2>3. lists[Hash[key]].head # NULL /\ mem[lists[Hash[key]].tail] = NULL
    BY <1>3 DEF AddIsUndefined
  <2> QED
    BY <2>1, <2>2, <2>3, TailAllocated DEF Typed, Free
<1> QED
  BY <1>1, <1>2, <1>3

-----------------------------------------------------------------------------
(* The lists, step by step                                                 *)

LEMMA SoundInit == Init => Sound
<1> SUFFICES ASSUME Init PROVE Sound
  OBVIOUS
<1>1. \A b \in Buckets : chain[b] = <<>> /\ lists[b] = [head |-> NULL, tail |-> NULL, size |-> 0]
  BY DEF Init
<1>2. \A a \in Addrs : Free(a)
  BY DEF Init, Free
<1>3. Shape
  BY <1>1 DEF Shape, BackwardOK, ListOK
<1>4. Accounted /\ Disjoint
  BY <1>1, <1>2 DEF Accounted, Disjoint
<1> QED
  BY <1>3, <1>4 DEF Sound, Init

LEMMA SoundReceive ==
  ASSUME Typed, Sound, ~stale, Receive
  PROVE  Sound'
<1>1. Typed'
  BY TypedReceive
<1>2. ASSUME NEW r, Begin(r)
      PROVE  /\ pc = "idle" /\ UNCHANGED heapVars /\ lists' = lists
             /\ Shape' /\ Accounted' /\ Disjoint'
  <2>1. pc = "idle" /\ UNCHANGED heapVars
    BY <1>2 DEF Begin
  <2>2. Shape /\ Accounted /\ Disjoint
    BY <2>1 DEF Sound
  <2> QED
    BY <2>1, <2>2, SameLists DEF heapVars
<1>3. CASE RecvLookup
  <2>1. PICK r : Begin(r) /\ \E who : Find(who, r.key, lists)
    BY <1>3 DEF RecvLookup
  <2> QED
    BY <1>1, <1>2, <2>1, SoundFind
<1>4. CASE RecvSet
  <2>1. PICK r : Begin(r) /\ (pc' = "refuse" \/ Find("setWithExpiry", r.key, lists))
    BY <1>4 DEF RecvSet
  <2>2. CASE pc' = "refuse"
    BY <1>2, <2>1, <2>2 DEF Sound
  <2> QED
    BY <1>1, <1>2, <2>1, <2>2, SoundFind
<1>5. CASE RecvDel
  <2>1. PICK r : Begin(r) /\ Find("del", Head(r.keys), lists)
    BY <1>5 DEF RecvDel
  <2> QED
    BY <1>1, <1>2, <2>1, SoundFind
<1>6. CASE RecvLoad
  <2>1. PICK r : Begin(r) /\ pc' = "load"
    BY <1>6 DEF RecvLoad
  <2> QED
    BY <1>2, <2>1 DEF Sound
<1> QED
  BY <1>3, <1>4, <1>5, <1>6, SoundRecvFlush DEF Receive

(* What setWithExpiry stores.                                              *)
LEMMA SetFields ==
  ASSUME Typed, pc = "find", caller = "setWithExpiry"
  PROVE  op.val \in Values /\ ExpiryOf(op) \in Nat
<1>1. op \in Requests /\ op.cmd = "SET" /\ since \in Nat
  BY DEF Typed, TypeOK, CallTypeOK, Control
<1>2. op.val \in Strings /\ op.ttl \in Nat
  BY <1>1, RequestFields
<1> QED
  BY <1>1, <1>2, DictAssumption DEF ExpiryOf, Values

(* Outside FLUSHALL every list is well formed.                             *)
LEMMA SoundCall ==
  ASSUME Typed, Sound, ~stale, pc # "flush"
  PROVE  TypeOK /\ Shape /\ Accounted /\ Disjoint
BY DEF Typed, Sound

(* The node a call found, taken out of its list.                           *)
LEMMA RemoveFound ==
  ASSUME Typed, Sound, ~stale, At, Remove
  PROVE  /\ Shape' /\ Accounted' /\ Disjoint'
         /\ mem'[cur] = NULL
         /\ \A x \in Addrs \ {cur} : /\ Free(x)' <=> Free(x)
                                     /\ ~Free(x) => mem'[x].key = mem[x].key
<1>1. pc = "find" /\ cur # NULL
  BY DEF At
<1>2. PICK p \in 1..Len(chain[Hash[key]]) : cur = chain[Hash[key]][p]
  BY <1>1, WalkAt
<1>3. TypeOK /\ Shape /\ Accounted /\ Disjoint /\ key \in Keys /\ Hash[key] \in Buckets
  BY <1>1, SoundCall, DictAssumption DEF Typed, Control
<1> QED
  BY <1>2, <1>3, RemoveKeepsLists

(* The node a call found, with a new value or a new expiry.                *)
LEMMA RelabelFound ==
  ASSUME Typed, Sound, ~stale, At,
         NEW v \in Values, NEW e \in Nat,
         \/ mem' = [mem EXCEPT ![cur].val = v]
         \/ mem' = [mem EXCEPT ![cur].val = v, ![cur].exp = e],
         UNCHANGED <<lists, chain>>
  PROVE  /\ Shape' /\ Accounted' /\ Disjoint'
         /\ \A x \in Addrs : /\ Free(x)' <=> Free(x)
                             /\ mem'[x].key = mem[x].key
<1>1. pc = "find" /\ cur # NULL /\ ~Free(cur) /\ cur \in Addrs /\ mem \in Heap
      /\ mem[cur] \in Node
  BY DEF At, Typed, TypeOK, CallTypeOK, HeapTypeOK, Heap, Free
<1>2. TypeOK /\ Shape /\ Accounted /\ Disjoint
  BY <1>1, SoundCall
<1>3. PICK nd \in Node : /\ mem' = [mem EXCEPT ![cur] = nd] /\ nd.key = mem[cur].key
                         /\ nd.next = mem[cur].next /\ nd.prev = mem[cur].prev
  <2>1. CASE mem' = [mem EXCEPT ![cur].val = v]
    <3> DEFINE nd == [mem[cur] EXCEPT !.val = v]
    <3>1. /\ nd \in Node /\ nd.key = mem[cur].key
          /\ nd.next = mem[cur].next /\ nd.prev = mem[cur].prev
      BY <1>1 DEF Node
    <3>2. mem' = [mem EXCEPT ![cur] = nd]
      BY <1>1, <2>1 DEF Heap
    <3> HIDE DEF nd
    <3> QED
      BY <3>1, <3>2
  <2>2. CASE mem' = [mem EXCEPT ![cur].val = v, ![cur].exp = e]
    <3> DEFINE nd == [mem[cur] EXCEPT !.val = v, !.exp = e]
    <3>1. /\ nd \in Node /\ nd.key = mem[cur].key
          /\ nd.next = mem[cur].next /\ nd.prev = mem[cur].prev
      BY <1>1 DEF Node
    <3>2. mem' = [mem EXCEPT ![cur] = nd]
      BY <1>1, <2>2 DEF Heap
    <3> HIDE DEF nd
    <3> QED
      BY <3>1, <3>2
  <2> QED
    BY <2>1, <2>2
<1>4. Shape' /\ Accounted' /\ Disjoint'
  BY <1>1, <1>2, <1>3, RelabelKeepsLists
<1>5. \A x \in Addrs : (Free(x)' <=> Free(x)) /\ mem'[x].key = mem[x].key
  BY <1>1, <1>3, DictAssumption DEF Free, Heap
<1> QED
  BY <1>4, <1>5

(* stale and dup never become FALSE again.                                 *)
LEMMA HistoryStays ==
  ASSUME Serve
  PROVE  (stale => stale') /\ (dup => dup')
<1>1. CASE setxExpired \/ setFromLoad
  <2>1. /\ stale' = TRUE \/ stale' = stale
        /\ dup' = dup \/ dup' = (dup \/ IsLinked(key))
    BY <1>1 DEF setxExpired, setFromLoad
  <2>2. dup => (dup \/ IsLinked(key)) = TRUE
    OBVIOUS
  <2>3. dup => dup'
    BY <2>1, <2>2
  <2>4. stale => stale'
    BY <2>1
  <2> QED
    BY <2>3, <2>4
<1>2. CASE purgeHit \/ delHit
  BY <1>2 DEF purgeHit, delHit, Remove
<1>3. CASE setHit \/ setMiss \/ setxHit \/ setxMiss \/ flushNode \/ flushDone
  BY <1>3 DEF setHit, setMiss, setxHit, setxMiss, flushNode, flushDone
<1>4. CASE \/ Refuse \/ findNext \/ getHit \/ getExpired \/ getMiss \/ delMiss
           \/ flushBucket \/ readFreed \/ writeFreed
  <2>1. UNCHANGED heapVars
    BY <1>4 DEF Refuse, findNext, getHit, getExpired, getMiss, delMiss, flushBucket, readFreed,
       writeFreed, Undefined
  <2> QED
    BY <2>1 DEF heapVars
<1> QED
  BY <1>1, <1>2, <1>3, <1>4 DEF Serve

LEMMA SoundServe ==
  ASSUME Typed, Sound, ~stale', Serve
  PROVE  Sound'
<1>1. Typed' /\ ~stale
  BY TypedServe, HistoryStays
<1>2. pc # "flush" => TypeOK /\ Shape /\ Accounted /\ Disjoint
  BY <1>1, SoundCall
<1>3. ASSUME pc # "flush", UNCHANGED <<mem, lists, chain>>
      PROVE  Shape' /\ Accounted' /\ Disjoint' /\ lists' = lists
  BY <1>2, <1>3 DEF Shape, BackwardOK, ListOK, Accounted, Disjoint, Free
<1>4. ASSUME pc \in {"find", "load"}, NEW v \in Values, NEW e \in Nat, Add(mem, key, v, e)
      PROVE  Shape' /\ Accounted' /\ Disjoint'
  <2>1. key \in Keys
    BY <1>4 DEF Typed, Control
  <2> QED
    BY <1>1, <1>2, <1>4, <2>1, AddKeepsLists
<1>5. CASE Refuse
  BY <1>3, <1>5, SoundAnswer DEF Refuse, heapVars
<1>6. CASE findNext
  BY <1>1, <1>6, SoundFindNext
<1>7. CASE getHit
  <2>1. pc = "find" /\ UNCHANGED <<mem, lists, chain>> /\ \E r : Answer(r)
    BY <1>7 DEF getHit, At, heapVars
  <2> QED
    BY <1>3, <2>1, SoundAnswer
<1>8. CASE getExpired
  <2>1. pc = "find" /\ UNCHANGED <<mem, lists, chain>> /\ Find("purge", key, lists)
    BY <1>8 DEF getExpired, At, heapVars
  <2> QED
    BY <1>1, <1>3, <2>1, SoundFind
<1>9. CASE getMiss
  <2>1. pc = "find" /\ UNCHANGED <<mem, lists, chain>> /\ gotNull(lists)
    BY <1>9 DEF getMiss, Missed, heapVars
  <2> QED
    BY <1>1, <1>3, <2>1, SoundGotNull
<1>10. CASE purgeHit
  BY <1>1, <1>10, RemoveFound, SoundGotNull DEF purgeHit
<1>11. CASE setHit
  <2>1. At /\ UNCHANGED <<lists, chain>> /\ Answer(OK)
        /\ mem' = [mem EXCEPT ![cur].val = ObjectOf(op)]
    BY <1>11 DEF setHit
  <2>2. ObjectOf(op) \in Values /\ 0 \in Nat
    BY ObjectType
  <2> QED
    BY <1>1, <2>1, <2>2, RelabelFound, SoundAnswer
<1>12. CASE setMiss
  <2>1. /\ pc = "find" /\ Add(mem, key, ObjectOf(op), DefaultExpiry)
        /\ Find("del", key, lists') \/ Answer(OK)
    BY <1>12 DEF setMiss, Missed
  <2>2. ObjectOf(op) \in Values /\ DefaultExpiry \in Nat
    BY ObjectType, DictAssumption
  <2> QED
    BY <1>1, <1>4, <2>1, <2>2, SoundFind, SoundAnswer
<1>13. CASE setxHit
  <2>1. /\ At /\ pc = "find" /\ caller = "setWithExpiry" /\ UNCHANGED <<lists, chain>>
        /\ \E r : Answer(r)
        /\ \/ UNCHANGED mem
           \/ mem' = [mem EXCEPT ![cur].val = op.val, ![cur].exp = ExpiryOf(op)]
    BY <1>13 DEF setxHit, At
  <2>2. op.val \in Values /\ ExpiryOf(op) \in Nat
    BY <2>1, SetFields
  <2>3. CASE UNCHANGED mem
    BY <1>3, <2>1, <2>3, SoundAnswer
  <2>4. CASE mem' = [mem EXCEPT ![cur].val = op.val, ![cur].exp = ExpiryOf(op)]
    BY <1>1, <2>1, <2>2, <2>4, RelabelFound, SoundAnswer
  <2> QED
    BY <2>1, <2>3, <2>4
<1>14. CASE setxMiss
  <2>1. /\ pc = "find" /\ caller = "setWithExpiry"
        /\ \E r : Answer(r)
        /\ UNCHANGED <<mem, lists, chain>> \/ Add(mem, key, op.val, ExpiryOf(op))
    BY <1>14 DEF setxMiss, Missed
  <2>2. op.val \in Values /\ ExpiryOf(op) \in Nat
    BY <2>1, SetFields
  <2> QED
    BY <1>3, <1>4, <2>1, <2>2, SoundAnswer
<1>15. CASE setxExpired
  BY <1>15 DEF setxExpired
<1>16. CASE setFromLoad
  <2>1. /\ pc = "load" /\ Answer(OK)
        /\ UNCHANGED <<mem, lists, chain>> \/ Add(mem, key, op.val, op.exp)
    BY <1>16 DEF setFromLoad
  <2>2. op.val \in Values /\ op.exp \in Nat
    BY <2>1, RequestFields DEF Typed, Control, TypeOK, CallTypeOK, Values
  <2> QED
    BY <1>3, <1>4, <2>1, <2>2, SoundAnswer
<1>17. CASE delHit
  <2>1. At /\ Remove /\ \E n : delNext(n, lists')
    BY <1>17 DEF delHit
  <2> QED
    BY <1>1, <2>1, RemoveFound, SoundDelNext
<1>18. CASE delMiss
  <2>1. pc = "find" /\ UNCHANGED <<mem, lists, chain>> /\ delNext(count, lists)
    BY <1>18 DEF delMiss, Missed, heapVars
  <2> QED
    BY <1>1, <1>3, <2>1, SoundDelNext
<1> QED
  BY <1>1, <1>5, <1>6, <1>7, <1>8, <1>9, <1>10, <1>11, <1>12, <1>13, <1>14, <1>15, <1>16,
     <1>17, <1>18, SoundFlushNode, SoundFlushBucket, SoundFlushDone, NoReadFreed, NoWriteFreed
     DEF Serve

LEMMA SoundTick == Sound /\ (Tick \/ UNCHANGED vars) => Sound'
<1> SUFFICES ASSUME Sound, Tick \/ UNCHANGED vars PROVE Sound'
  OBVIOUS
<1>1. UNCHANGED <<heapVars, callVars>>
  BY DEF Tick, vars, callVars
<1>2. UNCHANGED heapVars /\ UNCHANGED <<mem, lists, chain, stale, pc, key, cur, bkt>>
  BY <1>1 DEF heapVars, callVars
<1>3. Flushing => Flushing'
  BY <1>2 DEF Flushing, BackwardOK, Free
<1>4. Walking => Walking'
  BY <1>2 DEF Walking
<1> QED
  BY <1>2, <1>3, <1>4, SameLists DEF Sound

Inv == Typed /\ Sound

LEMMA Inductive == Inv /\ [Next]_vars => Inv'
<1> SUFFICES ASSUME Typed, Sound, [Next]_vars PROVE Typed' /\ Sound'
  BY DEF Inv
<1>1. Typed'
  BY TypedReceive, TypedServe, TypedTick DEF Next
<1>2. CASE stale'
  BY <1>1, <1>2 DEF Sound
<1>3. CASE ~stale'
  <2>1. CASE Receive
    <3>1. ~stale
      BY <1>3, <2>1 DEF Receive, RecvLookup, RecvSet, RecvDel, RecvFlush, RecvLoad, Begin, heapVars
    <3> QED
      BY <1>1, <2>1, <3>1, SoundReceive
  <2>2. CASE Serve
    BY <1>1, <1>3, <2>2, SoundServe
  <2> QED
    BY <1>1, <2>1, <2>2, SoundTick DEF Next
<1> QED
  BY <1>2, <1>3

LEMMA Invariant == Spec => []Inv
<1>1. Init => Inv
  BY TypedInit, SoundInit DEF Inv
<1> QED
  BY <1>1, Inductive, PTL DEF Spec

-----------------------------------------------------------------------------
(* The properties                                                          *)

(* The pointers of every bucket spell one sequence of distinct nodes, in   *)
(* both directions, at every step of every call, until a SET meets an      *)
(* expired node (linkedlist.c:34-77).                                      *)
THEOREM ListsStayWellFormed == Spec => []ListsWellFormed
<1>1. Inv => ListsWellFormed
  BY DEF Inv, Sound, Shape, Flushing, ListsWellFormed
<1> QED
  BY Invariant, <1>1, PTL

(* No call leaks a node and none links a node twice.                       *)
THEOREM NodesStayAccounted == Spec => []NodesAccounted
<1>1. Inv => NodesAccounted
  <2> SUFFICES ASSUME Inv, ~stale PROVE NodesAccounted
    BY DEF NodesAccounted
  <2>1. Accounted /\ Disjoint /\ TypeOK
    BY DEF Inv, Sound, Typed
  <2>2. \A b \in Buckets : Elems(chain[b]) \subseteq Addrs
    BY <2>1 DEF TypeOK, HeapTypeOK, Elems
  <2>3. \A a \in Addrs : ~Free(a) <=> \E b \in Buckets : a \in Elems(chain[b])
    BY <2>1 DEF Accounted, Elems
  <2>4. {a \in Addrs : ~Free(a)} = UNION {Elems(chain[b]) : b \in Buckets}
    BY <2>2, <2>3
  <2> QED
    BY <2>1, <2>4 DEF NodesAccounted, Disjoint
<1> QED
  BY Invariant, <1>1, PTL

(* No step reads or writes a freed node before a SET has met an expired    *)
(* one: findNode, removeNodeFromList, addNodeToList and freeLinkedList     *)
(* only ever follow pointers to allocated nodes.                           *)
THEOREM FreedNodesAreNotReached == Spec => []UndefinedOnlyAfterStale
<1>1. Inv => UndefinedOnlyAfterStale
  BY DEF Inv, Sound, UndefinedOnlyAfterStale
<1> QED
  BY Invariant, <1>1, PTL

-----------------------------------------------------------------------------
(* One node for each key                                                   *)

Unique == \A a, c \in Addrs : ~Free(a) /\ ~Free(c) /\ mem[a].key = mem[c].key => a = c

LEMMA UniqueKept ==
  ASSUME Unique, \A x \in Addrs : ~Free(x)' => ~Free(x) /\ mem'[x].key = mem[x].key
  PROVE  Unique'
BY DEF Unique

LEMMA UniqueAdd ==
  ASSUME Inv, ~stale, pc \in {"find", "load"}, Unique, ~IsLinked(key),
         NEW v \in Values, NEW e \in Nat, Add(mem, key, v, e)
  PROVE  Unique'
<1>1. key \in Keys /\ Typed /\ Sound /\ pc # "flush"
  BY DEF Inv, Typed, Control
<1>2. TypeOK /\ Shape /\ Accounted /\ Disjoint
  BY <1>1, SoundCall
<1>3. PICK a \in Addrs : /\ mem'[a].key = key
                         /\ \A x \in Addrs \ {a} :
                              ~Free(x)' => ~Free(x) /\ mem'[x].key = mem[x].key
  BY <1>1, <1>2, AddKeepsLists
<1>4. \A x \in Addrs \ {a} : ~Free(x)' => mem'[x].key # key
  BY <1>3 DEF IsLinked
<1> QED
  BY <1>3, <1>4 DEF Unique

LEMMA UniqueServe ==
  ASSUME Inv, KeysUnique, ~stale', ~dup', Serve
  PROVE  Unique'
<1>1. Typed /\ Sound /\ ~stale /\ ~dup
  <2>1. Typed /\ Sound
    BY DEF Inv
  <2>2. (stale => stale') /\ (dup => dup')
    BY HistoryStays
  <2> QED
    BY <2>1, <2>2
<1>2. Unique
  BY <1>1 DEF KeysUnique, Unique
<1>3. ASSUME UNCHANGED mem PROVE Unique'
  BY <1>2, <1>3 DEF Unique, Free
<1>4. CASE purgeHit \/ delHit
  <2>1. At /\ Remove
    BY <1>4 DEF purgeHit, delHit
  <2>2. /\ mem'[cur] = NULL
        /\ \A x \in Addrs \ {cur} : /\ Free(x)' <=> Free(x)
                                    /\ ~Free(x) => mem'[x].key = mem[x].key
    BY <1>1, <2>1, RemoveFound
  <2>3. ASSUME NEW x \in Addrs, mem'[x] # NULL
        PROVE  ~Free(x) /\ mem'[x].key = mem[x].key
    <3>1. x # cur
      BY <2>2, <2>3
    <3> QED
      BY <2>2, <2>3, <3>1 DEF Free
  <2> QED
    BY <1>2, <2>3, UniqueKept DEF Free
<1>5. CASE setHit \/ setxHit
  <2>1. CASE UNCHANGED mem
    BY <1>3, <2>1
  <2>2. CASE mem' # mem
    <3>1. /\ At /\ UNCHANGED <<lists, chain>>
          /\ \E v \in Values, e \in Nat : \/ mem' = [mem EXCEPT ![cur].val = v]
                                          \/ mem' = [mem EXCEPT ![cur].val = v, ![cur].exp = e]
      <4>1. CASE setHit
        BY <4>1, ObjectType DEF setHit
      <4>2. CASE setxHit
        <5>1. At /\ pc = "find" /\ caller = "setWithExpiry" /\ UNCHANGED <<lists, chain>>
              /\ mem' = [mem EXCEPT ![cur].val = op.val, ![cur].exp = ExpiryOf(op)]
          BY <2>2, <4>2 DEF setxHit, At
        <5>2. op.val \in Values /\ ExpiryOf(op) \in Nat
          BY <1>1, <5>1, SetFields
        <5> QED
          BY <5>1, <5>2
      <4> QED
        BY <1>5, <4>1, <4>2
    <3>2. \A x \in Addrs : (Free(x)' <=> Free(x)) /\ mem'[x].key = mem[x].key
      BY <1>1, <3>1, RelabelFound
    <3> QED
      BY <1>2, <3>2, UniqueKept
  <2> QED
    BY <2>1, <2>2
<1>6. CASE setMiss
  <2>1. Missed /\ pc = "find" /\ Add(mem, key, ObjectOf(op), DefaultExpiry)
    BY <1>6 DEF setMiss, Missed
  <2>2. ~IsLinked(key) /\ ObjectOf(op) \in Values /\ DefaultExpiry \in Nat
    BY <1>1, <2>1, WalkMissed, ObjectType, DictAssumption
  <2> QED
    BY <1>1, <1>2, <2>1, <2>2, UniqueAdd
<1>7. CASE setxMiss
  <2>1. /\ Missed /\ pc = "find" /\ caller = "setWithExpiry"
        /\ UNCHANGED mem \/ Add(mem, key, op.val, ExpiryOf(op))
    BY <1>7 DEF setxMiss, Missed
  <2>2. ~IsLinked(key) /\ op.val \in Values /\ ExpiryOf(op) \in Nat
    BY <1>1, <2>1, WalkMissed, SetFields
  <2> QED
    BY <1>1, <1>2, <1>3, <2>1, <2>2, UniqueAdd
<1>8. CASE setFromLoad
  <2>1. /\ pc = "load"
        /\ UNCHANGED mem \/ (Add(mem, key, op.val, op.exp) /\ ~IsLinked(key))
    BY <1>8 DEF setFromLoad
  <2>2. op.val \in Values /\ op.exp \in Nat
    BY <1>1, <2>1, RequestFields DEF Typed, Control, TypeOK, CallTypeOK, Values
  <2> QED
    BY <1>1, <1>2, <1>3, <2>1, <2>2, UniqueAdd
<1>9. CASE flushNode
  <2>1. mem' = [mem EXCEPT ![cur] = NULL] /\ mem \in [Addrs -> Node \cup {NULL}]
    BY <1>1, <1>9 DEF flushNode, Typed, TypeOK, HeapTypeOK
  <2>2. \A x \in Addrs : ~Free(x)' => ~Free(x) /\ mem'[x].key = mem[x].key
    BY <2>1 DEF Free
  <2> QED
    BY <1>2, <2>2, UniqueKept
<1>10. CASE setxExpired
  BY <1>10 DEF setxExpired
<1>11. CASE \/ Refuse \/ findNext \/ getHit \/ getExpired \/ getMiss \/ delMiss
            \/ flushBucket \/ flushDone \/ readFreed \/ writeFreed
  <2>1. UNCHANGED mem
    BY <1>11 DEF Refuse, findNext, getHit, getExpired, getMiss, delMiss, flushBucket, flushDone,
       readFreed, writeFreed, Undefined, heapVars
  <2> QED
    BY <1>3, <2>1
<1> QED
  BY <1>4, <1>5, <1>6, <1>7, <1>8, <1>9, <1>10, <1>11 DEF Serve

(* Two nodes never have one key: set and setWithExpiry add a node only     *)
(* where their own walk has shown the key absent, and nothing is added     *)
(* between the end of that walk and the insertion.                         *)
THEOREM KeysStayUnique == Spec => []KeysUnique
<1>1. Init => KeysUnique
  BY DEF Init, KeysUnique, Free
<1>2. Inv /\ KeysUnique /\ [Next]_vars => KeysUnique'
  <2> SUFFICES ASSUME Inv, KeysUnique, [Next]_vars, ~stale', ~dup' PROVE Unique'
    BY DEF KeysUnique, Unique
  <2>1. CASE Serve
    BY <2>1, UniqueServe
  <2>2. CASE Receive \/ Tick \/ UNCHANGED vars
    <3>1. UNCHANGED heapVars
      BY <2>2 DEF Receive, RecvLookup, RecvSet, RecvDel, RecvFlush, RecvLoad, Begin, Tick, vars
    <3> QED
      BY <3>1 DEF KeysUnique, Unique, Free, heapVars
  <2> QED
    BY <2>1, <2>2 DEF Next
<1> QED
  BY Invariant, <1>1, <1>2, PTL DEF Spec

-----------------------------------------------------------------------------
(* What the primitives do to the objects stored                            *)

(* A node that holds the same object in the heaps m and w, or is free in   *)
(* both; its links may differ.                                             *)
SameObject(m, w, x) ==
  /\ w[x] = NULL <=> m[x] = NULL
  /\ m[x] # NULL => w[x].key = m[x].key /\ w[x].val = m[x].val /\ w[x].exp = m[x].exp

Kept(x) == SameObject(mem, mem', x)

(* The step turns the heap m into one with a new node at a.                *)
Stored(m, a, k, v, e) ==
  /\ m[a] = NULL
  /\ mem'[a] # NULL /\ mem'[a].key = k /\ mem'[a].val = v /\ mem'[a].exp = e
  /\ \A x \in Addrs \ {a} : SameObject(m, mem', x)

LEMMA KeptSame ==
  ASSUME UNCHANGED mem
  PROVE  \A x \in Addrs : Kept(x)
BY DEF Kept, SameObject

(* addNodeToList links nodes and relabels none.                            *)
LEMMA LinkedObjects ==
  ASSUME NEW m \in Heap, NEW l \in List, NEW a \in Addrs, m[a] \in Node,
         l.head # NULL => l.tail \in Addrs /\ m[l.tail] \in Node
  PROVE  \A x \in Addrs : SameObject(m, Linked(m, l, a), x)
<1>1. CASE l.head = NULL
  BY <1>1 DEF Linked, SameObject
<1>2. CASE l.head # NULL
  <2> DEFINE t == [m[l.tail] EXCEPT !.next = a]
             m1 == [m EXCEPT ![l.tail] = t]
             n == [m1[a] EXCEPT !.prev = l.tail]
  <2>1. l.tail \in Addrs /\ m[l.tail] \in Node
    BY <1>2
  <2>2. t \in Node /\ t.key = m[l.tail].key /\ t.val = m[l.tail].val /\ t.exp = m[l.tail].exp
    BY <2>1, RelinkedFields
  <2>3. /\ m1 \in Heap /\ m1[a] \in Node
        /\ \A x \in Addrs : SameObject(m, m1, x)
    <3> HIDE DEF t
    <3> QED
      BY <2>1, <2>2, DictAssumption DEF Heap, SameObject
  <2>4. n \in Node /\ n.key = m1[a].key /\ n.val = m1[a].val /\ n.exp = m1[a].exp
    <3> HIDE DEF m1
    <3> QED
      BY <2>1, <2>3, RelinkedFields
  <2>5. Linked(m, l, a) = [m1 EXCEPT ![a] = n]
    BY <1>2 DEF Linked
  <2>6. \A x \in Addrs : SameObject(m1, [m1 EXCEPT ![a] = n], x)
    <3> HIDE DEF m1, n
    <3> QED
      BY <2>3, <2>4, DictAssumption DEF Heap, SameObject
  <2> HIDE DEF m1, n
  <2> QED
    BY <2>3, <2>5, <2>6 DEF SameObject
<1> QED
  BY <1>1, <1>2

(* newNode and addNodeToList in a heap m that holds what mem holds, but    *)
(* perhaps for a node that is free in m.                                   *)
LEMMA AddStores ==
  ASSUME TypeOK, Shape, NEW m \in Heap, \A x \in Addrs : m[x] \in {NULL, mem[x]},
         NEW k \in Keys, NEW v \in Values, NEW e \in Nat, Add(m, k, v, e)
  PROVE  \E a \in Addrs : Stored(m, a, k, v, e)
<1> DEFINE l == lists[Hash[k]]
<1>1. PICK b \in Buckets : b = Hash[k]
  BY DictAssumption
<1>2. mem \in Heap /\ l \in List
  BY <1>1 DEF TypeOK, HeapTypeOK, Heap
<1>3. PICK a \in Addrs :
        /\ m[a] = NULL
        /\ l.head # NULL => [m EXCEPT ![a] = newNode(k, v, e)][l.tail] # NULL
        /\ mem' = Linked([m EXCEPT ![a] = newNode(k, v, e)], l, a)
  BY DEF Add
<1> DEFINE m1 == [m EXCEPT ![a] = newNode(k, v, e)]
<1>4. /\ newNode(k, v, e) \in Node /\ newNode(k, v, e).key = k
      /\ newNode(k, v, e).val = v /\ newNode(k, v, e).exp = e
  BY DEF newNode, Node
<1>5. /\ m1 \in Heap /\ m1[a] = newNode(k, v, e)
      /\ \A x \in Addrs \ {a} : m1[x] = m[x]
  BY <1>4 DEF Heap
<1>6. l.head # NULL => l.tail \in Addrs /\ m1[l.tail] \in Node
  <2>1. l.head # NULL => l.tail \in Addrs
    BY <1>1, TailAllocated
  <2> QED
    BY <1>3, <1>5, <2>1 DEF Heap
<1>7. \A x \in Addrs : SameObject(m1, mem', x)
  <2>1. mem' = Linked(m1, l, a) /\ m1[a] \in Node
    BY <1>3, <1>4, <1>5
  <2> HIDE DEF m1, l
  <2> QED
    BY <1>2, <1>5, <1>6, <2>1, LinkedObjects
<1>8. /\ mem'[a] # NULL /\ mem'[a].key = k /\ mem'[a].val = v /\ mem'[a].exp = e
  <2>1. SameObject(m1, mem', a) /\ m1[a] # NULL
    BY <1>4, <1>5, <1>7, DictAssumption
  <2> HIDE DEF m1
  <2> QED
    BY <1>4, <1>5, <2>1 DEF SameObject
<1>9. \A x \in Addrs \ {a} : SameObject(m, mem', x)
  <2> HIDE DEF m1
  <2> QED
    BY <1>5, <1>7 DEF SameObject
<1> QED
  BY <1>3, <1>8, <1>9 DEF Stored

(* removeNodeFromList and freeListNode free the node found and relabel no  *)
(* other.                                                                  *)
LEMMA RemoveFrees ==
  ASSUME Typed, Sound, ~stale, At, Remove
  PROVE  mem[cur] # NULL /\ mem'[cur] = NULL /\ \A x \in Addrs \ {cur} : Kept(x)
<1>1. mem'[cur] = NULL /\ \A x \in Addrs \ {cur} : Free(x)' <=> Free(x)
  BY RemoveFound
<1>2. /\ mem \in Heap /\ cur \in Addrs
      /\ mem' = [Unlinked(lists[Hash[key]], cur) EXCEPT ![cur] = NULL]
  BY WalkAt DEF Remove, At, Typed, TypeOK, HeapTypeOK, Heap
<1>3. ASSUME NEW x \in Addrs \ {cur}, ~Free(x)
      PROVE  /\ mem'[x].key = mem[x].key
             /\ mem'[x].val = mem[x].val /\ mem'[x].exp = mem[x].exp
  <2>1. mem[x] \in Node
    BY <1>2, <1>3 DEF Heap, Free
  <2>2. mem'[x] = Unlinked(lists[Hash[key]], cur)[x]
    BY <1>2, <1>3 DEF Unlinked
  <2>3. \/ mem'[x] = mem[x]
        \/ \E v, w : mem'[x] = [mem[x] EXCEPT !.next = v, !.prev = w]
    BY <1>3, <2>2 DEF Unlinked
  <2>4. ASSUME NEW v, NEW w, mem'[x] = [mem[x] EXCEPT !.next = v, !.prev = w]
        PROVE  /\ mem'[x].key = mem[x].key
               /\ mem'[x].val = mem[x].val /\ mem'[x].exp = mem[x].exp
    BY <2>1, <2>4 DEF Node
  <2> QED
    BY <2>3, <2>4
<1>4. ASSUME NEW x \in Addrs \ {cur} PROVE Kept(x)
  BY <1>1, <1>3 DEF Kept, SameObject, Free
<1>5. mem[cur] # NULL /\ mem'[cur] = NULL
  BY <1>1 DEF At, Free
<1> QED
  BY <1>4, <1>5

(* freeLinkedList frees the node it stands on and writes to no other.      *)
LEMMA FlushFrees ==
  ASSUME Typed, flushNode
  PROVE  mem[cur] # NULL /\ cur \in Addrs /\ mem'[cur] = NULL /\ \A x \in Addrs \ {cur} : Kept(x)
<1>1. /\ cur \in Addrs /\ mem \in [Addrs -> Node \cup {NULL}] /\ ~Free(cur)
      /\ mem' = [mem EXCEPT ![cur] = NULL]
  BY DEF flushNode, Typed, TypeOK, HeapTypeOK, CallTypeOK
<1>2. mem[cur] # NULL /\ mem'[cur] = NULL
  BY <1>1 DEF Free
<1>3. ASSUME NEW x \in Addrs \ {cur} PROVE Kept(x)
  BY <1>1 DEF Kept, SameObject, Free
<1> QED
  BY <1>1, <1>2, <1>3

-----------------------------------------------------------------------------
(* Objects of other keys                                                   *)

(* No node with another key than k appears, goes or changes its object.    *)
OthersKept(k) ==
  \A x \in Addrs :
    (mem[x] # NULL /\ mem[x].key # k) \/ (mem'[x] # NULL /\ mem'[x].key # k) => Kept(x)

LEMMA OthersSame ==
  ASSUME UNCHANGED mem, NEW k
  PROVE  OthersKept(k)
BY KeptSame DEF OthersKept

LEMMA OthersAdd ==
  ASSUME NEW a \in Addrs, NEW v, NEW e, NEW k, Stored(mem, a, k, v, e)
  PROVE  OthersKept(k)
BY DEF Stored, OthersKept, Kept

LEMMA OthersRemove ==
  ASSUME Typed, Sound, ~stale, At, Remove
  PROVE  OthersKept(key)
BY RemoveFrees DEF OthersKept, At

(* Whatever call serves a request, it leaves the objects of every key but  *)
(* the one it has looked up as they were.                                  *)
LEMMA ServeOthers ==
  ASSUME Inv, ~stale, pc # "flush", Serve
  PROVE  OthersKept(key)
<1>1. Typed /\ Sound /\ Shape /\ TypeOK /\ mem \in Heap
  BY SoundCall DEF Inv, Typed, TypeOK, HeapTypeOK, Heap
<1>2. ASSUME NEW v \in Values, NEW e \in Nat, pc \in {"find", "load"}, Add(mem, key, v, e)
      PROVE  OthersKept(key)
  <2>1. key \in Keys
    BY <1>1, <1>2 DEF Typed, Control
  <2>2. \E a \in Addrs : Stored(mem, a, key, v, e)
    BY <1>1, <1>2, <2>1, AddStores
  <2> QED
    BY <2>2, OthersAdd
<1>3. CASE purgeHit \/ delHit
  BY <1>1, <1>3, OthersRemove DEF purgeHit, delHit
<1>4. CASE setMiss
  BY <1>2, <1>4, ObjectType, DictAssumption DEF setMiss, Missed
<1>5. CASE setxMiss
  <2>1. /\ pc = "find" /\ caller = "setWithExpiry"
        /\ UNCHANGED mem \/ Add(mem, key, op.val, ExpiryOf(op))
    BY <1>5 DEF setxMiss, Missed
  <2> QED
    BY <1>1, <1>2, <2>1, SetFields, OthersSame
<1>6. CASE setFromLoad
  <2>1. /\ pc = "load"
        /\ UNCHANGED mem \/ Add(mem, key, op.val, op.exp)
    BY <1>6 DEF setFromLoad
  <2>2. pc = "load" => op.val \in Values /\ op.exp \in Nat
    BY <1>1, RequestFields DEF Typed, Control, TypeOK, CallTypeOK, Values
  <2> QED
    BY <1>2, <2>1, <2>2, OthersSame
<1>7. CASE setHit \/ setxHit
  <2>1. /\ cur \in Addrs /\ mem[cur] \in Node /\ mem[cur].key = key
        /\ \/ UNCHANGED mem
           \/ \E nd : mem' = [mem EXCEPT ![cur] = nd] /\ nd # NULL /\ nd.key = key
    <3>1. At /\ cur \in Addrs /\ mem[cur] \in Node /\ mem[cur].key = key
      BY <1>1, <1>7 DEF setHit, setxHit, At, TypeOK, CallTypeOK, Heap, Free
    <3>2. CASE UNCHANGED mem
      BY <3>1, <3>2
    <3>3. CASE mem' # mem
      <4>1. PICK v \in Values, e \in Nat :
              \/ mem' = [mem EXCEPT ![cur].val = v]
              \/ mem' = [mem EXCEPT ![cur].val = v, ![cur].exp = e]
        <5>1. CASE setHit
          BY <5>1, ObjectType DEF setHit
        <5>2. CASE setxHit
          <6>1. /\ pc = "find" /\ caller = "setWithExpiry"
                /\ mem' = [mem EXCEPT ![cur].val = op.val, ![cur].exp = ExpiryOf(op)]
            BY <3>3, <5>2 DEF setxHit, At
          <6> QED
            BY <1>1, <6>1, SetFields
        <5> QED
          BY <1>7, <5>1, <5>2
      <4>2. CASE mem' = [mem EXCEPT ![cur].val = v]
        <5>1. [mem[cur] EXCEPT !.val = v] \in Node /\ [mem[cur] EXCEPT !.val = v].key = key
          BY <3>1 DEF Node
        <5>2. mem' = [mem EXCEPT ![cur] = [mem[cur] EXCEPT !.val = v]]
          BY <4>2
        <5> QED
          BY <3>1, <5>1, <5>2, DictAssumption
      <4>3. CASE mem' = [mem EXCEPT ![cur].val = v, ![cur].exp = e]
        <5> DEFINE nd == [mem[cur] EXCEPT !.val = v, !.exp = e]
        <5>1. nd \in Node /\ nd.key = key
          BY <3>1 DEF Node
        <5>2. mem' = [mem EXCEPT ![cur] = nd]
          BY <1>1, <3>1, <4>3 DEF Heap
        <5> HIDE DEF nd
        <5> QED
          BY <3>1, <5>1, <5>2, DictAssumption
      <4> QED
        BY <4>1, <4>2, <4>3
    <3> QED
      BY <3>2, <3>3
  <2>2. CASE UNCHANGED mem
    BY <2>2, OthersSame
  <2>3. ASSUME NEW nd, mem' = [mem EXCEPT ![cur] = nd], nd # NULL, nd.key = key
        PROVE  OthersKept(key)
    BY <1>1, <2>1, <2>3, DictAssumption DEF OthersKept, Kept, SameObject, Heap
  <2> QED
    BY <2>1, <2>2, <2>3
<1>8. CASE setxExpired
  <2> DEFINE m == [mem EXCEPT ![cur] = NULL]
  <2>1. /\ cur \in Addrs /\ mem[cur] # NULL /\ mem[cur].key = key
        /\ pc = "find" /\ caller = "setWithExpiry"
    BY <1>1, <1>8 DEF setxExpired, At, TypeOK, CallTypeOK, Free
  <2>2. key \in Keys /\ op.val \in Values /\ ExpiryOf(op) \in Nat
    BY <1>1, <2>1, SetFields DEF Typed, Control
  <2>3. /\ m \in Heap /\ \A x \in Addrs : m[x] \in {NULL, mem[x]}
        /\ m[cur] = NULL /\ \A x \in Addrs \ {cur} : m[x] = mem[x]
    BY <1>1, <2>1 DEF Heap
  <2>4. mem' = m \/ Add(m, key, op.val, ExpiryOf(op))
    BY <1>8 DEF setxExpired
  <2> HIDE DEF m
  <2>5. CASE mem' = m
    BY <2>1, <2>3, <2>5 DEF OthersKept, Kept, SameObject
  <2>6. CASE Add(m, key, op.val, ExpiryOf(op))
    <3>1. PICK a \in Addrs : Stored(m, a, key, op.val, ExpiryOf(op))
      BY <1>1, <2>2, <2>3, <2>6, AddStores
    <3> QED
      BY <2>1, <2>3, <3>1 DEF Stored, OthersKept, Kept, SameObject
  <2> QED
    BY <2>4, <2>5, <2>6
<1>9. CASE \/ Refuse \/ findNext \/ getHit \/ getExpired \/ getMiss \/ delMiss
           \/ flushBucket \/ flushDone \/ readFreed \/ writeFreed
  <2>1. UNCHANGED mem
    BY <1>9 DEF Refuse, findNext, getHit, getExpired, getMiss, delMiss, flushBucket, flushDone,
       readFreed, writeFreed, Undefined, heapVars
  <2> QED
    BY <2>1, OthersSame
<1>10. ~flushNode
  BY DEF flushNode
<1> QED
  BY <1>3, <1>4, <1>5, <1>6, <1>7, <1>8, <1>9, <1>10 DEF Serve

(* A stored string is given up only by a request that names its key, by    *)
(* FLUSHALL, or when it has expired: the unlinking of its neighbours and   *)
(* the linking of a new node behind it (linkedlist.c:34-77) write its      *)
(* links and nothing else.                                                 *)
THEOREM OnlyNamedKeysDoChange == Spec => OnlyNamedKeysChange
<1>1. Inv /\ [Next]_vars =>
        \A a \in Addrs :
          (~Free(a) /\ ~stale /\ mem'[a] # mem[a] /\ pc # "flush") =>
            \/ mem[a].key = key
            \/ /\ mem'[a] # NULL
               /\ mem'[a].key = mem[a].key /\ mem'[a].val = mem[a].val
               /\ mem'[a].exp = mem[a].exp
  <2> SUFFICES ASSUME Inv, [Next]_vars, NEW a \in Addrs, ~Free(a), ~stale,
                      mem'[a] # mem[a], pc # "flush", mem[a].key # key
               PROVE  Kept(a)
    BY DEF Kept, SameObject, Free
  <2>1. mem[a] # NULL /\ ~UNCHANGED mem
    BY DEF Free
  <2>2. Serve
    BY <2>1 DEF Next, Receive, RecvLookup, RecvSet, RecvDel, RecvFlush, RecvLoad, Begin, Tick,
       vars, heapVars
  <2> QED
    BY <2>1, <2>2, ServeOthers DEF OthersKept
<1> QED
  BY Invariant, <1>1, PTL DEF Spec, OnlyNamedKeysChange

-----------------------------------------------------------------------------
(* Which request a step serves                                             *)

(* The thread looks up the key its request names, the first of the keys a  *)
(* DEL has left, and has begun before now; what only a DEL uses is reset.  *)
Serving ==
  /\ pc = "idle" => op = NULL
  /\ since <= clock
  /\ op = NULL \/ op.cmd # "DEL" => rest = <<>> /\ count = 0
  /\ pc = "refuse" => op.cmd = "SET" /\ op.nx /\ op.xx
  /\ pc = "find" => key = IF op.cmd = "DEL" THEN Head(rest) ELSE op.key
  /\ pc = "find" /\ caller \in {"get", "purge"} => op.cmd # "LOADBITMAP"
  /\ pc = "find" /\ caller = "set" => op.cmd # "GET"
  /\ pc = "load" => key = op.key
  /\ pc = "flush" => op.cmd = "FLUSHALL"

(* What a list of keys is when its first key is taken off.                 *)
LEMMA KeysLeft ==
  ASSUME NEW s \in Seq(Keys), Len(s) >= 1
  PROVE  /\ s # <<>>
         /\ Len(s) = 1 <=> Tail(s) = <<>>
         /\ Len(s) # 1 => Head(Tail(s)) = s[2]
         /\ Elems(s) = {Head(s)} \cup Elems(Tail(s))
<1>1. /\ s # <<>> /\ Len(s) \in Nat /\ Head(s) = s[1]
      /\ Tail(s) \in Seq(Keys) /\ Len(Tail(s)) = Len(s) - 1
      /\ \A i \in 1..(Len(s) - 1) : Tail(s)[i] = s[i + 1]
  BY HeadTailProperties
<1> DEFINE n == Len(s)
           t == Tail(s)
<1>2. n \in Nat /\ n >= 1 /\ Len(t) = n - 1 /\ t \in Seq(Keys)
  BY <1>1
<1>3. n = 1 <=> t = <<>>
  <2> HIDE DEF n, t
  <2>1. Len(t) = 0 <=> t = <<>>
    BY <1>2
  <2> QED
    BY <1>2, <2>1
<1>4. n # 1 => Head(t) = s[2]
  <2> SUFFICES ASSUME n # 1 PROVE t[1] = s[2]
    BY <1>2, <1>3
  <2>1. 1 \in 1..(n - 1) /\ 1 + 1 = 2
    <3> HIDE DEF n, t
    <3> QED
      BY <1>2
  <2> QED
    BY <1>1, <2>1
<1>5. Elems(s) = {s[1]} \cup Elems(t)
  <2>1. /\ DOMAIN s = 1..n /\ DOMAIN t = 1..(n - 1)
        /\ \A i \in 1..(n - 1) : t[i] = s[i + 1]
    BY <1>1
  <2>2. 1 \in 1..n /\ \A i \in 1..n : i = 1 \/ (i - 1 \in 1..(n - 1) /\ (i - 1) + 1 = i)
    <3> HIDE DEF n, t
    <3> QED
      BY <1>2
  <2>3. \A i \in 1..(n - 1) : i + 1 \in 1..n
    <3> HIDE DEF n, t
    <3> QED
      BY <1>2
  <2> HIDE DEF n, t
  <2> QED
    BY <2>1, <2>2, <2>3 DEF Elems
<1> QED
  BY <1>1, <1>3, <1>4, <1>5

LEMMA ServingAnswer ==
  ASSUME Typed, UNCHANGED clock, NEW r, Answer(r)
  PROVE  Serving'
BY DEF Answer, Serving, Typed, TypeOK

(* A walk that goes on with the same request.                              *)
LEMMA ServingFind ==
  ASSUME Serving, UNCHANGED <<clock, op, since, rest, count>>,
         NEW who, NEW tbl, Find(who, key, tbl), pc = "find",
         who \in {"get", "purge"} => caller \in {"get", "purge"},
         who = "set" => op.cmd # "GET"
  PROVE  Serving'
BY DEF Find, Serving

LEMMA ServingGotNull ==
  ASSUME Typed, Serving, UNCHANGED clock, pc = "find", NEW tbl, gotNull(tbl)
  PROVE  Serving'
<1>1. CASE Answer(Null)
  BY <1>1, ServingAnswer
<1>2. CASE /\ op.cmd # "GET" /\ Find("set", key, tbl)
           /\ UNCHANGED <<op, bkt, since, rest, count, reply>>
  BY <1>2, ServingFind
<1> QED
  BY <1>1, <1>2 DEF gotNull

LEMMA ServingDelNext ==
  ASSUME Typed, Serving, UNCHANGED clock, pc = "find", caller = "del",
         NEW n, NEW tbl, delNext(n, tbl)
  PROVE  Serving'
<1>1. CASE \E r : Answer(r)
  BY <1>1, ServingAnswer
<1>2. CASE /\ op.cmd # "ZADD" /\ Len(rest) # 1
           /\ Find("del", rest[2], tbl) /\ rest' = Tail(rest)
           /\ UNCHANGED <<op, bkt, since, reply>>
  <2>1. op.cmd = "DEL" /\ rest \in Seq(Keys) /\ Len(rest) >= 1 /\ op # NULL
    BY <1>2 DEF Typed, Control, TypeOK, CallTypeOK
  <2>2. Head(Tail(rest)) = rest[2]
    BY <1>2, <2>1, KeysLeft
  <2> QED
    BY <1>2, <2>1, <2>2 DEF Find, Serving
<1> QED
  BY <1>1, <1>2 DEF delNext

LEMMA ServingReceive ==
  ASSUME Typed, Serving, Receive
  PROVE  Serving'
<1>1. ASSUME NEW r, Begin(r)
      PROVE  /\ op' = r /\ since' = clock' /\ clock \in Nat /\ clock' = clock
             /\ rest = <<>> /\ count = 0 /\ count' = 0
  BY <1>1 DEF Begin, Serving, Typed, TypeOK
<1>2. CASE RecvLookup
  <2>1. PICK r \in GetRequests \cup ZaddRequests :
          /\ Begin(r)
          /\ Find(IF r.cmd = "LOADBITMAP" THEN "set" ELSE "get", r.key, lists)
          /\ UNCHANGED <<bkt, rest>>
    BY <1>2 DEF RecvLookup
  <2>2. r.cmd # "DEL"
    BY DEF GetRequests, ZaddRequests
  <2> QED
    BY <1>1, <2>1, <2>2 DEF Find, Serving
<1>3. CASE RecvSet
  <2>1. PICK r \in SetRequests :
          /\ Begin(r)
          /\ IF r.nx /\ r.xx
             THEN pc' = "refuse" /\ UNCHANGED <<caller, key, cur>>
             ELSE Find("setWithExpiry", r.key, lists)
          /\ UNCHANGED <<bkt, rest>>
    BY <1>3 DEF RecvSet
  <2>2. r.cmd = "SET"
    BY DEF SetRequests
  <2> QED
    BY <1>1, <2>1, <2>2 DEF Find, Serving
<1>4. CASE RecvDel
  <2>1. PICK r \in DelRequests :
          Begin(r) /\ Find("del", Head(r.keys), lists) /\ rest' = r.keys
    BY <1>4 DEF RecvDel
  <2>2. r.cmd = "DEL" /\ r # NULL
    BY DictAssumption DEF DelRequests, Requests
  <2> QED
    BY <1>1, <2>1, <2>2 DEF Find, Serving
<1>5. CASE RecvFlush
  <2>1. PICK r \in FlushRequests : Begin(r) /\ pc' = "flush" /\ UNCHANGED rest
    BY <1>5 DEF RecvFlush
  <2>2. r.cmd = "FLUSHALL"
    BY DEF FlushRequests
  <2> QED
    BY <1>1, <2>1, <2>2 DEF Serving
<1>6. CASE RecvLoad
  <2>1. PICK r \in LoadRequests : Begin(r) /\ pc' = "load" /\ key' = r.key /\ UNCHANGED rest
    BY <1>6 DEF RecvLoad
  <2>2. r.cmd = "LOADSTR"
    BY DEF LoadRequests
  <2> QED
    BY <1>1, <2>1, <2>2 DEF Serving
<1> QED
  BY <1>2, <1>3, <1>4, <1>5, <1>6 DEF Receive

LEMMA ServingServe ==
  ASSUME Typed, Serving, Serve
  PROVE  Serving'
<1>1. UNCHANGED clock
  BY DEF Serve, Refuse, findNext, getHit, getExpired, getMiss, purgeHit, setHit, setMiss, setxHit,
     setxMiss, setxExpired, setFromLoad, delHit, delMiss, flushNode, flushBucket, flushDone,
     readFreed, writeFreed
<1>2. CASE \E r : Answer(r)
  BY <1>1, <1>2, ServingAnswer
<1>3. CASE getExpired
  BY <1>3, ServingFind DEF getExpired, At
<1>4. CASE getMiss \/ purgeHit
  BY <1>1, <1>4, ServingGotNull DEF getMiss, purgeHit, At, Missed
<1>5. CASE delHit \/ delMiss
  BY <1>1, <1>5, ServingDelNext DEF delHit, delMiss, At, Missed
<1>6. CASE setMiss
  <2>1. CASE Answer(OK)
    BY <1>2, <2>1
  <2>2. CASE Find("del", key, lists') /\ UNCHANGED <<op, bkt, since, rest, count, reply>>
    BY <1>1, <1>6, <2>2, ServingFind DEF setMiss, Missed
  <2> QED
    BY <1>6, <2>1, <2>2 DEF setMiss
<1>7. CASE setxExpired
  <2>1. CASE pc' = "undefined" /\ UNCHANGED <<op, since, rest, count>>
    BY <1>1, <2>1 DEF Serving
  <2> QED
    BY <1>2, <1>7, <2>1 DEF setxExpired
<1>8. CASE findNext \/ flushNode \/ flushBucket
  BY <1>8 DEF findNext, flushNode, flushBucket, Serving
<1>9. CASE readFreed \/ writeFreed
  <2>1. pc' = "undefined" /\ UNCHANGED <<clock, op, since, rest, count>>
    BY <1>9 DEF readFreed, writeFreed, Undefined
  <2> QED
    BY <2>1 DEF Serving
<1>10. CASE Refuse \/ getHit \/ setHit \/ setxHit \/ setxMiss \/ setFromLoad \/ flushDone
  BY <1>2, <1>10 DEF Refuse, getHit, setHit, setxHit, setxMiss, setFromLoad, flushDone
<1> QED
  BY <1>3, <1>4, <1>5, <1>6, <1>7, <1>8, <1>9, <1>10 DEF Serve

LEMMA ServingInvariant == Spec => []Serving
<1>1. Init => Serving
  BY DEF Init, Serving
<1>2. Inv /\ Serving /\ [Next]_vars => Serving'
  <2> SUFFICES ASSUME Typed, Serving, [Next]_vars PROVE Serving'
    BY DEF Inv
  <2>1. CASE Tick \/ UNCHANGED vars
    <3>1. UNCHANGED callVars /\ clock <= clock' /\ clock \in Nat /\ clock' \in Nat /\ since \in Nat
      BY <2>1 DEF Tick, vars, Typed, TypeOK, CallTypeOK
    <3> QED
      BY <3>1 DEF callVars, Serving
  <2> QED
    BY <2>1, ServingReceive, ServingServe DEF Next
<1> QED
  BY Invariant, <1>1, <1>2, PTL DEF Spec

-----------------------------------------------------------------------------
(* What a walk has found out                                               *)

(* get calls del only for a node that has expired, and set only where its  *)
(* own lookup found nothing: the second walk of such a call ends as the    *)
(* first did, whatever the clock does between them.                        *)
LookedUp ==
  pc = "find" /\ ~stale /\ ~dup =>
    /\ caller = "purge" =>
         \A a \in Addrs : mem[a] # NULL /\ mem[a].key = key => isExpired(a)
    /\ caller = "set" /\ op.cmd # "LOADBITMAP" => ~IsLinked(key)

(* A DEL has deleted the keys it has looked up.                            *)
Deleted ==
  op # NULL /\ op.cmd = "DEL" /\ ~stale /\ ~dup =>
    \A k \in Elems(op.keys) : k \in Elems(rest) \/ ~IsLinked(k)

(* The node found was the only one of its key.                             *)
LEMMA RemoveUnlinks ==
  ASSUME Typed, Sound, ~stale, ~dup, KeysUnique, At, Remove
  PROVE  \A k : IsLinked(k)' => IsLinked(k) /\ k # key
<1>1. /\ cur \in Addrs /\ mem[cur] # NULL /\ mem[cur].key = key /\ mem'[cur] = NULL
      /\ \A x \in Addrs \ {cur} : Kept(x)
  BY RemoveFrees DEF At, Typed, TypeOK, CallTypeOK
<1>2. ASSUME NEW k, NEW a \in Addrs, mem'[a] # NULL, mem'[a].key = k
      PROVE  mem[a] # NULL /\ mem[a].key = k /\ k # key
  <2>1. a # cur
    BY <1>1, <1>2
  <2>2. mem[a] # NULL /\ mem[a].key = k
    BY <1>1, <1>2, <2>1 DEF Kept, SameObject
  <2> QED
    BY <1>1, <2>1, <2>2 DEF KeysUnique, Free
<1> QED
  BY <1>2 DEF IsLinked, Free

LEMMA SameLinks ==
  ASSUME UNCHANGED mem
  PROVE  \A k : IsLinked(k)' <=> IsLinked(k)
BY DEF IsLinked, Free

LEMMA LookedUpServe ==
  ASSUME Inv, KeysUnique, Serving, LookedUp, Serve, ~stale, ~dup, pc' = "find"
  PROVE  LookedUp'
<1>1. Typed /\ Sound /\ TypeOK /\ DictAssumption
  BY DictAssumption DEF Inv, Typed
<1>2. CASE caller' \notin {"purge", "set"}
  BY <1>2 DEF LookedUp
<1>3. CASE findNext
  BY <1>3 DEF findNext, heapVars, LookedUp, IsLinked, Free, isExpired
<1>4. CASE getExpired
  <2>1. /\ At /\ isExpired(cur) /\ key' = key /\ caller' = "purge" /\ UNCHANGED <<mem, clock>>
    BY <1>4 DEF getExpired, Find, heapVars
  <2>2. cur \in Addrs
    BY <1>1, <2>1 DEF At, TypeOK, CallTypeOK
  <2>3. \A a \in Addrs : mem[a] # NULL /\ mem[a].key = key => a = cur
    BY <2>1, <2>2 DEF At, KeysUnique, Free
  <2> QED
    BY <2>1, <2>3 DEF LookedUp, isExpired
<1>5. CASE getMiss
  <2>1. ~IsLinked(key)
    BY <1>1, <1>5, WalkMissed DEF getMiss
  <2>2. caller' = "set" /\ key' = key /\ UNCHANGED mem
    BY <1>5 DEF getMiss, gotNull, Find, Answer, heapVars
  <2> QED
    BY <2>1, <2>2 DEF LookedUp, IsLinked, Free
<1>6. CASE purgeHit
  <2>1. \A k : IsLinked(k)' => k # key
    BY <1>1, <1>6, RemoveUnlinks DEF purgeHit
  <2>2. caller' = "set" /\ key' = key
    BY <1>6 DEF purgeHit, gotNull, Find, Answer
  <2>3. ASSUME NEW k, k = key PROVE ~IsLinked(k)'
    BY <2>1, <2>3
  <2>4. \A a \in Addrs : ~(mem'[a] # NULL /\ mem'[a].key = key)
    BY <2>3 DEF IsLinked, Free
  <2> QED
    BY <2>2, <2>4 DEF LookedUp, IsLinked, Free
<1>7. CASE setMiss \/ delHit \/ delMiss
  <2>1. caller' = "del"
    BY <1>7 DEF setMiss, delHit, delMiss, delNext, Find, Answer
  <2> QED
    BY <1>2, <2>1
<1>8. ~(Refuse \/ getHit \/ setHit \/ setxHit \/ setxMiss \/ setFromLoad \/ flushDone \/ setxExpired)
  BY DEF Refuse, getHit, setHit, setxHit, setxMiss, setFromLoad, flushDone, setxExpired, Answer
<1>9. ~(flushNode \/ flushBucket \/ readFreed \/ writeFreed)
  BY DEF flushNode, flushBucket, readFreed, writeFreed, Undefined
<1> QED
  BY <1>3, <1>4, <1>5, <1>6, <1>7, <1>8, <1>9 DEF Serve

LEMMA LookedUpReceive ==
  ASSUME LookedUp, Receive
  PROVE  LookedUp'
<1>1. CASE RecvLookup
  <2>1. PICK r : /\ op' = r
                 /\ caller' = IF r.cmd = "LOADBITMAP" THEN "set" ELSE "get"
    BY <1>1 DEF RecvLookup, Begin, Find
  <2> QED
    BY <2>1 DEF LookedUp
<1>2. CASE RecvSet \/ RecvDel \/ RecvFlush \/ RecvLoad
  <2>1. pc' = "find" => caller' \in {"setWithExpiry", "del"}
    BY <1>2 DEF RecvSet, RecvDel, RecvFlush, RecvLoad, Find
  <2> QED
    BY <2>1 DEF LookedUp
<1> QED
  BY <1>1, <1>2 DEF Receive

(* An expired node stays expired.                                          *)
LEMMA LookedUpTick ==
  ASSUME Typed, LookedUp, Tick \/ UNCHANGED vars
  PROVE  LookedUp'
<1>1. /\ UNCHANGED <<mem, stale, dup, pc, caller, op, key>>
      /\ clock \in Nat /\ clock' \in Nat /\ clock <= clock'
  BY DEF Tick, vars, heapVars, callVars, Typed, TypeOK
<1>2. \A a \in Addrs : mem[a] # NULL /\ isExpired(a) => isExpired(a)'
  <2> SUFFICES ASSUME NEW a \in Addrs, mem[a] # NULL, isExpired(a) PROVE isExpired(a)'
    OBVIOUS
  <2>1. mem[a].exp \in Nat
    BY DEF Typed, TypeOK, HeapTypeOK, Node
  <2> QED
    BY <1>1, <2>1 DEF isExpired
<1> QED
  BY <1>1, <1>2 DEF LookedUp, IsLinked, Free

(* The steps of a DEL.                                                     *)
LEMMA DelSteps ==
  ASSUME Typed, Serving, op # NULL, op.cmd = "DEL", Serve
  PROVE  findNext \/ delHit \/ delMiss \/ readFreed \/ writeFreed
<1>1. ~(getHit \/ getExpired \/ getMiss \/ purgeHit \/ setHit \/ setMiss)
  BY DEF getHit, getExpired, getMiss, purgeHit, setHit, setMiss, At, Missed, Typed, Control
<1>2. ~(setxHit \/ setxMiss \/ setxExpired)
  BY DEF setxHit, setxMiss, setxExpired, At, Missed, Typed, Control
<1>3. ~(setFromLoad \/ flushNode \/ flushBucket \/ flushDone \/ Refuse)
  BY DEF setFromLoad, flushNode, flushBucket, flushDone, Refuse, Serving, Typed, Control
<1> QED
  BY <1>1, <1>2, <1>3 DEF Serve

(* One key of a DEL has been looked up: it is not linked any more, and no  *)
(* key has come to be.                                                     *)
LEMMA DelUnlinks ==
  ASSUME Inv, KeysUnique, Serving, ~stale, ~dup, delHit \/ delMiss
  PROVE  \A k : IsLinked(k)' => IsLinked(k) /\ k # key
<1>1. CASE delHit
  BY <1>1, RemoveUnlinks DEF delHit, Inv
<1>2. CASE delMiss
  <2>1. ~IsLinked(key) /\ UNCHANGED mem
    BY <1>2, WalkMissed DEF delMiss, Inv, heapVars
  <2> QED
    BY <2>1, SameLinks
<1> QED
  BY <1>1, <1>2

(* A step of a DEL that looks a key up either answers or goes on with the  *)
(* keys that are left.                                                     *)
LEMMA DelGoesOn ==
  ASSUME Typed, Serving, op # NULL, op.cmd = "DEL", delHit \/ delMiss
  PROVE  /\ key = Head(rest) /\ rest \in Seq(Keys) /\ Len(rest) >= 1
         /\ \/ Len(rest) = 1 /\ op' = NULL
            \/ Len(rest) # 1 /\ op' = op /\ rest' = Tail(rest)
<1>1. pc = "find" /\ caller = "del"
  BY DEF delHit, delMiss, At, Missed
<1>2. \E n, tbl : delNext(n, tbl)
  BY DEF delHit, delMiss
<1> QED
  BY <1>1, <1>2 DEF delNext, Answer, Serving, Typed, Control, TypeOK, CallTypeOK

LEMMA DeletedServe ==
  ASSUME Inv, KeysUnique, Serving, Deleted, Serve, ~stale, ~dup,
         op' # NULL, op'.cmd = "DEL"
  PROVE  Deleted'
<1>1. Typed /\ op # NULL
  <2>1. Typed
    BY DEF Inv
  <2>2. pc # "idle"
    BY DEF Serve, Refuse, findNext, getHit, getExpired, getMiss, purgeHit, setHit, setMiss, setxHit,
       setxMiss, setxExpired, setFromLoad, delHit, delMiss, flushNode, flushBucket, flushDone,
       readFreed, writeFreed, At, Missed
  <2> QED
    BY <2>1, <2>2 DEF Typed, Control
<1>2. op' = op
  BY DEF Serve, Refuse, findNext, getHit, getExpired, getMiss, purgeHit, setHit, setMiss, setxHit,
     setxMiss, setxExpired, setFromLoad, delHit, delMiss, flushNode, flushBucket, flushDone,
     readFreed, writeFreed, gotNull, delNext, Answer, Undefined
<1>3. CASE findNext \/ readFreed \/ writeFreed
  <2>1. UNCHANGED <<mem, rest, op>>
    BY <1>3 DEF findNext, readFreed, writeFreed, Undefined, heapVars
  <2> QED
    BY <2>1 DEF Deleted, IsLinked, Free
<1>4. CASE delHit \/ delMiss
  <2>1. \A k : IsLinked(k)' => IsLinked(k) /\ k # key
    BY <1>4, DelUnlinks
  <2>2. key = Head(rest) /\ rest \in Seq(Keys) /\ Len(rest) >= 1 /\ rest' = Tail(rest)
    BY <1>1, <1>2, <1>4, DelGoesOn
  <2>3. Elems(rest) = {key} \cup Elems(rest')
    BY <2>2, KeysLeft
  <2>4. ASSUME NEW k \in Elems(op.keys) PROVE k \in Elems(rest') \/ ~IsLinked(k)'
    <3>1. k \in Elems(rest) \/ ~IsLinked(k)
      BY <1>1, <1>2, <2>4 DEF Deleted
    <3> QED
      BY <2>1, <2>3, <3>1
  <2>5. Elems(op.keys)' = Elems(op.keys) /\ Elems(rest)' = Elems(rest')
    BY <1>2 DEF Elems
  <2> QED
    BY <2>4, <2>5 DEF Deleted
<1> QED
  BY <1>1, <1>2, <1>3, <1>4, DelSteps

LEMMA DeletedReceive ==
  ASSUME Receive
  PROVE  Deleted'
<1>1. CASE RecvDel
  <2>1. op'.keys = rest'
    BY <1>1 DEF RecvDel, Begin
  <2> QED
    BY <2>1 DEF Deleted
<1>2. CASE RecvLookup \/ RecvSet \/ RecvFlush \/ RecvLoad
  <2>1. op' \in GetRequests \cup ZaddRequests \cup SetRequests \cup FlushRequests \cup LoadRequests
    BY <1>2 DEF RecvLookup, RecvSet, RecvFlush, RecvLoad, Begin
  <2>2. op'.cmd # "DEL"
    BY <2>1 DEF GetRequests, ZaddRequests, SetRequests, FlushRequests, LoadRequests
  <2> QED
    BY <2>2 DEF Deleted
<1> QED
  BY <1>1, <1>2 DEF Receive

(* All that is known between two steps.                                    *)
Known == Inv /\ KeysUnique /\ Serving /\ LookedUp /\ Deleted

LEMMA KnownInvariant == Spec => []Known
<1>1. Init => LookedUp /\ Deleted
  BY DEF Init, LookedUp, Deleted
<1>2. Known /\ [Next]_vars => LookedUp' /\ Deleted'
  <2> SUFFICES ASSUME Known, [Next]_vars PROVE LookedUp' /\ Deleted'
    OBVIOUS
  <2>1. CASE Tick \/ UNCHANGED vars
    <3>1. UNCHANGED <<mem, stale, dup, op, rest>>
      BY <2>1 DEF Tick, vars, heapVars, callVars
    <3>2. Deleted'
      BY <3>1 DEF Known, Deleted, IsLinked, Free
    <3> QED
      BY <2>1, <3>2, LookedUpTick DEF Known, Inv
  <2>2. CASE Receive
    BY <2>2, LookedUpReceive, DeletedReceive DEF Known
  <2>3. CASE Serve
    <3>1. (stale => stale') /\ (dup => dup')
      BY <2>3, HistoryStays
    <3>2. CASE stale \/ dup
      BY <3>1, <3>2 DEF LookedUp, Deleted
    <3>3. CASE ~stale /\ ~dup
      <4>1. LookedUp'
        BY <2>3, <3>3, LookedUpServe DEF Known, LookedUp
      <4>2. Deleted'
        BY <2>3, <3>3, DeletedServe DEF Known, Deleted
      <4> QED
        BY <4>1, <4>2
    <3> QED
      BY <3>2, <3>3
  <2> QED
    BY <2>1, <2>2, <2>3 DEF Next
<1>3. Spec => [](Inv /\ KeysUnique /\ Serving)
  BY Invariant, KeysStayUnique, ServingInvariant, PTL
<1>4. Inv /\ KeysUnique /\ Serving /\ LookedUp /\ Deleted <=> Known
  BY DEF Known
<1> QED
  BY <1>1, <1>2, <1>3, <1>4, PTL DEF Spec

(* When a DEL is answered no node of any key it named is left, however     *)
(* many they are and whether a key comes twice: each of its lookups takes  *)
(* out the one node of its key (hashtable.c:81-94), and nothing puts one   *)
(* back before the reply.                                                  *)
THEOREM DelDoesDelete == Spec => DelDeletes
<1>1. Known /\ [Next]_vars =>
        ((op # NULL /\ op.cmd = "DEL" /\ op' = NULL /\ ~stale /\ ~dup) =>
          \A k \in Elems(op.keys) : ~IsLinked(k)')
  <2> SUFFICES ASSUME Known, [Next]_vars, op # NULL, op.cmd = "DEL", op' = NULL, ~stale, ~dup,
                      NEW k \in Elems(op.keys)
               PROVE  ~IsLinked(k)'
    OBVIOUS
  <2>1. Typed /\ Serving /\ Deleted /\ pc # "idle"
    BY DEF Known, Inv, Serving
  <2>2. Serve
    BY <2>1 DEF Next, Receive, RecvLookup, RecvSet, RecvDel, RecvFlush, RecvLoad, Begin, Tick,
       vars, callVars
  <2>3. delHit \/ delMiss
    BY <2>1, <2>2, DelSteps DEF findNext, readFreed, writeFreed, Undefined
  <2>4. key = Head(rest) /\ rest \in Seq(Keys) /\ Len(rest) = 1
    BY <2>1, <2>3, DelGoesOn
  <2>5. Elems(rest) = {key}
    BY <2>4, KeysLeft DEF Elems
  <2>6. IsLinked(k)' => IsLinked(k) /\ k # key
    BY <2>3, DelUnlinks DEF Known
  <2> QED
    BY <2>1, <2>5, <2>6 DEF Deleted
<1> QED
  BY KnownInvariant, <1>1, PTL DEF Spec, DelDeletes

-----------------------------------------------------------------------------
(* The map a heap stands for                                               *)

Has(m, k) == \E a \in Addrs : m[a] # NULL /\ m[a].key = k

View(m) ==
  [k \in Keys |->
     IF ~Has(m, k) THEN NULL
     ELSE LET a == CHOOSE x \in Addrs : m[x] # NULL /\ m[x].key = k
          IN [val |-> m[a].val, exp |-> m[a].exp]]

OneNode(m) ==
  \A a, c \in Addrs : m[a] # NULL /\ m[c] # NULL /\ m[a].key = m[c].key => a = c

LEMMA ViewNone ==
  ASSUME NEW m, NEW k \in Keys, ~Has(m, k)
  PROVE  View(m)[k] = NULL
BY DEF View

LEMMA ViewAt ==
  ASSUME NEW m, OneNode(m), NEW a \in Addrs, m[a] # NULL, m[a].key \in Keys
  PROVE  View(m)[m[a].key] = [val |-> m[a].val, exp |-> m[a].exp]
<1> DEFINE c == CHOOSE x \in Addrs : m[x] # NULL /\ m[x].key = m[a].key
<1>1. c \in Addrs /\ m[c] # NULL /\ m[c].key = m[a].key
  OBVIOUS
<1>2. c = a
  BY <1>1 DEF OneNode
<1>3. View(m)[m[a].key] = [val |-> m[c].val, exp |-> m[c].exp]
  BY DEF View, Has
<1> HIDE DEF c
<1> QED
  BY <1>2, <1>3

(* Heaps that agree on the objects of k stand for maps that agree on k.    *)
LEMMA ViewOther ==
  ASSUME NEW m, NEW w, OneNode(m), OneNode(w), NEW k \in Keys,
         \A x \in Addrs : (m[x] # NULL /\ m[x].key = k) \/ (w[x] # NULL /\ w[x].key = k)
                            => SameObject(m, w, x)
  PROVE  View(w)[k] = View(m)[k]
<1>1. CASE Has(m, k)
  <2>1. PICK a \in Addrs : m[a] # NULL /\ m[a].key = k
    BY <1>1 DEF Has
  <2>2. w[a] # NULL /\ w[a].key = k /\ w[a].val = m[a].val /\ w[a].exp = m[a].exp
    BY <2>1 DEF SameObject
  <2>3. View(m)[k] = [val |-> m[a].val, exp |-> m[a].exp]
    BY <2>1, ViewAt
  <2>4. View(w)[k] = [val |-> w[a].val, exp |-> w[a].exp]
    BY <2>2, ViewAt
  <2> QED
    BY <2>2, <2>3, <2>4
<1>2. CASE ~Has(m, k)
  <2>1. ~Has(w, k)
    BY <1>2 DEF Has, SameObject
  <2> QED
    BY <1>2, <2>1, ViewNone
<1> QED
  BY <1>1, <1>2

LEMMA dbViewIs ==
  ASSUME ~stale, ~dup, KeysUnique
  PROVE  dbView = View(mem) /\ OneNode(mem)
<1>1. \A k : IsLinked(k) <=> Has(mem, k)
  BY DEF IsLinked, Has, Free
<1>2. dbView = View(mem)
  BY <1>1 DEF dbView, View, Free
<1> QED
  BY <1>2 DEF KeysUnique, OneNode, Free

LEMMA dbViewIsNext ==
  ASSUME ~stale', ~dup', KeysUnique'
  PROVE  dbView' = View(mem') /\ OneNode(mem')
<1>1. \A k : IsLinked(k)' <=> Has(mem', k)
  BY DEF IsLinked, Has, Free
<1>2. dbView' = View(mem')
  BY <1>1 DEF dbView, View, Free
<1> QED
  BY <1>2 DEF KeysUnique, OneNode, Free

(* Both histories are clean before the step and after it.                  *)
Promised == ~stale /\ ~dup /\ ~stale' /\ ~dup'

LEMMA ViewSame ==
  ASSUME UNCHANGED <<mem, stale>>
  PROVE  dbView' = dbView
BY DEF dbView, IsLinked, Free

(* A step that leaves the nodes of other keys alone changes the map at one *)
(* key at most.                                                            *)
LEMMA ViewOne ==
  ASSUME Known, Known', Promised, NEW k \in Keys, OthersKept(k)
  PROVE  dbView' = [dbView EXCEPT ![k] = dbView'[k]]
<1>1. /\ dbView = View(mem) /\ dbView' = View(mem')
      /\ OneNode(mem) /\ OneNode(mem')
  BY dbViewIs, dbViewIsNext DEF Known, Promised
<1>2. ASSUME NEW j \in Keys, j # k PROVE View(mem')[j] = View(mem)[j]
  BY <1>1, <1>2, ViewOther DEF OthersKept, Kept
<1>3. View(mem) = [j \in Keys |-> View(mem)[j]] /\ View(mem') = [j \in Keys |-> View(mem')[j]]
  BY DEF View
<1> QED
  BY <1>1, <1>2, <1>3

(* A key with no node is absent, now and after a step.                     *)
LEMMA ViewMissing ==
  ASSUME Known, ~stale, ~dup, NEW k \in Keys, ~IsLinked(k)
  PROVE  dbView[k] = NULL
BY dbViewIs, ViewNone DEF Known, IsLinked, Has, Free

LEMMA ViewMissingNext ==
  ASSUME Known', Promised, NEW k \in Keys, \A a \in Addrs : ~(mem'[a] # NULL /\ mem'[a].key = k)
  PROVE  dbView'[k] = NULL
BY dbViewIsNext, ViewNone DEF Known, Promised, Has

LEMMA ViewStored ==
  ASSUME Known', Promised, NEW a \in Addrs, mem'[a] # NULL, mem'[a].key \in Keys
  PROVE  dbView'[mem'[a].key] = [val |-> mem'[a].val, exp |-> mem'[a].exp]
BY dbViewIsNext, ViewAt DEF Known, Promised

(* What a lookup that ended on a node knows of the map.                    *)
LEMMA ViewFound ==
  ASSUME Known, ~stale, ~dup, At
  PROVE  /\ key \in Keys /\ cur \in Addrs /\ mem[cur] \in Node
         /\ dbView[key] = [val |-> mem[cur].val, exp |-> mem[cur].exp]
         /\ dbView[key] # NULL
         /\ KS!Expired(key) <=> isExpired(cur)
         /\ KS!Live(key) <=> ~isExpired(cur)
<1>1. /\ key \in Keys /\ cur \in Addrs /\ mem[cur] \in Node /\ mem[cur].key = key
      /\ mem[cur] # NULL
  BY DEF Known, Inv, Typed, Control, TypeOK, CallTypeOK, HeapTypeOK, At, Free
<1>2. dbView = View(mem) /\ OneNode(mem)
  BY dbViewIs DEF Known
<1>3. dbView[key] = [val |-> mem[cur].val, exp |-> mem[cur].exp]
  BY <1>1, <1>2, ViewAt
<1>4. mem[cur].val \in Values /\ mem[cur].exp \in Nat
  BY <1>1 DEF Node
<1>5. [val |-> mem[cur].val, exp |-> mem[cur].exp] # NULL
  BY <1>4, ApiAssumption
<1> QED
  BY <1>1, <1>3, <1>5 DEF KS!Live, KS!Expired, isExpired

(* And one that found nothing.                                             *)
LEMMA ViewMissed ==
  ASSUME Known, ~stale, ~dup, Missed
  PROVE  /\ key \in Keys /\ ~IsLinked(key)
         /\ dbView[key] = NULL /\ ~KS!Expired(key) /\ ~KS!Live(key)
<1>1. key \in Keys /\ ~IsLinked(key)
  BY WalkMissed DEF Known, Inv, Typed, Control, Missed
<1> QED
  BY <1>1, ViewMissing DEF KS!Live, KS!Expired

-----------------------------------------------------------------------------
(* The steps                                                               *)

(* The vocabulary of Keyspace is that of Dict.                             *)
LEMMA SameApi ==
  /\ KS!Requests = Requests
  /\ KS!OK = OK /\ KS!Null = Null /\ KS!NoReply = NoReply
  /\ \A n : KS!Integer(n) = Integer(n)
  /\ \A v : KS!GetReply(v) = GetReply(v)
  /\ \A r : KS!ObjectOf(r) = ObjectOf(r)
  /\ \A r, v : KS!OnObject(r, v) = OnObject(r, v)
<1>1. KS!Requests = Requests
  BY DEF KS!Requests, Requests, KS!GetRequests, GetRequests, KS!SetRequests, SetRequests,
     KS!ZaddRequests, ZaddRequests, KS!DelRequests, DelRequests, KS!KeyLists, KeyLists,
     KS!FlushRequests, FlushRequests, KS!LoadRequests, LoadRequests
<1>2. KS!OK = OK /\ KS!Null = Null /\ KS!NoReply = NoReply /\ KS!WrongType = WrongType
  BY DEF KS!OK, OK, KS!Null, Null, KS!NoReply, NoReply, KS!WrongType, WrongType
<1>3. \A v : KS!GetReply(v) = GetReply(v)
  BY <1>2 DEF KS!GetReply, GetReply, KS!Bulk, Bulk
<1>4. \A r : KS!ObjectOf(r) = ObjectOf(r)
  BY DEF KS!ObjectOf, ObjectOf
<1>5. \A r, v : KS!OnObject(r, v) = OnObject(r, v)
  BY <1>2, <1>4 DEF KS!OnObject, OnObject
<1>6. \A n : KS!Integer(n) = Integer(n)
  BY DEF KS!Integer, Integer
<1> QED
  BY <1>1, <1>2, <1>3, <1>4, <1>5, <1>6

LEMMA RefinesReturn ==
  ASSUME Promised, UNCHANGED clock, NEW r, Answer(r)
  PROVE  KS!Return(r)
BY DEF Answer, Promised, KS!Return

LEMMA RefinesTick ==
  ASSUME Tick
  PROVE  KS!Tick
<1>1. UNCHANGED <<mem, stale, dup, op, since, rest, count, reply, caller>>
  BY DEF Tick, heapVars, callVars
<1>2. dbView' = dbView
  BY <1>1 DEF dbView, IsLinked, Free
<1> QED
  BY <1>1, <1>2 DEF Tick, KS!Tick

LEMMA RefinesReceive ==
  ASSUME Known, Receive
  PROVE  \E r \in KS!Requests : KS!Invoke(r)
<1>1. Serving
  BY DEF Known
<1>2. ASSUME NEW r \in Requests, Begin(r),
             rest' = IF r.cmd = "DEL" THEN r.keys ELSE <<>>,
             r.cmd = "ZADD" => caller' # "del"
      PROVE  KS!Invoke(r)
  <2>1. /\ op = NULL /\ count = 0 /\ count' = 0 /\ op' = r
        /\ UNCHANGED <<mem, stale, dup, clock>>
    BY <1>1, <1>2 DEF Begin, Serving, heapVars
  <2>2. dbView' = dbView
    BY <2>1, ViewSame
  <2> QED
    BY <1>2, <2>1, <2>2, SameApi DEF Begin, KS!Invoke
<1>3. ASSUME NEW r, Begin(r) PROVE rest = <<>>
  BY <1>1, <1>3 DEF Begin, Serving
<1>4. CASE RecvLookup
  <2>1. PICK r \in GetRequests \cup ZaddRequests :
          Begin(r) /\ caller' \in {"get", "set"} /\ UNCHANGED rest
    BY <1>4 DEF RecvLookup, Find
  <2>2. r \in Requests /\ r.cmd # "DEL"
    BY DEF Requests, GetRequests, ZaddRequests
  <2> QED
    BY <1>2, <1>3, <2>1, <2>2, SameApi
<1>5. CASE RecvSet
  <2>1. PICK r \in SetRequests : Begin(r) /\ UNCHANGED rest
    BY <1>5 DEF RecvSet
  <2>2. r \in Requests /\ r.cmd = "SET"
    BY DEF Requests, SetRequests
  <2> QED
    BY <1>2, <1>3, <2>1, <2>2, SameApi
<1>6. CASE RecvDel
  <2>1. PICK r \in DelRequests : Begin(r) /\ rest' = r.keys
    BY <1>6 DEF RecvDel
  <2>2. r \in Requests /\ r.cmd = "DEL"
    BY DEF Requests, DelRequests
  <2> QED
    BY <1>2, <2>1, <2>2, SameApi
<1>7. CASE RecvFlush
  <2>1. PICK r \in FlushRequests : Begin(r) /\ UNCHANGED rest
    BY <1>7 DEF RecvFlush
  <2>2. r \in Requests /\ r.cmd = "FLUSHALL"
    BY DEF Requests, FlushRequests
  <2> QED
    BY <1>2, <1>3, <2>1, <2>2, SameApi
<1>8. CASE RecvLoad
  <2>1. PICK r \in LoadRequests : Begin(r) /\ UNCHANGED rest
    BY <1>8 DEF RecvLoad
  <2>2. r \in Requests /\ r.cmd = "LOADSTR"
    BY DEF Requests, LoadRequests
  <2> QED
    BY <1>2, <1>3, <2>1, <2>2, SameApi
<1> QED
  BY <1>4, <1>5, <1>6, <1>7, <1>8 DEF Receive

(* What is known of the request while a walk is on.                        *)
LEMMA RequestOfWalk ==
  ASSUME Known, pc = "find"
  PROVE  /\ op \in Requests /\ op # NULL /\ key \in Keys
         /\ op.cmd # "DEL" => key = op.key /\ rest = <<>> /\ count = 0
         /\ caller \in {"get", "purge"} => op.cmd \in {"GET", "SETBIT", "ZADD"}
         /\ caller = "set" => op.cmd \in {"SETBIT", "LOADBITMAP", "ZADD"}
         /\ caller = "setWithExpiry" => op.cmd = "SET"
         /\ caller = "del" => \/ op.cmd = "ZADD"
                              \/ op.cmd = "DEL" /\ rest \in Seq(Keys) /\ Len(rest) >= 1
<1>1. /\ op \in Requests /\ op # NULL /\ key \in Keys /\ rest \in Seq(Keys)
      /\ caller \in {"get", "purge", "set"} => op.cmd \in {"GET", "SETBIT", "LOADBITMAP", "ZADD"}
      /\ caller = "setWithExpiry" => op.cmd = "SET"
      /\ caller = "del" => op.cmd = "ZADD" \/ (op.cmd = "DEL" /\ Len(rest) >= 1)
  BY DEF Known, Inv, Typed, TypeOK, CallTypeOK, Control
<1>2. /\ op.cmd # "DEL" => key = op.key /\ rest = <<>> /\ count = 0
      /\ caller \in {"get", "purge"} => op.cmd # "LOADBITMAP"
      /\ caller = "set" => op.cmd # "GET"
  BY DEF Known, Serving
<1> QED
  BY <1>1, <1>2

(* A step that changes nothing the map can see.                            *)
LEMMA RefinesStutter ==
  ASSUME UNCHANGED <<clock, mem, stale, dup, op, since, rest, count, reply>>,
         op # NULL /\ op.cmd = "ZADD" => (caller = "del" <=> caller' = "del")
  PROVE  UNCHANGED KS!vars
BY ViewSame DEF KS!vars

(* The one node of a key goes, and its object with it.                     *)
LEMMA RefinesRemove ==
  ASSUME Known, Known', Promised, At, Remove
  PROVE  dbView' = [dbView EXCEPT ![key] = NULL]
<1>1. ~stale /\ ~dup /\ key \in Keys /\ Typed /\ Sound /\ KeysUnique
  BY ViewFound DEF Known, Inv, Promised
<1>2. OthersKept(key)
  BY <1>1, OthersRemove
<1>3. \A k : IsLinked(k)' => k # key
  BY <1>1, RemoveUnlinks
<1>4. dbView'[key] = NULL
  <2>1. PICK k \in Keys : k = key
    BY <1>1
  <2>2. \A a \in Addrs : ~(mem'[a] # NULL /\ mem'[a].key = k)
    BY <1>3, <2>1 DEF IsLinked, Free
  <2> QED
    BY <2>1, <2>2, ViewMissingNext
<1> QED
  BY <1>1, <1>2, <1>4, ViewOne

LEMMA RefinesGet ==
  ASSUME Known, Known', Promised, getHit \/ getMiss \/ purgeHit
  PROVE  KS!Next \/ UNCHANGED KS!vars
<1> USE DEF Promised
<1>1. CASE getHit
  <2>1. /\ At /\ pc = "find" /\ caller = "get" /\ ~isExpired(cur)
        /\ Answer(IF op.cmd = "GET" THEN GetReply(mem[cur].val) ELSE OnObject(op, mem[cur].val))
        /\ UNCHANGED <<clock, mem, stale>>
    BY <1>1 DEF getHit, At, heapVars
  <2>2. dbView' = dbView
    BY <2>1, ViewSame
  <2>3. op.cmd \in {"GET", "SETBIT", "ZADD"} /\ op # NULL /\ key = op.key /\ count = 0
    BY <2>1, RequestOfWalk
  <2>4. KS!Live(op.key) /\ dbView[op.key].val = mem[cur].val
    BY <2>1, <2>3, ViewFound
  <2>5. CASE op.cmd = "GET"
    BY <2>1, <2>2, <2>4, <2>3, <2>5, SameApi, RefinesReturn DEF KS!Next, KS!Get
  <2>6. CASE op.cmd # "GET"
    BY <2>1, <2>2, <2>4, <2>3, <2>6, SameApi, RefinesReturn DEF KS!Next, KS!Create
  <2> QED
    BY <2>5, <2>6
<1>2. CASE getMiss
  <2>1. /\ Missed /\ pc = "find" /\ caller \in {"get", "purge"} /\ gotNull(lists)
        /\ UNCHANGED <<clock, mem, stale, dup>>
    BY <1>2 DEF getMiss, Missed, heapVars
  <2>2. dbView' = dbView
    BY <2>1, ViewSame
  <2>3. op # NULL /\ key = op.key
    BY <2>1, RequestOfWalk
  <2>4. ~KS!Live(op.key) /\ dbView[op.key] = NULL
    BY <2>1, <2>3, ViewMissed
  <2>5. CASE op.cmd = "GET"
    <3>1. KS!Return(KS!Null)
      BY <2>1, <2>5, SameApi, RefinesReturn DEF gotNull
    <3>2. dbView' = [dbView EXCEPT ![op.key] = NULL]
      BY <2>2, <2>4 DEF dbView
    <3> QED
      BY <2>3, <2>4, <2>5, <3>1, <3>2 DEF KS!Next, KS!Get
  <2>6. CASE op.cmd # "GET"
    <3>1. caller' = "set" /\ UNCHANGED <<op, since, rest, count, reply>>
      BY <2>1, <2>6 DEF gotNull, Find
    <3> QED
      BY <2>1, <3>1, RefinesStutter
  <2> QED
    BY <2>5, <2>6
<1>3. CASE purgeHit
  <2>1. /\ At /\ pc = "find" /\ caller = "purge" /\ Remove /\ gotNull(lists')
        /\ UNCHANGED clock
    BY <1>3 DEF purgeHit, At
  <2>2. op # NULL /\ key = op.key /\ op.cmd \in {"GET", "SETBIT", "ZADD"}
    BY <2>1, RequestOfWalk
  <2>3. key \in Keys /\ isExpired(cur) /\ KS!Expired(key) /\ ~KS!Live(key)
    <3>1. key \in Keys /\ cur \in Addrs /\ mem[cur] # NULL /\ mem[cur].key = key
      BY <2>1, ViewFound, DictAssumption DEF At
    <3>2. isExpired(cur)
      BY <2>1, <3>1 DEF Known, LookedUp
    <3> QED
      BY <2>1, <3>1, <3>2, ViewFound
  <2>4. dbView' = [dbView EXCEPT ![key] = NULL]
    BY <2>1, <2>3, RefinesRemove
  <2>5. CASE op.cmd = "GET"
    <3>1. KS!Return(KS!Null)
      BY <2>1, <2>5, SameApi, RefinesReturn DEF gotNull
    <3> QED
      BY <2>2, <2>3, <2>4, <2>5, <3>1 DEF KS!Next, KS!Get
  <2>6. CASE op.cmd # "GET"
    <3>1. caller' = "set" /\ UNCHANGED <<op, since, rest, count, reply>>
      BY <2>1, <2>6 DEF gotNull, Find
    <3> QED
      BY <2>1, <2>2, <2>3, <2>4, <2>6, <3>1 DEF KS!Next, KS!Purge
  <2> QED
    BY <2>5, <2>6
<1> QED
  BY <1>1, <1>2, <1>3

(* A new node for a key that had none, or a new object in the node found.  *)
LEMMA RefinesAdd ==
  ASSUME Known, Known', Promised, pc \in {"find", "load"}, Serve,
         NEW v \in Values, NEW e \in Nat, Add(mem, key, v, e)
  PROVE  key \in Keys /\ dbView' = [dbView EXCEPT ![key] = [val |-> v, exp |-> e]]
<1>1. /\ Inv /\ ~stale /\ ~dup /\ pc # "flush" /\ key \in Keys
      /\ TypeOK /\ Shape /\ mem \in Heap
  BY SoundCall DEF Known, Inv, Typed, Control, Promised, TypeOK, HeapTypeOK, Heap
<1>2. PICK a \in Addrs : Stored(mem, a, key, v, e)
  BY <1>1, AddStores
<1>3. dbView'[key] = [val |-> v, exp |-> e]
  BY <1>1, <1>2, ViewStored DEF Stored
<1>4. OthersKept(key)
  BY <1>1, ServeOthers
<1> QED
  BY <1>1, <1>3, <1>4, ViewOne

LEMMA RefinesRelabel ==
  ASSUME Known, Known', Promised, At, Serve,
         NEW v \in Values, NEW e \in Nat,
         \/ e = mem[cur].exp /\ mem' = [mem EXCEPT ![cur].val = v]
         \/ mem' = [mem EXCEPT ![cur].val = v, ![cur].exp = e]
  PROVE  dbView' = [dbView EXCEPT ![key] = [val |-> v, exp |-> e]]
<1>1. /\ Inv /\ ~stale /\ ~dup /\ pc # "flush" /\ key \in Keys /\ cur \in Addrs
      /\ mem[cur] \in Node /\ mem[cur].key = key /\ mem \in Heap
  BY ViewFound DEF Known, Inv, Typed, TypeOK, HeapTypeOK, Heap, At, Promised
<1>2. mem'[cur] \in Node /\ mem'[cur].key = key /\ mem'[cur].val = v /\ mem'[cur].exp = e
  <2>1. CASE e = mem[cur].exp /\ mem' = [mem EXCEPT ![cur].val = v]
    <3>1. mem'[cur] = [mem[cur] EXCEPT !.val = v]
      BY <1>1, <2>1 DEF Heap
    <3> QED
      BY <1>1, <2>1, <3>1 DEF Node
  <2>2. CASE mem' = [mem EXCEPT ![cur].val = v, ![cur].exp = e]
    <3>1. mem'[cur] = [mem[cur] EXCEPT !.val = v, !.exp = e]
      BY <1>1, <2>2 DEF Heap
    <3> QED
      BY <1>1, <3>1 DEF Node
  <2> QED
    BY <2>1, <2>2
<1>3. dbView'[key] = [val |-> v, exp |-> e]
  BY <1>1, <1>2, ViewStored, DictAssumption
<1>4. OthersKept(key)
  BY <1>1, ServeOthers
<1> QED
  BY <1>1, <1>3, <1>4, ViewOne

LEMMA RefinesSet ==
  ASSUME Known, Known', Promised, Serve, setHit \/ setMiss
  PROVE  KS!Next
<1> USE DEF Promised
<1>1. CASE setHit
  <2>1. /\ At /\ pc = "find" /\ caller = "set" /\ Answer(OK) /\ UNCHANGED clock
        /\ mem' = [mem EXCEPT ![cur].val = ObjectOf(op)]
    BY <1>1 DEF setHit, At
  <2>2. op # NULL /\ op.cmd = "LOADBITMAP" /\ key = op.key /\ count = 0
    <3>1. IsLinked(key)
      BY <2>1, ViewFound DEF IsLinked, At
    <3> QED
      BY <2>1, <3>1, RequestOfWalk DEF Known, LookedUp
  <2>3. /\ dbView[key] # NULL /\ mem[cur].exp \in Nat /\ ObjectOf(op) \in Values
        /\ dbView[key].exp = mem[cur].exp
    BY <2>1, ViewFound, ObjectType DEF Node
  <2>4. dbView' = [dbView EXCEPT ![key] = [val |-> ObjectOf(op), exp |-> mem[cur].exp]]
    BY <2>1, <2>3, RefinesRelabel
  <2>5. KS!Return(KS!OK)
    BY <2>1, SameApi, RefinesReturn
  <2>6. KS!Create
    BY <2>2, <2>3, <2>4, <2>5, SameApi DEF KS!Create
  <2> QED
    BY <2>6 DEF KS!Next
<1>2. CASE setMiss
  <2>1. /\ Missed /\ pc = "find" /\ caller = "set" /\ UNCHANGED clock
        /\ Add(mem, key, ObjectOf(op), DefaultExpiry)
    BY <1>2 DEF setMiss, Missed
  <2>2. op # NULL /\ op.cmd \in {"SETBIT", "LOADBITMAP", "ZADD"} /\ key = op.key /\ count = 0
    BY <2>1, RequestOfWalk
  <2>3. dbView[key] = NULL
    BY <2>1, ViewMissed
  <2>4. dbView' = [dbView EXCEPT ![key] = [val |-> ObjectOf(op), exp |-> DefaultExpiry]]
    BY <2>1, ObjectType, DictAssumption, RefinesAdd
  <2>5. CASE op.cmd = "ZADD" /\ ~op.adds
    <3>1. caller' = "del" /\ UNCHANGED <<op, since, rest, reply>>
      BY <1>2, <2>5 DEF setMiss, Find
    <3> QED
      BY <2>1, <2>2, <2>3, <2>4, <2>5, <3>1, SameApi DEF KS!Next, KS!Create
  <2>6. CASE ~(op.cmd = "ZADD" /\ ~op.adds)
    <3>1. KS!Return(KS!OK)
      BY <1>2, <2>1, <2>6, SameApi, RefinesReturn DEF setMiss
    <3> QED
      BY <2>1, <2>2, <2>3, <2>4, <2>6, <3>1, SameApi DEF KS!Next, KS!Create
  <2> QED
    BY <2>5, <2>6
<1> QED
  BY <1>1, <1>2

LEMMA RefinesSetWithExpiry ==
  ASSUME Known, Known', Promised, Serve, setxHit \/ setxMiss \/ Refuse
  PROVE  KS!Next
<1> USE DEF Promised
<1>1. CASE Refuse
  <2>1. /\ op # NULL /\ op.cmd = "SET" /\ op.nx /\ op.xx
        /\ Answer(Null) /\ UNCHANGED <<clock, mem, stale>>
    BY <1>1 DEF Refuse, Known, Inv, Typed, Control, Serving, heapVars
  <2> QED
    BY <2>1, ViewSame, SameApi, RefinesReturn DEF KS!Next, KS!Set
<1>2. ASSUME pc = "find", caller = "setWithExpiry"
      PROVE  /\ op # NULL /\ op.cmd = "SET" /\ key = op.key
             /\ op.val \in Values /\ ExpiryOf(op) \in Nat /\ since \in since..clock
             /\ op.nx \in BOOLEAN /\ op.xx \in BOOLEAN
  <2>1. op # NULL /\ op.cmd = "SET" /\ key = op.key /\ op \in Requests
    BY <1>2, RequestOfWalk
  <2>2. op.val \in Values /\ ExpiryOf(op) \in Nat
    BY <1>2, SetFields DEF Known, Inv
  <2>3. since \in Nat /\ clock \in Nat /\ since <= clock
    BY DEF Known, Inv, Typed, TypeOK, CallTypeOK, Serving
  <2> QED
    BY <2>1, <2>2, <2>3, RequestFields
<1>3. CASE setxHit
  <2>1. /\ At /\ pc = "find" /\ caller = "setWithExpiry" /\ ~isExpired(cur)
        /\ UNCHANGED <<clock, stale>>
        /\ \/ op.nx /\ Answer(Null) /\ UNCHANGED mem
           \/ /\ ~op.nx /\ Answer(OK)
              /\ mem' = [mem EXCEPT ![cur].val = op.val, ![cur].exp = ExpiryOf(op)]
    BY <1>2, <1>3 DEF setxHit, At
  <2>2. KS!Live(op.key)
    BY <1>2, <2>1, ViewFound
  <2>3. CASE op.nx /\ Answer(Null) /\ UNCHANGED mem
    BY <1>2, <2>1, <2>2, <2>3, ViewSame, SameApi, RefinesReturn DEF KS!Next, KS!Set
  <2>4. CASE /\ ~op.nx /\ Answer(OK)
             /\ mem' = [mem EXCEPT ![cur].val = op.val, ![cur].exp = ExpiryOf(op)]
    <3>1. dbView' = [dbView EXCEPT ![op.key] = [val |-> op.val, exp |-> ExpiryOf(op)]]
      BY <1>2, <2>1, <2>4, RefinesRelabel
    <3>2. KS!Return(KS!OK)
      BY <2>1, <2>4, SameApi, RefinesReturn
    <3>3. \E t \in since..clock :
            dbView' = [dbView EXCEPT ![op.key] =
                         [val |-> op.val,
                          exp |-> IF op.ttl = 0 THEN DefaultExpiry ELSE op.ttl + t]]
      BY <1>2, <2>1, <3>1 DEF ExpiryOf
    <3>4. KS!Set
      BY <1>2, <2>1, <2>2, <2>4, <3>2, <3>3 DEF KS!Set
    <3> QED
      BY <3>4 DEF KS!Next
  <2> QED
    BY <2>1, <2>3, <2>4
<1>4. CASE setxMiss
  <2>1. /\ Missed /\ pc = "find" /\ caller = "setWithExpiry"
        /\ UNCHANGED <<clock, stale>>
        /\ \/ op.xx /\ Answer(Null) /\ UNCHANGED mem
           \/ ~op.xx /\ Answer(OK) /\ Add(mem, key, op.val, ExpiryOf(op))
    BY <1>2, <1>4 DEF setxMiss, Missed
  <2>2. ~KS!Live(op.key)
    BY <1>2, <2>1, ViewMissed
  <2>3. CASE op.xx /\ Answer(Null) /\ UNCHANGED mem
    BY <1>2, <2>1, <2>2, <2>3, ViewSame, SameApi, RefinesReturn DEF KS!Next, KS!Set
  <2>4. CASE ~op.xx /\ Answer(OK) /\ Add(mem, key, op.val, ExpiryOf(op))
    <3>1. dbView' = [dbView EXCEPT ![op.key] = [val |-> op.val, exp |-> ExpiryOf(op)]]
      BY <1>2, <2>1, <2>4, RefinesAdd
    <3>2. KS!Return(KS!OK)
      BY <2>1, <2>4, SameApi, RefinesReturn
    <3>3. \E t \in since..clock :
            dbView' = [dbView EXCEPT ![op.key] =
                         [val |-> op.val,
                          exp |-> IF op.ttl = 0 THEN DefaultExpiry ELSE op.ttl + t]]
      BY <1>2, <2>1, <3>1 DEF ExpiryOf
    <3>4. KS!Set
      BY <1>2, <2>1, <2>2, <2>4, <3>2, <3>3 DEF KS!Set
    <3> QED
      BY <3>4 DEF KS!Next
  <2> QED
    BY <2>1, <2>3, <2>4
<1> QED
  BY <1>1, <1>3, <1>4

LEMMA RefinesLoad ==
  ASSUME Known, Known', Promised, Serve, setFromLoad
  PROVE  KS!Next
<1> USE DEF Promised
<1>1. /\ pc = "load" /\ Answer(OK) /\ UNCHANGED <<clock, stale>>
      /\ IF op.exp < clock
         THEN UNCHANGED mem
         ELSE Add(mem, key, op.val, op.exp) /\ ~IsLinked(key)
  BY DEF setFromLoad
<1>2. /\ op # NULL /\ op \in Requests /\ op.cmd = "LOADSTR" /\ key = op.key /\ key \in Keys
  BY <1>1 DEF Known, Inv, Typed, TypeOK, CallTypeOK, Control, Serving
<1>3. op.val \in Values /\ op.exp \in Nat
  BY <1>2, RequestFields DEF Values
<1>4. KS!Return(KS!OK)
  BY <1>1, SameApi, RefinesReturn
<1>5. CASE op.exp < clock
  BY <1>1, <1>2, <1>4, <1>5, ViewSame DEF KS!Next, KS!Load
<1>6. CASE ~(op.exp < clock)
  <2>1. dbView[key] = NULL
    BY <1>1, <1>2, <1>6, ViewMissing
  <2>2. dbView' = [dbView EXCEPT ![key] = [val |-> op.val, exp |-> op.exp]]
    BY <1>1, <1>3, <1>6, RefinesAdd
  <2> QED
    BY <1>2, <1>4, <1>6, <2>1, <2>2 DEF KS!Next, KS!Load
<1> QED
  BY <1>5, <1>6

(* del of the key the walk was for, of a DEL or at the end of a ZADD.      *)
LEMMA RefinesDelNext ==
  ASSUME Known, Known', Promised, pc = "find", caller = "del", UNCHANGED clock,
         dbView' = [dbView EXCEPT ![key] = NULL],
         NEW tbl, NEW n, delNext(n, tbl),
         n = count + IF KS!Live(key) THEN 1 ELSE 0
  PROVE  KS!Next
<1> USE DEF Promised
<1>1. (op # NULL /\ key = Head(rest)) \/ op.cmd = "ZADD"
  BY RequestOfWalk DEF Known, Serving
<1>2. CASE op.cmd = "ZADD"
  <2>1. op # NULL /\ key = op.key
    BY <1>2, RequestOfWalk
  <2>2. KS!Return(KS!OK)
    BY <1>2, SameApi, RefinesReturn DEF delNext
  <2> QED
    BY <1>2, <2>1, <2>2 DEF KS!Next, KS!DropEmptyZset
<1>3. CASE op.cmd = "DEL"
  <2>1. op # NULL /\ key = Head(rest) /\ rest \in Seq(Keys) /\ Len(rest) >= 1
    BY <1>3, RequestOfWalk DEF Known, Serving
  <2>2. rest # <<>> /\ (Len(rest) = 1 <=> Tail(rest) = <<>>)
    BY <2>1, KeysLeft
  <2>3. CASE Len(rest) = 1
    <3>1. KS!Return(KS!Integer(n))
      BY <1>3, <2>3, SameApi, RefinesReturn DEF delNext
    <3> QED
      BY <1>3, <2>1, <2>2, <2>3, <3>1 DEF KS!Next, KS!Delete
  <2>4. CASE Len(rest) # 1
    <3>1. rest' = Tail(rest) /\ count' = n /\ UNCHANGED <<op, since, reply>>
      BY <1>3, <2>4 DEF delNext
    <3>2. KS!Delete
      BY <1>3, <2>1, <2>2, <2>4, <3>1 DEF KS!Delete
    <3> QED
      BY <3>2 DEF KS!Next
  <2> QED
    BY <2>3, <2>4
<1> QED
  BY <1>2, <1>3, RequestOfWalk

LEMMA RefinesDel ==
  ASSUME Known, Known', Promised, delHit \/ delMiss
  PROVE  KS!Next
<1> USE DEF Promised
<1>1. CASE delHit
  <2>1. /\ At /\ pc = "find" /\ caller = "del" /\ Remove /\ UNCHANGED clock
        /\ delNext(count + IF isExpired(cur) THEN 0 ELSE 1, lists')
    BY <1>1 DEF delHit, At
  <2>2. dbView' = [dbView EXCEPT ![key] = NULL]
    BY <2>1, RefinesRemove
  <2>3. KS!Live(key) <=> ~isExpired(cur)
    BY <2>1, ViewFound
  <2>4. (count + IF isExpired(cur) THEN 0 ELSE 1) = count + IF KS!Live(key) THEN 1 ELSE 0
    BY <2>3
  <2> QED
    BY <2>1, <2>2, <2>4, RefinesDelNext
<1>2. CASE delMiss
  <2>1. /\ Missed /\ pc = "find" /\ caller = "del" /\ UNCHANGED <<clock, mem, stale>>
        /\ delNext(count, lists)
    BY <1>2 DEF delMiss, Missed, heapVars
  <2>2. dbView[key] = NULL /\ ~KS!Live(key)
    BY <2>1, ViewMissed
  <2>3. dbView' = [dbView EXCEPT ![key] = NULL]
    <3>1. dbView' = dbView
      BY <2>1, ViewSame
    <3>2. dbView = [j \in Keys |-> dbView[j]]
      BY DEF dbView
    <3> QED
      BY ONLY <2>2, <3>1, <3>2
  <2>4. count = count + IF KS!Live(key) THEN 1 ELSE 0
    <3>1. count \in Nat
      BY DEF Known, Inv, Typed, TypeOK, CallTypeOK
    <3> QED
      BY <2>2, <3>1
  <2> QED
    BY <2>1, <2>3, <2>4, RefinesDelNext
<1> QED
  BY <1>1, <1>2

LEMMA RefinesFlush ==
  ASSUME Known, Known', Promised, flushNode \/ flushDone
  PROVE  KS!Next
<1> USE DEF Promised
<1>1. op # NULL /\ op.cmd = "FLUSHALL" /\ Typed /\ Sound
  BY DEF flushNode, flushDone, Known, Inv, Typed, Control, Serving
<1>2. CASE flushNode
  <2>1. /\ mem[cur] # NULL /\ cur \in Addrs /\ mem'[cur] = NULL
        /\ \A x \in Addrs \ {cur} : Kept(x)
    BY <1>1, <1>2, FlushFrees
  <2>2. PICK k \in Keys : k = mem[cur].key
    BY <1>1, <2>1 DEF Typed, TypeOK, HeapTypeOK, Node
  <2>3. OthersKept(k)
    BY <2>1, <2>2 DEF OthersKept
  <2>4. \A a \in Addrs : ~(mem'[a] # NULL /\ mem'[a].key = k)
    <3> SUFFICES ASSUME NEW a \in Addrs, mem'[a] # NULL, mem'[a].key = k PROVE FALSE
      OBVIOUS
    <3>1. a # cur
      BY <2>1
    <3>2. mem[a] # NULL /\ mem[a].key = k
      BY <2>1, <3>1 DEF Kept, SameObject
    <3> QED
      BY <2>1, <2>2, <3>1, <3>2 DEF Known, KeysUnique, Free
  <2>5. dbView'[k] = NULL
    BY <2>4, ViewMissingNext
  <2>6. dbView' = [dbView EXCEPT ![k] = NULL]
    BY <2>3, <2>5, ViewOne
  <2>7. UNCHANGED <<clock, op, since, rest, count, reply, stale, dup, caller>>
    BY <1>2 DEF flushNode
  <2> QED
    BY <1>1, <2>6, <2>7 DEF KS!Next, KS!Forget
<1>3. CASE flushDone
  <2>1. /\ pc = "flush" /\ cur = NULL /\ bkt = NBuckets
        /\ Answer(OK) /\ UNCHANGED <<clock, mem, stale>>
    BY <1>3 DEF flushDone
  <2>2. Accounted /\ Flushing
    BY <1>1, <2>1 DEF Sound
  <2>3. ASSUME NEW b \in Buckets PROVE chain[b] = <<>>
    <3>1. /\ chain[b] \in Seq(Addrs)
          /\ (b \in Nat /\ b < NBuckets) \/ b = NBuckets
      BY <1>1, DictAssumption DEF Typed, TypeOK, HeapTypeOK, Buckets
    <3>2. CASE b = NBuckets
      BY <2>1, <2>2, <3>1, <3>2, DictAssumption DEF Flushing, LastOf
    <3> QED
      BY <2>1, <2>2, <3>1, <3>2 DEF Flushing
  <2>4. \A a \in Addrs : mem[a] = NULL
    BY <2>2, <2>3 DEF Accounted, Free
  <2>5. \A k \in Keys : dbView[k] = NULL
    BY <2>4, ViewMissing DEF IsLinked, Free
  <2> QED
    BY <1>1, <2>1, <2>5, ViewSame, SameApi, RefinesReturn DEF KS!Next, KS!Flushed
<1> QED
  BY <1>2, <1>3

(* The steps of the walks themselves.                                      *)
LEMMA RefinesWalk ==
  ASSUME Known, findNext \/ getExpired \/ flushBucket
  PROVE  UNCHANGED KS!vars
<1>1. UNCHANGED <<clock, mem, stale, dup, op, since, rest, count, reply>>
  BY DEF findNext, getExpired, flushBucket, heapVars
<1>2. caller = "del" <=> caller' = "del"
  BY DEF findNext, getExpired, flushBucket, Find
<1> QED
  BY <1>1, <1>2, RefinesStutter

(* The promise ends only at a SET on an expired key and at a row loaded    *)
(* over a key that is there, and it does not come back.                    *)
LEMMA RefinesBreak ==
  ASSUME Known, Serve, stale \/ dup \/ stale' \/ dup'
  PROVE  KS!Break
<1>1. stale' \/ dup'
  BY HistoryStays
<1>2. CASE stale \/ dup
  BY <1>1, <1>2 DEF KS!Break
<1>3. CASE ~stale /\ ~dup
  <2>1. setxExpired \/ setFromLoad
    BY <1>1, <1>3 DEF Serve, Refuse, findNext, getHit, getExpired, getMiss, purgeHit, Remove,
       setHit, setMiss, setxHit, setxMiss, delHit, delMiss, flushNode, flushBucket, flushDone,
       readFreed, writeFreed, Undefined, heapVars
  <2>2. CASE setxExpired
    <3>1. At /\ pc = "find" /\ caller = "setWithExpiry" /\ isExpired(cur)
      BY <2>2 DEF setxExpired, At
    <3>2. op # NULL /\ op.cmd = "SET" /\ key = op.key
      BY <3>1, RequestOfWalk
    <3>3. KS!Expired(op.key)
      BY <1>3, <3>1, <3>2, ViewFound
    <3> QED
      BY <1>1, <3>2, <3>3 DEF KS!Break
  <2>3. CASE setFromLoad
    <3>1. pc = "load" /\ UNCHANGED stale /\ (dup' = dup \/ dup' = (dup \/ IsLinked(key)))
      BY <2>3 DEF setFromLoad
    <3>2. op # NULL /\ op.cmd = "LOADSTR" /\ key = op.key /\ key \in Keys
      BY <3>1, DictAssumption DEF Known, Inv, Typed, TypeOK, CallTypeOK, Control, Serving
    <3>3. IsLinked(key)
      BY <1>1, <1>3, <3>1
    <3>4. dbView[key] # NULL
      <4>1. PICK a \in Addrs : mem[a] # NULL /\ mem[a].key = key
        BY <3>3 DEF IsLinked, Free
      <4>2. dbView = View(mem) /\ OneNode(mem) /\ mem[a] \in Node
        BY <1>3, <4>1, dbViewIs DEF Known, Inv, Typed, TypeOK, HeapTypeOK
      <4>3. dbView[key] = [val |-> mem[a].val, exp |-> mem[a].exp]
        BY <3>2, <4>1, <4>2, ViewAt
      <4>4. mem[a].val \in Values /\ mem[a].exp \in Nat
        BY <4>2 DEF Node
      <4> QED
        BY <4>3, <4>4, ApiAssumption
    <3> QED
      BY <1>1, <3>2, <3>4 DEF KS!Break
  <2> QED
    BY <2>1, <2>2, <2>3
<1> QED
  BY <1>2, <1>3

LEMMA RefinesServe ==
  ASSUME Known, Known', Serve
  PROVE  KS!Next \/ UNCHANGED KS!vars
<1>1. CASE stale \/ dup \/ stale' \/ dup'
  BY <1>1, RefinesBreak DEF KS!Next
<1>2. CASE ~(stale \/ dup \/ stale' \/ dup')
  <2>1. Promised
    BY <1>2 DEF Promised
  <2>2. ~setxExpired /\ ~readFreed /\ ~writeFreed
    BY <1>2, NoReadFreed, NoWriteFreed DEF Known, Inv, setxExpired
  <2>3. \/ getHit \/ getMiss \/ purgeHit
        \/ setHit \/ setMiss
        \/ setxHit \/ setxMiss \/ Refuse
        \/ setFromLoad
        \/ delHit \/ delMiss
        \/ flushNode \/ flushDone
        \/ findNext \/ getExpired \/ flushBucket
    BY <2>2 DEF Serve
  <2> QED
    BY <2>1, <2>3, RefinesGet, RefinesSet, RefinesSetWithExpiry, RefinesLoad, RefinesDel,
       RefinesFlush, RefinesWalk
<1> QED
  BY <1>1, <1>2

LEMMA RefinesInit == Init => KS!Init
<1> SUFFICES ASSUME Init PROVE KS!Init
  OBVIOUS
<1>1. dbView = [k \in Keys |-> NULL]
  BY DEF Init, dbView, IsLinked, Free
<1> QED
  BY <1>1, SameApi DEF Init, KS!Init

(* The table implements the keyspace: every command takes effect on one    *)
(* map from keys to objects, at one step between its request and its       *)
(* reply, and is answered as that map says (hashtable.c:36-100), until a   *)
(* SET meets its key expired or a row is loaded over a key.                *)
THEOREM DictImplementsKeyspace == Spec => ImplementsKeyspace
<1>1. Known /\ Known' /\ [Next]_vars => [KS!Next]_(KS!vars)
  <2> SUFFICES ASSUME Known, Known', [Next]_vars PROVE KS!Next \/ UNCHANGED KS!vars
    OBVIOUS
  <2>1. CASE Receive
    BY <2>1, RefinesReceive DEF KS!Next
  <2>2. CASE Serve
    BY <2>2, RefinesServe
  <2>3. CASE Tick
    BY <2>3, RefinesTick DEF KS!Next
  <2>4. CASE UNCHANGED vars
    BY <2>4, RefinesStutter DEF vars, heapVars, callVars
  <2> QED
    BY <2>1, <2>2, <2>3, <2>4 DEF Next
<1> QED
  BY RefinesInit, KnownInvariant, <1>1, PTL DEF Spec, ImplementsKeyspace, KS!Spec
=============================================================================
