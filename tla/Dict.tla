-------------------------------- MODULE Dict --------------------------------
(***************************************************************************)
(* The master hash table HASH_TABLE: buckets that are doubly linked lists  *)
(* of heap nodes (ds/linkedlist.c), the calls get, set, setWithExpiry,     *)
(* setFromLoad, del and freeHashTable on it (ds/hashtable.c), and the      *)
(* commands that make those calls (ds/commands.c).                         *)
(*                                                                         *)
(* The server is one thread: a request is served to its reply before the   *)
(* next is read.  findNode and freeLinkedList walk the lists one node a    *)
(* step, so that a walk that meets a freed node, or never ends, shows;     *)
(* what a call does where its walk stopped is one step.  The clock moves   *)
(* at any time.                                                            *)
(*                                                                         *)
(* malloc returns any address that is not in use: a freed node's address   *)
(* may come back at once.  Touching a freed node is undefined behaviour    *)
(* and ends the run in pc = "undefined".                                   *)
(*                                                                         *)
(* The definitions from isExpiredEarly to flushDoneSkipsLast that no       *)
(* action uses (see PROJECT.json, "mutants") are bugs this code could      *)
(* have had; each is placed before the definition it would replace.        *)
(***************************************************************************)
EXTENDS Api, FiniteSets

CONSTANTS
  Addrs,         (* the addresses of list nodes                             *)
  NBuckets,      (* the size of the hash table                              *)
  Hash,          (* stringHash: the bucket of a key                         *)
  DefaultExpiry, (* DEFAULT_EXPIRY_MS                                       *)
  MaxClock       (* bound on the clock                                      *)

Buckets == 1..NBuckets

Node == [key : Keys, val : Values, exp : Nat,
         next : Addrs \cup {NULL}, prev : Addrs \cup {NULL}]
List == [head : Addrs \cup {NULL}, tail : Addrs \cup {NULL}, size : Int]

ASSUME DictAssumption ==
  /\ NBuckets \in Nat \ {0}
  /\ Hash \in [Keys -> Buckets]
  /\ DefaultExpiry \in Nat /\ MaxClock \in Nat
  /\ NULL \notin Addrs /\ NULL \notin Node /\ NULL \notin Requests

VARIABLES
  clock,   (* timeStamp()                                                   *)
  mem,     (* the list node at each address, NULL where nothing is allocated *)
  lists,   (* the linkedList of each bucket                                 *)
  pc,      (* idle, find, flush or undefined                                *)
  caller,  (* whose findNode is running: get, purge (the del inside get),   *)
           (* set, setWithExpiry or del                                     *)
  op,      (* the request being served, NULL when there is none             *)
  key,     (* the key findNode looks for                                    *)
  cur,     (* tmp of findNode, node of freeLinkedList                       *)
  bkt,     (* the bucket freeHashTable is at                                *)
  since,   (* xp of setWithExpiry: the clock when the call began            *)
  rest,    (* the keys a DEL has still to look up                           *)
  count,   (* the keys it has deleted                                       *)
  reply,   (* the last reply                                                *)
  chain,   (* history: the addresses linked into each bucket, in order      *)
  stale,   (* history: a node was freed while it was linked                 *)
  dup      (* history: setFromLoad linked a key that was linked already     *)

heapVars == <<mem, lists, chain, stale, dup>>
callVars == <<pc, caller, op, key, cur, bkt, since, rest, count, reply>>
vars == <<clock, heapVars, callVars>>

-----------------------------------------------------------------------------
(* Linked lists                                                            *)

Free(a) == mem[a] = NULL

newNode(k, v, e) == [key |-> k, val |-> v, exp |-> e, next |-> NULL, prev |-> NULL]

isExpiredEarly(a) == mem[a].val \in Strings /\ mem[a].exp <= clock

isExpired(a) == mem[a].val \in Strings /\ mem[a].exp < clock

(* addNodeToList: m is the heap with the new node in place at a.           *)
Linked(m, l, a) ==
  IF l.head = NULL THEN m ELSE [m EXCEPT ![l.tail].next = a, ![a].prev = l.tail]

Extended(l, a) ==
  [head |-> IF l.head = NULL THEN a ELSE l.head, tail |-> a, size |-> l.size + 1]

(* removeNodeFromList: the nodes whose links it writes, the heap and the   *)
(* list it leaves behind.                                                  *)
Neighbours(l, a) ==
  IF l.size = 1 THEN {}
  ELSE IF mem[a].prev = NULL THEN {mem[a].next}
  ELSE IF mem[a].next = NULL THEN {mem[a].prev}
  ELSE {mem[a].prev, mem[a].next}

UnlinkedPrevOnly(l, a) ==
  [x \in Addrs |->
     IF x \in Neighbours(l, a)
     THEN [mem[x] EXCEPT !.prev = IF x = mem[a].next THEN mem[a].prev ELSE @]
     ELSE mem[x]]

Unlinked(l, a) ==
  [x \in Addrs |->
     IF x \in Neighbours(l, a)
     THEN [mem[x] EXCEPT !.next = IF x = mem[a].prev THEN mem[a].next ELSE @,
                         !.prev = IF x = mem[a].next THEN mem[a].prev ELSE @]
     ELSE mem[x]]

ShortenedKeepsTail(l, a) ==
  IF l.size = 1
  THEN [head |-> NULL, tail |-> NULL, size |-> 0]
  ELSE [head |-> IF mem[a].prev = NULL THEN mem[a].next ELSE l.head,
        tail |-> l.tail, size |-> l.size - 1]

Shortened(l, a) ==
  IF l.size = 1
  THEN [head |-> NULL, tail |-> NULL, size |-> 0]
  ELSE [head |-> IF mem[a].prev = NULL THEN mem[a].next ELSE l.head,
        tail |-> IF mem[a].prev # NULL /\ mem[a].next = NULL THEN mem[a].prev ELSE l.tail,
        size |-> l.size - 1]

IsLinked(k) == \E a \in Addrs : ~Free(a) /\ mem[a].key = k

(* The history of a bucket: s without the address a.                       *)
Without(s, a) ==
  LET i == CHOOSE j \in DOMAIN s : s[j] = a
  IN [j \in 1..(Len(s) - 1) |-> IF j < i THEN s[j] ELSE s[j + 1]]

Touchable(S) == \A x \in S : x # NULL /\ ~Free(x)

-----------------------------------------------------------------------------
(* Steps shared by the calls                                               *)

(* A call of findNode on the bucket of k, in the table tbl.                *)
Find(who, k, tbl) ==
  /\ pc' = "find" /\ caller' = who
  /\ key' = k /\ cur' = tbl[Hash[k]].head

(* The command returns: the reply is written and the request is done.      *)
Answer(r) ==
  /\ pc' = "idle" /\ caller' = NULL /\ op' = NULL /\ key' = NULL
  /\ cur' = NULL /\ bkt' = 1 /\ since' = 0 /\ rest' = <<>> /\ count' = 0
  /\ reply' = r

Undefined ==
  /\ pc' = "undefined"
  /\ UNCHANGED <<heapVars, caller, op, key, cur, bkt, since, rest, count, reply>>

(* newNode and addNodeToList for key, in the heap m, at an address free in *)
(* m.  Writing through a tail that has been freed is undefined.            *)
Add(m, k, v, e) ==
  LET b == Hash[k]
      l == lists[b]
  IN \E a \in {x \in Addrs : m[x] = NULL} :
       LET m1 == [m EXCEPT ![a] = newNode(k, v, e)]
       IN /\ l.head # NULL => m1[l.tail] # NULL
          /\ mem' = Linked(m1, l, a)
          /\ lists' = [lists EXCEPT ![b] = Extended(l, a)]
          /\ chain' = IF stale THEN chain ELSE [chain EXCEPT ![b] = Append(@, a)]

AddIsUndefined(m, k) ==
  LET l == lists[Hash[k]]
  IN l.head # NULL /\ m[l.tail] = NULL /\ \E a \in Addrs \ {l.tail} : m[a] = NULL

RemoveNotFreed ==
  LET b == Hash[key]
      l == lists[b]
  IN /\ Touchable(Neighbours(l, cur))
     /\ mem' = Unlinked(l, cur)
     /\ lists' = [lists EXCEPT ![b] = Shortened(l, cur)]
     /\ chain' = IF stale THEN chain ELSE [chain EXCEPT ![b] = Without(@, cur)]
     /\ UNCHANGED <<stale, dup>>

RemoveFreesHead ==
  LET b == Hash[key]
      l == lists[b]
  IN /\ Touchable(Neighbours(l, cur))
     /\ mem' = [Unlinked(l, cur) EXCEPT ![l.head] = NULL]
     /\ lists' = [lists EXCEPT ![b] = Shortened(l, cur)]
     /\ chain' = IF stale THEN chain ELSE [chain EXCEPT ![b] = Without(@, cur)]
     /\ UNCHANGED <<stale, dup>>

(* removeNodeFromList and freeListNode of the node found.                  *)
Remove ==
  LET b == Hash[key]
      l == lists[b]
  IN /\ Touchable(Neighbours(l, cur))
     /\ mem' = [Unlinked(l, cur) EXCEPT ![cur] = NULL]
     /\ lists' = [lists EXCEPT ![b] = Shortened(l, cur)]
     /\ chain' = IF stale THEN chain ELSE [chain EXCEPT ![b] = Without(@, cur)]
     /\ UNCHANGED <<stale, dup>>

-----------------------------------------------------------------------------
(* Requests                                                                *)

Begin(r) ==
  /\ pc = "idle"
  /\ op' = r /\ since' = clock /\ reply' = NoReply
  /\ UNCHANGED <<clock, heapVars, count>>

RecvLookup ==
  \E r \in GetRequests \cup ZaddRequests :
    /\ Begin(r)
    /\ Find(IF r.cmd = "LOADBITMAP" THEN "set" ELSE "get", r.key, lists)
    /\ UNCHANGED <<bkt, rest>>

(* setCommand answers NX together with XX before it touches the table: the *)
(* request then has no call to make and pc is "refuse".                    *)
RecvSet ==
  \E r \in SetRequests :
    /\ Begin(r)
    /\ IF r.nx /\ r.xx
       THEN pc' = "refuse" /\ UNCHANGED <<caller, key, cur>>
       ELSE Find("setWithExpiry", r.key, lists)
    /\ UNCHANGED <<bkt, rest>>

Refuse ==
  /\ pc = "refuse"
  /\ Answer(Null)
  /\ UNCHANGED <<clock, heapVars>>

RecvDel ==
  \E r \in DelRequests :
    /\ Begin(r)
    /\ Find("del", Head(r.keys), lists)
    /\ rest' = r.keys
    /\ UNCHANGED bkt

RecvFlush ==
  /\ \E r \in FlushRequests : Begin(r)
  /\ pc' = "flush" /\ bkt' = 1 /\ cur' = lists[1].tail
  /\ UNCHANGED <<caller, key, rest>>

(* Bound: a row is loaded only while the keys that are not linked would    *)
(* still find an address each.                                             *)
RecvLoad ==
  \E r \in LoadRequests :
    /\ Cardinality({a \in Addrs : Free(a)}) > Cardinality({k \in Keys : ~IsLinked(k)})
    /\ Begin(r)
    /\ pc' = "load" /\ key' = r.key
    /\ UNCHANGED <<caller, cur, bkt, rest>>

-----------------------------------------------------------------------------
(* findNode                                                                *)

At == pc = "find" /\ cur # NULL /\ ~Free(cur) /\ mem[cur].key = key

MissedTail == pc = "find" /\ (cur # NULL => ~Free(cur) /\ mem[cur].next = NULL)

Missed == pc = "find" /\ cur = NULL

findNextRestarts ==
  /\ pc = "find" /\ cur # NULL /\ ~Free(cur) /\ mem[cur].key # key
  /\ cur' = lists[Hash[key]].head
  /\ UNCHANGED <<clock, heapVars, pc, caller, op, key, bkt, since, rest, count, reply>>

findNext ==
  /\ pc = "find" /\ cur # NULL /\ ~Free(cur) /\ mem[cur].key # key
  /\ cur' = mem[cur].next
  /\ UNCHANGED <<clock, heapVars, pc, caller, op, key, bkt, since, rest, count, reply>>

(* findNode and freeLinkedList read the node they stand on.                *)
readFreed ==
  /\ pc \in {"find", "flush"} /\ cur # NULL /\ Free(cur)
  /\ Undefined /\ UNCHANGED clock

-----------------------------------------------------------------------------
(* get                                                                     *)

getHit ==
  /\ At /\ caller = "get" /\ ~isExpired(cur)
  /\ Answer(IF op.cmd = "GET" THEN GetReply(mem[cur].val) ELSE OnObject(op, mem[cur].val))
  /\ UNCHANGED <<clock, heapVars>>

(* get deletes an expired node with del, which looks the key up again.     *)
getExpired ==
  /\ At /\ caller = "get" /\ isExpired(cur)
  /\ Find("purge", key, lists)
  /\ UNCHANGED <<clock, heapVars, op, bkt, since, rest, count, reply>>

(* The value is gone: GET answers nil, SETBIT and ZADD go on to set.       *)
gotNull(tbl) ==
  IF op.cmd = "GET"
  THEN Answer(Null)
  ELSE Find("set", key, tbl) /\ UNCHANGED <<op, bkt, since, rest, count, reply>>

getMiss ==
  /\ Missed /\ caller \in {"get", "purge"}
  /\ gotNull(lists)
  /\ UNCHANGED <<clock, heapVars>>

purgeHit ==
  /\ At /\ caller = "purge"
  /\ Remove
  /\ gotNull(lists')
  /\ UNCHANGED clock

-----------------------------------------------------------------------------
(* set                                                                     *)

(* zaddCommand ends with del when the sorted set it made has no member.    *)
setMiss ==
  /\ Missed /\ caller = "set"
  /\ Add(mem, key, ObjectOf(op), DefaultExpiry)
  /\ IF op.cmd = "ZADD" /\ ~op.adds
     THEN Find("del", key, lists') /\ UNCHANGED <<op, bkt, since, rest, count, reply>>
     ELSE Answer(OK)
  /\ UNCHANGED <<clock, stale, dup>>

(* replaceNodeValue: only a bitmap row of the rdb file finds a node here.  *)
setHit ==
  /\ At /\ caller = "set"
  /\ mem' = [mem EXCEPT ![cur].val = ObjectOf(op)]
  /\ Answer(OK)
  /\ UNCHANGED <<clock, lists, chain, stale, dup>>

-----------------------------------------------------------------------------
(* setWithExpiry and setFromLoad                                           *)

ExpiryOf(r) == IF r.ttl = 0 THEN DefaultExpiry ELSE r.ttl + since

setxHit ==
  /\ At /\ caller = "setWithExpiry" /\ ~isExpired(cur)
  /\ IF op.nx
     THEN Answer(Null) /\ UNCHANGED mem
     ELSE /\ mem' = [mem EXCEPT ![cur].val = op.val, ![cur].exp = ExpiryOf(op)]
          /\ Answer(OK)
  /\ UNCHANGED <<clock, lists, chain, stale, dup>>

setxMiss ==
  /\ Missed /\ caller = "setWithExpiry"
  /\ IF op.xx
     THEN Answer(Null) /\ UNCHANGED <<mem, lists, chain>>
     ELSE Add(mem, key, op.val, ExpiryOf(op)) /\ Answer(OK)
  /\ UNCHANGED <<clock, stale, dup>>

(* An expired node is freed where it is: freeListNode without              *)
(* removeNodeFromList.  The list still points to it.                       *)
setxExpired ==
  /\ At /\ caller = "setWithExpiry" /\ isExpired(cur)
  /\ stale' = TRUE
  /\ LET m == [mem EXCEPT ![cur] = NULL]
     IN \/ /\ op.xx
           /\ mem' = m /\ UNCHANGED <<lists, chain>>
           /\ Answer(Null)
        \/ /\ ~op.xx
           /\ Add(m, key, op.val, ExpiryOf(op))
           /\ Answer(OK)
        \/ /\ ~op.xx /\ AddIsUndefined(m, key)
           /\ pc' = "undefined" /\ mem' = m
           /\ UNCHANGED <<lists, chain, caller, op, key, cur, bkt, since, rest, count, reply>>
  /\ UNCHANGED <<clock, dup>>

setFromLoadExpired ==
  /\ pc = "load"
  /\ Add(mem, key, op.val, op.exp)
  /\ dup' = (dup \/ IsLinked(key))
  /\ Answer(OK)
  /\ UNCHANGED <<clock, stale>>

(* setFromLoad does not look the key up.                                   *)
setFromLoad ==
  /\ pc = "load"
  /\ IF op.exp < clock
     THEN UNCHANGED <<mem, lists, chain, dup>>
     ELSE /\ Add(mem, key, op.val, op.exp)
          /\ dup' = (dup \/ IsLinked(key))
  /\ Answer(OK)
  /\ UNCHANGED <<clock, stale>>

-----------------------------------------------------------------------------
(* del                                                                     *)

delNextCountsLess(n, tbl) ==
  IF op.cmd = "ZADD" THEN Answer(OK)
  ELSE IF Len(rest) = 1 THEN Answer(Integer(n - 1))
  ELSE /\ Find("del", rest[2], tbl)
       /\ rest' = Tail(rest) /\ count' = n
       /\ UNCHANGED <<op, bkt, since, reply>>

delNextStopsShort(n, tbl) ==
  IF op.cmd = "ZADD" THEN Answer(OK)
  ELSE IF Len(rest) <= 2 THEN Answer(Integer(n))
  ELSE /\ Find("del", rest[2], tbl)
       /\ rest' = Tail(rest) /\ count' = n
       /\ UNCHANGED <<op, bkt, since, reply>>

(* del has looked one key up and counted n: DEL goes on to its next key,   *)
(* zaddCommand is done.                                                    *)
delNext(n, tbl) ==
  IF op.cmd = "ZADD" THEN Answer(OK)
  ELSE IF Len(rest) = 1 THEN Answer(Integer(n))
  ELSE /\ Find("del", rest[2], tbl)
       /\ rest' = Tail(rest) /\ count' = n
       /\ UNCHANGED <<op, bkt, since, reply>>

delHit ==
  /\ At /\ caller = "del"
  /\ Remove
  /\ delNext(count + IF isExpired(cur) THEN 0 ELSE 1, lists')
  /\ UNCHANGED clock

delMiss ==
  /\ Missed /\ caller = "del"
  /\ delNext(count, lists)
  /\ UNCHANGED <<clock, heapVars>>

-----------------------------------------------------------------------------
(* FLUSHALL: freeHashTable frees every list from its tail, then the new    *)
(* table takes the place of the old one.                                   *)

flushNode ==
  /\ pc = "flush" /\ cur # NULL /\ ~Free(cur)
  /\ mem' = [mem EXCEPT ![cur] = NULL]
  /\ cur' = mem[cur].prev
  /\ chain' = IF stale THEN chain ELSE [chain EXCEPT ![bkt] = Without(@, cur)]
  /\ UNCHANGED <<clock, lists, stale, dup, pc, caller, op, key, bkt, since, rest, count, reply>>

flushBucket ==
  /\ pc = "flush" /\ cur = NULL /\ bkt < NBuckets
  /\ bkt' = bkt + 1 /\ cur' = lists[bkt + 1].tail
  /\ UNCHANGED <<clock, heapVars, pc, caller, op, key, since, rest, count, reply>>

flushDoneSkipsLast ==
  /\ pc = "flush" /\ cur = NULL /\ bkt = NBuckets - 1
  /\ lists' = [b \in Buckets |-> [head |-> NULL, tail |-> NULL, size |-> 0]]
  /\ chain' = [b \in Buckets |-> <<>>]
  /\ Answer(OK)
  /\ UNCHANGED <<clock, mem, stale, dup>>

flushDone ==
  /\ pc = "flush" /\ cur = NULL /\ bkt = NBuckets
  /\ lists' = [b \in Buckets |-> [head |-> NULL, tail |-> NULL, size |-> 0]]
  /\ chain' = [b \in Buckets |-> <<>>]
  /\ Answer(OK)
  /\ UNCHANGED <<clock, mem, stale, dup>>

-----------------------------------------------------------------------------
(* removeNodeFromList writes through a neighbour that has been freed, or   *)
(* addNodeToList through a freed tail.                                     *)
writeFreed ==
  /\ \/ At /\ caller \in {"purge", "del"} /\ ~Touchable(Neighbours(lists[Hash[key]], cur))
     \/ Missed /\ caller = "set" /\ AddIsUndefined(mem, key)
     \/ Missed /\ caller = "setWithExpiry" /\ ~op.xx /\ AddIsUndefined(mem, key)
     \/ pc = "load" /\ op.exp >= clock /\ AddIsUndefined(mem, key)
  /\ Undefined /\ UNCHANGED clock

Tick ==
  /\ clock < MaxClock
  /\ clock' = clock + 1
  /\ UNCHANGED <<heapVars, callVars>>

Init ==
  /\ clock = 0
  /\ mem = [a \in Addrs |-> NULL]
  /\ lists = [b \in Buckets |-> [head |-> NULL, tail |-> NULL, size |-> 0]]
  /\ chain = [b \in Buckets |-> <<>>]
  /\ stale = FALSE /\ dup = FALSE
  /\ pc = "idle" /\ caller = NULL /\ op = NULL /\ key = NULL
  /\ cur = NULL /\ bkt = 1 /\ since = 0 /\ rest = <<>> /\ count = 0
  /\ reply = NoReply

Receive == RecvLookup \/ RecvSet \/ RecvDel \/ RecvFlush \/ RecvLoad

Serve ==
  \/ Refuse \/ findNext
  \/ getHit \/ getExpired \/ getMiss \/ purgeHit
  \/ setHit \/ setMiss
  \/ setxHit \/ setxMiss \/ setxExpired \/ setFromLoad
  \/ delHit \/ delMiss
  \/ flushNode \/ flushBucket \/ flushDone
  \/ readFreed \/ writeFreed

Next == Receive \/ Serve \/ Tick

Spec == Init /\ [][Next]_vars

(* Nothing blocks the thread: once a request is read, it runs.             *)
FairSpec == Spec /\ WF_vars(Serve)

-----------------------------------------------------------------------------
HeapTypeOK ==
  /\ mem \in [Addrs -> Node \cup {NULL}]
  /\ lists \in [Buckets -> List]
  /\ chain \in [Buckets -> Seq(Addrs)]
  /\ stale \in BOOLEAN /\ dup \in BOOLEAN

CallTypeOK ==
  /\ pc \in {"idle", "refuse", "find", "load", "flush", "undefined"}
  /\ caller \in {NULL, "get", "purge", "set", "setWithExpiry", "del"}
  /\ op \in Requests \cup {NULL}
  /\ key \in Keys \cup {NULL}
  /\ cur \in Addrs \cup {NULL}
  /\ bkt \in Buckets
  /\ since \in Nat /\ count \in Nat
  /\ rest \in Seq(Keys)
  /\ reply \in Replies

TypeOK == clock \in Nat /\ HeapTypeOK /\ CallTypeOK

-----------------------------------------------------------------------------
(* Safety.  What holds of the lists, until a SET meets an expired node.    *)

Elems(s) == {s[i] : i \in DOMAIN s}

(* The pointers of a bucket spell one sequence of distinct nodes, forwards *)
(* from head along next and backwards from tail along prev, and size is    *)
(* its length (linkedlist.c:34-77).                                        *)
ListOK(b) ==
  LET s == chain[b]
      l == lists[b]
      n == Len(s)
  IN /\ l.size = n
     /\ l.head = IF n = 0 THEN NULL ELSE s[1]
     /\ l.tail = IF n = 0 THEN NULL ELSE s[n]
     /\ \A i \in 1..n : mem[s[i]].next = IF i = n THEN NULL ELSE s[i + 1]

BackwardOK(b) ==
  LET s == chain[b]
  IN \A i \in DOMAIN s :
       /\ ~Free(s[i])
       /\ mem[s[i]].prev = IF i = 1 THEN NULL ELSE s[i - 1]
       /\ Hash[mem[s[i]].key] = b

(* Every list is well formed between the steps of every call; while        *)
(* FLUSHALL frees the lists only the backward links are relied upon, and   *)
(* its cursor stands on the last node that is left.                        *)
ListsWellFormed ==
  ~stale =>
    /\ \A b \in Buckets : BackwardOK(b)
    /\ pc # "flush" => \A b \in Buckets : ListOK(b)

(* A node is allocated exactly as long as it is linked, and linked once:   *)
(* del, get and FLUSHALL leak no node, and no node is in two lists.        *)
NodesAccounted ==
  ~stale =>
    /\ {a \in Addrs : ~Free(a)} = UNION {Elems(chain[b]) : b \in Buckets}
    /\ \A b, c \in Buckets : \A i \in DOMAIN chain[b], j \in DOMAIN chain[c] :
         chain[b][i] = chain[c][j] => b = c /\ i = j

(* No two nodes have one key, whatever the order of lookups, insertions    *)
(* and purges (hashtable.c:39-52): every insertion is preceded by a walk   *)
(* that proved the key absent, except the one of setFromLoad.              *)
KeysUnique ==
  ~stale /\ ~dup =>
    \A a, c \in Addrs : ~Free(a) /\ ~Free(c) /\ mem[a].key = mem[c].key => a = c

(* The thread reaches a freed node only after a SET has met an expired one *)
(* (hashtable.c:77-80): no other call leaves a pointer to a node it freed. *)
UndefinedOnlyAfterStale == pc = "undefined" => stale

-----------------------------------------------------------------------------
(* Action properties and liveness                                          *)

(* A DEL that is answered leaves no node of its keys: "Deletes the entry   *)
(* from the hash table" (commands.c:132-135).  After LOADDB has linked a   *)
(* key twice, it leaves the second node.                                   *)
DelDeletes ==
  [][(op # NULL /\ op.cmd = "DEL" /\ op' = NULL /\ ~stale /\ ~dup) =>
       \A k \in Elems(op.keys) : ~IsLinked(k)']_vars

(* A stored string is given up only by a request that names its key, by    *)
(* FLUSHALL, or when it has expired: the purge inside get and the unlinking *)
(* of its neighbours touch no other key.                                   *)
OnlyNamedKeysChange ==
  [][\A a \in Addrs :
       (~Free(a) /\ ~stale /\ mem'[a] # mem[a] /\ pc # "flush") =>
         \/ mem[a].key = key
         \/ /\ mem'[a] # NULL
            /\ mem'[a].key = mem[a].key /\ mem'[a].val = mem[a].val
            /\ mem'[a].exp = mem[a].exp]_vars

(* The first node with key k on the walk findNode makes from the head of   *)
(* the bucket of k; NULL when it ends, meets a freed node or goes round.   *)
Found(k) ==
  LET walk[a \in Addrs \cup {NULL}, n \in 0..Cardinality(Addrs)] ==
        IF a = NULL \/ n = 0 THEN NULL
        ELSE IF Free(a) THEN NULL
        ELSE IF mem[a].key = k THEN a
        ELSE walk[mem[a].next, n - 1]
  IN walk[lists[Hash[k]].head, Cardinality(Addrs)]

(* A SET that is answered OK has stored its value where a lookup finds it, *)
(* whatever was there before: "SET command overwirtes the target value if  *)
(* it exists" (commands.c:93).                                             *)
SetOverwrites ==
  [][(op # NULL /\ op.cmd = "SET" /\ reply' = OK) =>
       \E k \in {op.key} : LET a == Found(k)' IN a # NULL /\ mem'[a].val = op.val]_vars

(* Every request is answered: each walk of a list ends, whatever the clock *)
(* does between its steps.                                                 *)
Answered == pc # "idle" ~> (pc = "idle" \/ stale)

-----------------------------------------------------------------------------
(* Refinement: the table implements the keyspace clients are promised.     *)

dbView ==
  [k \in Keys |->
     IF stale \/ ~IsLinked(k) THEN NULL
     ELSE LET a == CHOOSE x \in Addrs : ~Free(x) /\ mem[x].key = k
          IN [val |-> mem[a].val, exp |-> mem[a].exp]]

KS == INSTANCE Keyspace
        WITH db <- dbView,
             count <- IF op # NULL /\ op.cmd = "ZADD" /\ caller = "del" THEN 1 ELSE count,
             broken <- stale \/ dup

ImplementsKeyspace == KS!Spec
=============================================================================
