----------------------------- MODULE Ownership -----------------------------
(***************************************************************************)
(* Who frees what: the strings a request is cut into, those the table has  *)
(* kept, the objects on the garbage list, and what a reply still points to *)
(* (server/redisserver.c, ds/utilities.c, ds/linkedlist.c).                *)
(*                                                                         *)
(* A cell is a block of memory: a string, or an exoVal and the object it   *)
(* holds.  It is named by what it was allocated for and the least number   *)
(* that is free; between two requests, when the table alone has cells, the *)
(* numbers begin anew.  To free a cell that is not live, or to walk        *)
(* garbage nodes already freed, is undefined behaviour: the model stops.   *)
(* Arguments that nobody frees stay live until the request is done, where  *)
(* LostOnly looks at them, and are forgotten.                              *)
(*                                                                         *)
(* Scores are left out, so any member that is updated while its set has    *)
(* another may be tied with it.  The search that removes it may then not   *)
(* find its tower, or not on every level (skiplist.c:244), and set and     *)
(* freeSkipListNode free what that tower still leads to; see SkipList.     *)
(*                                                                         *)
(* Not in here: SET of an expired key and rows of strings whose key is     *)
(* there (see Dict); strings and exoVals made for the reply alone; SIGINT  *)
(* amid a step, but where that step frees what it has not unlinked.        *)
(*                                                                         *)
(* setKeepsOldKey, freesAllButSet, RangeOfOwn, setbitDeadFew and           *)
(* ToEndKeepsHead are bugs this code could have had (see PROJECT.json,     *)
(* "mutants"); no action uses them.                                        *)
(***************************************************************************)
EXTENDS Integers, SequencesExt

CONSTANTS
  Keys, Members,
  MemberLists,  (* the members of a ZADD, in order                          *)
  DelLists,     (* the keys of a DEL, in order                              *)
  FlushOrders,  (* the orders in which FLUSHALL may meet the keys           *)
  MaxGarbage,   (* the garbage rows of the rdb file may leave               *)
  NULL

(* What a block of memory is allocated for.                                *)
Purpose ==
  {<<p>> : p \in {"cmd", "switch", "score", "offset", "bit"}}
  \cup {<<p, k>> : p \in {"key", "val", "bitmap", "set"}, k \in Keys}
  \cup {<<p, k, m>> : p \in {"member", "entry"}, k \in Keys, m \in Members}

Cell == [of : Purpose, n : Nat]

(* An exoVal holds an object that is nobody else's; a sorted set has a     *)
(* table of its own, from members to nodes whose exoVals are entries.      *)
NoMembers == [m \in Members |-> NULL]
Entry == [key : Cell, val : [cell : Cell, type : {"entry"}, members : {NoMembers}]]
Value == [cell : Cell, type : {"string", "bitmap", "set", "entry"},
          members : [Members -> Entry \cup {NULL}]]
Node == [key : Cell, val : Value]

Val(cell, type) == [cell |-> cell, type |-> type, members |-> NoMembers]

(* Keys are told from places in the garbage list, NULL from nodes.         *)
ASSUME OwnershipAssumption ==
  /\ IsFiniteSet(Keys) /\ IsFiniteSet(Members) /\ Keys \cap Nat = {}
  /\ MemberLists \subseteq Seq(Members)
  /\ DelLists \subseteq Seq(Keys) /\ FlushOrders \subseteq Seq(Keys)
  /\ MaxGarbage \in Nat /\ NULL \notin Entry \cup Node

VARIABLES
  heap,  (* table: the nodes of the hash table; live: the cells in use;     *)
         (* garbage: the list since its head; broken: undefined behaviour   *)
  cmd,   (* the command of the request, "EXIT" in the handler of SIGINT     *)
  args,  (* the argList: each argument's string and dead flag               *)
  error, (* the reply is of ds_type RESP_ERROR                              *)
  reply, (* the strings the reply points to, dead when they are its own     *)
  pc,    (* "idle", "free", "write", "drain", "done", "gone"                *)
  at,    (* freeGarbage: the garbage node it has come to                    *)
  refused,   (* history: a ZADD was refused that had made its sorted set    *)
  signalled, (* history: SIGINT came amid freeGarbage or freeHashTable      *)
  missed     (* the keys whose sorted set may have a tower left behind: an  *)
             (* update of a tied member did not find it on every level      *)

vars == <<heap, cmd, args, error, reply, pc, at, refused, signalled, missed>>

-----------------------------------------------------------------------------
(* Memory                                                                  *)

Fresh(of, live) ==
  [of |-> of, n |-> CHOOSE n \in 0..Cardinality(live) :
                      /\ [of |-> of, n |-> n] \notin live
                      /\ \A i \in 0..(n - 1) : [of |-> of, n |-> i] \in live]

Alloc(h, cells) == [h EXCEPT !.live = @ \cup cells]

Freed(h, cells) ==
  IF cells \subseteq h.live THEN [h EXCEPT !.live = @ \ cells]
  ELSE [h EXCEPT !.broken = TRUE]

MembersIn(val) == {m \in Members : val.members[m] # NULL}

freeExoVal(h, val) == [h EXCEPT !.garbage = Append(@, val)]

freeListNode(h, node) == freeExoVal(Freed(h, {node.key}), node.val)

-----------------------------------------------------------------------------
(* The hash table, and the members of the sorted set at k                  *)

setKeepsOldKey(h, k, key, val) ==
  IF h.table[k] = NULL THEN [h EXCEPT !.table[k] = [key |-> key, val |-> val]]
  ELSE [freeListNode(h, h.table[k]) EXCEPT !.table[k].val = val]

(* replaceNodeValue frees the old key; the old value goes to the garbage.  *)
set(h, k, key, val) ==
  LET h1 == IF h.table[k] = NULL THEN h ELSE freeListNode(h, h.table[k])
  IN [h1 EXCEPT !.table[k] = [key |-> key, val |-> val]]

del(h, k) ==
  IF h.table[k] = NULL THEN h
  ELSE [freeListNode(h, h.table[k]) EXCEPT !.table[k] = NULL]

Deleted(h, ks) ==
  LET hs[i \in 0..Len(ks)] == IF i = 0 THEN h ELSE del(hs[i - 1], ks[i]) IN hs[Len(ks)]

IsA(h, k, type) == h.table[k] # NULL /\ h.table[k].val.type = type

(* get deletes a string that has expired.                                  *)
Found(h, k, expired) == IF expired /\ IsA(h, k, "string") THEN del(h, k) ELSE h

Has(h, k, m) == m \in MembersIn(h.table[k].val)

removeNodeFromSkipList(h, k, m) ==
  [freeListNode(h, h.table[k].val.members[m]) EXCEPT !.table[k].val.members[m] = NULL]

addNodeToSkiplist(h, k, m, str) ==
  LET entry == Fresh(<<"entry", k, m>>, h.live)
  IN [Alloc(h, {entry}) EXCEPT !.table[k].val.members[m] =
        [key |-> str, val |-> Val(entry, "entry")]]

-----------------------------------------------------------------------------
(* Requests.  roles says what each argument is for.                        *)

Strings(roles) ==
  LET strs[i \in 0..Len(roles)] ==
        IF i = 0 THEN <<>>
        ELSE LET before == strs[i - 1]
             IN Append(before, Fresh(roles[i], heap.live \cup ToSet(before)))
  IN strs[Len(roles)]

Parsed(strs) == Alloc(heap, ToSet(strs))

(* The command c has left the memory as h, its arguments dead or not and a *)
(* reply that points to rep.                                               *)
Executed(c, h, strs, dead, err, rep) ==
  /\ pc = "idle" /\ pc' = "free"
  /\ cmd' = c /\ heap' = h /\ error' = err /\ reply' = rep
  /\ args' = [i \in DOMAIN strs |-> [str |-> strs[i], dead |-> i \in dead]]
  /\ UNCHANGED <<at, signalled>>

Borrowed(cell) == [str |-> cell, dead |-> FALSE]
Own(cell) == [str |-> cell, dead |-> TRUE]

(* PING, SAVE, LOADDB around its rows, and a command that does not exist.  *)
pingCommand ==
  LET strs == Strings(<<<<"cmd">>>>)
  IN /\ \E unknown \in BOOLEAN : Executed("PING", Parsed(strs), strs, {}, unknown, {})
     /\ UNCHANGED <<refused, missed>>

(* GETBIT, ZCARD and ZCOUNT are a GET whose reply is a string of its own.  *)
getCommand(k) ==
  LET strs == Strings(<<<<"cmd">>, <<"key", k>>>>)
  IN /\ \/ Executed("GET", Parsed(strs), strs, {}, TRUE, {})
        \/ \E expired \in BOOLEAN :
             LET h == Found(Parsed(strs), k, expired)
             IN Executed("GET", h, strs, {}, h.table[k] # NULL /\ ~IsA(h, k, "string"),
                  IF IsA(h, k, "string") THEN {Borrowed(h.table[k].val.cell)} ELSE {})
     /\ UNCHANGED <<refused, missed>>

(* EX, PX, NX and XX are switches; an error comes before the table is      *)
(* touched, and so does the answer to NX with XX.                          *)
setCommand(k, sw) ==
  LET strs == Strings(<<<<"cmd">>, <<"key", k>>, <<"val", k>>>>
                      \o (IF sw = {} THEN <<>> ELSE <<<<"switch">>>>))
      h == Parsed(strs)
      there == h.table[k] # NULL
      stored == ~({"NX", "XX"} \subseteq sw) /\ (there => "NX" \notin sw)
                /\ (~there => "XX" \notin sw)
  IN /\ \/ Executed("SET", h, strs, {}, TRUE, {})
        \/ Executed("SET", IF stored THEN set(h, k, strs[2], Val(strs[3], "string")) ELSE h,
                    strs, {}, FALSE, {})
     /\ UNCHANGED <<refused, missed>>

setbitDeadFew(strs, there) == {1, 3, 4}

(* An object that is there needs no new key.                               *)
setbitDead(strs, there) == IF there THEN DOMAIN strs ELSE {1, 3, 4}

setbitCommand(k) ==
  LET strs == Strings(<<<<"cmd">>, <<"key", k>>, <<"offset">>, <<"bit">>>>)
  IN /\ \/ Executed("SETBIT", Parsed(strs), strs, DOMAIN strs, TRUE, {})
        \/ \E expired \in BOOLEAN :
             LET h == Found(Parsed(strs), k, expired)
                 there == h.table[k] # NULL
                 cell == Fresh(<<"bitmap", k>>, h.live)
             IN Executed("SETBIT",
                  IF there THEN h ELSE set(Alloc(h, {cell}), k, strs[2], Val(cell, "bitmap")),
                  strs, setbitDead(strs, there), there /\ ~IsA(h, k, "bitmap"), {})
     /\ UNCHANGED <<refused, missed>>

delCommand(ks) ==
  LET strs == Strings(<<<<"cmd">>>> \o [i \in DOMAIN ks |-> <<"key", ks[i]>>])
  IN /\ Executed("DEL", Deleted(Parsed(strs), ks), strs, {}, FALSE, {})
     /\ UNCHANGED <<refused, missed>>

flushCommand ==
  LET strs == Strings(<<<<"cmd">>>>)
  IN /\ \E ks \in FlushOrders :
          Executed("FLUSHALL", Deleted(Parsed(strs), ks), strs, {}, FALSE, {})
     /\ UNCHANGED <<refused, missed>>

-----------------------------------------------------------------------------
(* ZADD                                                                    *)

(* The arguments that are scores, and the members behind them.             *)
ScoreAt(sw, i) == 1 + Cardinality(sw) + 2 * i
ZaddRoles(k, sw, ms) ==
  [i \in 1..(2 + Cardinality(sw) + 2 * Len(ms)) |->
     IF i = 1 THEN <<"cmd">> ELSE IF i = 2 THEN <<"key", k>>
     ELSE IF i < ScoreAt(sw, 1) THEN <<"switch">>
     ELSE IF (i - ScoreAt(sw, 1)) % 2 = 0 THEN <<"score">>
     ELSE <<"member", k, ms[(i - ScoreAt(sw, 1)) \div 2 + 1]>>]

(* addOrUpdateMember and scoreIncrement, which knows no XX.                *)
Pair(h, k, sw, m, str) ==
  IF Has(h, k, m)
  THEN IF "NX" \in sw THEN h
       ELSE addNodeToSkiplist(removeNodeFromSkipList(h, k, m), k, m, str)
  ELSE IF "XX" \in sw /\ "INCR" \notin sw THEN h ELSE addNodeToSkiplist(h, k, m, str)

(* fault: "few" arguments, an "odd" number of them, or not a "float".      *)
(* made: the set was not there; tied: a member is updated while the set    *)
(* has another.                                                            *)
Zadded(h, k, sw, ms, fault, strs) ==
  LET made == h.table[k] = NULL
      cell == Fresh(<<"set", k>>, h.live)
      h1 == IF made THEN set(Alloc(h, {cell}), k, strs[2], Val(cell, "set")) ELSE h
      scores == {ScoreAt(sw, i) : i \in DOMAIN ms}
      illegal == {"NX", "XX"} \subseteq sw \/ fault = "odd" \/ ("INCR" \in sw /\ Len(ms) # 1)
      hs[i \in 0..Len(ms)] ==
        IF i = 0 THEN h1 ELSE Pair(hs[i - 1], k, sw, ms[i], strs[ScoreAt(sw, i) + 1])
      h2 == IF illegal \/ fault = "float" THEN h1 ELSE hs[Len(ms)]
      kept == {"NX", "INCR"} \subseteq sw /\ ~illegal /\ fault # "float" /\ Has(h1, k, ms[1])
      refusal(dead) == [heap |-> h, dead |-> dead, error |-> TRUE, made |-> FALSE, tied |-> FALSE]
  IN IF fault = "few" THEN refusal({})
     ELSE IF ~made /\ ~IsA(h, k, "set") THEN refusal(DOMAIN strs)
     ELSE [heap |-> IF MembersIn(h2.table[k].val) = {} THEN del(h2, k) ELSE h2,
           dead |-> IF illegal THEN DOMAIN strs
                    ELSE IF kept THEN scores \cup {ScoreAt(sw, 1) + 1} ELSE scores,
           error |-> illegal \/ fault = "float",
           made |-> made,
           tied |-> /\ ~illegal /\ fault # "float" /\ "NX" \notin sw
                    /\ \E i \in DOMAIN ms :
                         Has(hs[i - 1], k, ms[i]) /\ MembersIn(hs[i - 1].table[k].val) # {ms[i]}]

(* The search that removes a tied member may find its tower, or may not.   *)
MayMiss(k, tied) == missed' \in {missed} \cup (IF tied THEN {missed \cup {k}} ELSE {})

zaddCommand(k, sw, ms, fault) ==
  LET strs == Strings(ZaddRoles(k, sw, ms))
  IN \E expired \in BOOLEAN :
       LET h == IF fault = "few" THEN Parsed(strs) ELSE Found(Parsed(strs), k, expired)
           z == Zadded(h, k, sw, ms, fault, strs)
       IN /\ Executed("ZADD", z.heap, strs, z.dead, z.error, {})
          /\ refused' = (refused \/ (z.made /\ z.error))
          /\ MayMiss(k, z.tied)

RangeOfOwn(keys, scores) == {Own(c) : c \in keys \cup scores}

MemberKeys(h, k) ==
  IF IsA(h, k, "set")
  THEN {h.table[k].val.members[m].key : m \in MembersIn(h.table[k].val)} ELSE {}

(* The keys of towers left behind, which set has freed.                    *)
LeftKeys(h, k) ==
  IF k \in missed /\ IsA(h, k, "set")
  THEN {Fresh(<<"member", k, m>>, h.live) : m \in MembersIn(h.table[k].val)} ELSE {}

(* The members are those of the set, the scores strings of the list's own. *)
RangeOf(keys, scores) == {Borrowed(c) : c \in keys} \cup {Own(c) : c \in scores}

(* ZRANGE has looked its key up.                                           *)
Ranged(h, strs, k, withscores) ==
  LET keys == MemberKeys(h, k)
      scores == IF withscores /\ keys # {} THEN {Fresh(<<"score">>, h.live)} ELSE {}
  IN \E left \in SUBSET LeftKeys(h, k) :
       Executed("ZRANGE", Alloc(h, scores), strs, {},
                h.table[k] # NULL /\ ~IsA(h, k, "set"), RangeOf(keys \cup left, scores))

zrangeCommand(k) ==
  LET strs == Strings(<<<<"cmd">>, <<"key", k>>>>)
  IN /\ \/ Executed("ZRANGE", Parsed(strs), strs, {}, TRUE, {})
        \/ \E expired, withscores \in BOOLEAN :
             Ranged(Found(Parsed(strs), k, expired), strs, k, withscores)
     /\ UNCHANGED <<refused, missed>>

-----------------------------------------------------------------------------
(* What owns a cell: a node its key and its exoVal, a garbage node its     *)
(* exoVal, a sorted set the nodes of its table.  Garbage nodes count from  *)
(* the one at i on.                                                        *)
Slots(h, i) ==
  LET stored == {k \in Keys : h.table[k] # NULL}
      waiting == i..Len(h.garbage)
      inSets == {p \in stored \X Members : Has(h, p[1], p[2])}
                \cup {p \in waiting \X Members : p[2] \in MembersIn(h.garbage[p[1]])}
  IN (stored \X {"key"}) \cup ((stored \cup waiting) \X {"val"})
     \cup {<<p[1], "key", p[2]>> : p \in inSets} \cup {<<p[1], "val", p[2]>> : p \in inSets}

CellOf(h, slot) ==
  LET val == IF slot[1] \in Keys THEN h.table[slot[1]].val ELSE h.garbage[slot[1]]
  IN IF Len(slot) = 3
     THEN LET node == val.members[slot[3]]
          IN IF slot[2] = "key" THEN node.key ELSE node.val.cell
     ELSE IF slot[2] = "key" THEN h.table[slot[1]].key ELSE val.cell

OwnedIn(h) == {CellOf(h, slot) : slot \in Slots(h, 1)}

-----------------------------------------------------------------------------
(* After the command                                                       *)

freesAllButSet(c) == c # "SET"

(* free_args in the command table.                                         *)
free_args(c) == c \notin {"SET", "SETBIT", "ZADD"}

commandDispatcher ==
  /\ pc = "free" /\ pc' = "write"
  /\ LET freedArgs == IF free_args(cmd) \/ error THEN DOMAIN args
                      ELSE {i \in DOMAIN args : args[i].dead}
     IN heap' = Freed(heap, {args[i].str : i \in freedArgs})
  /\ args' = <<>>
  /\ UNCHANGED <<cmd, error, reply, at, refused, signalled, missed>>

(* writeRespArrayToBuffer frees what is dead in the list it has written.   *)
writeToBuffer ==
  /\ pc = "write"
  /\ heap' = Freed(heap, {a.str : a \in {b \in reply : b.dead}})
  /\ reply' = {} /\ error' = FALSE
  /\ IF heap.garbage = <<>> THEN pc' = "done" /\ UNCHANGED at
     ELSE pc' = "drain" /\ at' = 1
  /\ UNCHANGED <<cmd, args, refused, signalled, missed>>

(* What freeing a sorted set appends to the garbage.                       *)
Entries(val) ==
  LET ms == SetToSeq(MembersIn(val)) IN [i \in DOMAIN ms |-> val.members[ms[i]].val]

ToEndKeepsHead(h) == h

(* GARBAGE_LIST->head = GARBAGE_LIST->tail = NULL                          *)
ToEnd(h) == [h EXCEPT !.garbage = <<>>]

(* The node behind this one is read before this one is freed.              *)
freeGarbage ==
  /\ pc = "drain"
  /\ LET val == heap.garbage[at]
         last == at = Len(heap.garbage)
         cells == {val.cell} \cup {val.members[m].key : m \in MembersIn(val)}
         h == [Freed(heap, cells) EXCEPT !.garbage = @ \o Entries(val)]
     IN IF last
        THEN heap' = ToEnd(h) /\ at' = 0 /\ pc' = (IF cmd = "EXIT" THEN "gone" ELSE "done")
        ELSE heap' = h /\ at' = at + 1 /\ UNCHANGED pc
  /\ UNCHANGED <<cmd, args, error, reply, refused, signalled, missed>>

(* What is live and not owned will never be freed, and a tower left behind *)
(* is gone with its set.                                                   *)
Renamed(cell) == [cell EXCEPT !.n = 0]
RenamedNode(node) == [key |-> Renamed(node.key), val |-> [node.val EXCEPT !.cell = Renamed(@)]]
SettledNode(node) ==
  LET members(ns) == [m \in Members |-> IF ns[m] = NULL THEN NULL ELSE RenamedNode(ns[m])]
  IN [RenamedNode(node) EXCEPT !.val.members = members(@)]
Settled(h) ==
  [h EXCEPT !.live = {Renamed(cell) : cell \in OwnedIn(h) \cap h.live},
            !.table = [k \in Keys |-> IF h.table[k] = NULL THEN NULL
                                     ELSE SettledNode(h.table[k])]]

done ==
  /\ pc = "done" /\ pc' = "idle"
  /\ heap' = Settled(heap) /\ cmd' = "none"
  /\ missed' = {k \in missed : IsA(heap, k, "set")}
  /\ UNCHANGED <<args, error, reply, at, refused, signalled>>

-----------------------------------------------------------------------------
(* Rows of the rdb file, at the start or in a LOADDB: there is no reply,   *)
(* and their garbage waits for the next request.  What they leak is        *)
(* forgotten at once.                                                      *)

Loaded(h) ==
  /\ pc = "idle" /\ Len(h.garbage) <= MaxGarbage
  /\ heap' = [h EXCEPT !.live = @ \cap OwnedIn(h)]
  /\ UNCHANGED <<cmd, args, error, reply, pc, at, refused, signalled>>

(* setFromLoad appends a node.                                             *)
loadHashMapEntry(k) ==
  LET key == Fresh(<<"key", k>>, heap.live)
      str == Fresh(<<"val", k>>, heap.live)
  IN /\ heap.table[k] = NULL /\ Loaded(set(Alloc(heap, {key, str}), k, key, Val(str, "string")))
     /\ UNCHANGED missed

loadBitmapEntry(k) ==
  LET key == Fresh(<<"key", k>>, heap.live)
      cell == Fresh(<<"bitmap", k>>, heap.live)
  IN Loaded(set(Alloc(heap, {key, cell}), k, key, Val(cell, "bitmap"))) /\ UNCHANGED missed

(* freeDeadArgs even after an error.                                       *)
loadSkiplistEntry(k, m, fault) ==
  LET strs == Strings(ZaddRoles(k, {}, <<m>>))
  IN \E expired \in BOOLEAN :
       LET z == Zadded(Found(Parsed(strs), k, expired), k, {}, <<m>>, fault, strs)
       IN Loaded(Freed(z.heap, {strs[i] : i \in z.dead})) /\ MayMiss(k, z.tied)

-----------------------------------------------------------------------------
(* Towers left behind: a request that walks the sorted set at k (ZADD,     *)
(* also its next pair, ZCOUNT, ZRANGE, SAVE), the handler of SIGINT, which *)
(* saves, or freeSkipList reads or frees what is freed.                    *)
walkLeft(k) ==
  /\ k \in missed
  /\ \/ IsA(heap, k, "set")
     \/ pc = "drain" /\ heap.garbage[at].type = "set" /\ heap.garbage[at].cell.of[2] = k
  /\ heap' = [heap EXCEPT !.broken = TRUE]
  /\ UNCHANGED <<cmd, args, error, reply, pc, at, refused, signalled, missed>>

-----------------------------------------------------------------------------
(* SIGINT: actionBeforeExit frees the table and the garbage, from its head. *)
sigHandler ==
  /\ pc \notin {"gone"} /\ cmd # "EXIT"
  /\ \E ks \in FlushOrders :
       LET h == Deleted(heap, ks)
       IN /\ heap' = [h EXCEPT !.broken = @ \/ at > 1]
          /\ IF h.garbage = <<>> THEN pc' = "gone" /\ at' = 0
             ELSE pc' = "drain" /\ at' = 1
  /\ cmd' = "EXIT" /\ args' = <<>> /\ error' = FALSE /\ reply' = {}
  /\ signalled' = (at > 1)
  /\ UNCHANGED <<refused, missed>>

(* SIGINT amid FLUSHALL, whose lists still lead to the nodes freed so far, *)
(* or amid freeGarbage's freeing of an object: the handler frees it again. *)
sigHandlerAmid ==
  /\ cmd # "EXIT"
  /\ \/ /\ pc = "idle"
        /\ \E k \in Keys : LET node == heap.table[k]
                          IN /\ node # NULL
                             /\ heap' = freeListNode(freeListNode(heap, node), node)
     \/ /\ pc = "drain"
        /\ LET cell == heap.garbage[at].cell IN heap' = Freed(Freed(heap, {cell}), {cell})
  /\ pc' = "drain" /\ at' = 1
  /\ cmd' = "EXIT" /\ args' = <<>> /\ error' = FALSE /\ reply' = {}
  /\ signalled' = TRUE
  /\ UNCHANGED <<refused, missed>>

Init ==
  /\ heap = [table |-> [k \in Keys |-> NULL], live |-> {}, garbage |-> <<>>, broken |-> FALSE]
  /\ cmd = "none" /\ args = <<>> /\ error = FALSE /\ reply = {}
  /\ pc = "idle" /\ at = 0
  /\ refused = FALSE /\ signalled = FALSE /\ missed = {}

Next ==
  /\ ~heap.broken
  /\ \/ pingCommand \/ flushCommand
     \/ \E k \in Keys :
          \/ getCommand(k) \/ setbitCommand(k) \/ zrangeCommand(k)
          \/ \E sw \in SUBSET {"NX", "XX"} : setCommand(k, sw)
          \/ \E sw \in SUBSET {"NX", "XX", "INCR"}, ms \in MemberLists,
                fault \in {"none", "few", "odd", "float"} : zaddCommand(k, sw, ms, fault)
          \/ loadHashMapEntry(k) \/ loadBitmapEntry(k)
          \/ \E m \in Members, fault \in {"none", "float"} : loadSkiplistEntry(k, m, fault)
          \/ walkLeft(k)
     \/ \E ks \in DelLists : delCommand(ks)
     \/ commandDispatcher \/ writeToBuffer \/ freeGarbage \/ done
     \/ sigHandler \/ sigHandlerAmid

Spec == Init /\ [][Next]_vars

-----------------------------------------------------------------------------
(* What an exoVal and its members are made of was allocated for them, and  *)
(* only sorted sets have members.                                          *)
FitsPurpose(val) ==
  /\ MembersIn(val) # {} => val.type = "set"
  /\ val.cell.of[1] = (IF val.type = "string" THEN "val" ELSE val.type)
  /\ \A m \in MembersIn(val) :
       /\ val.members[m].key.of = <<"member", val.cell.of[2], m>>
       /\ val.members[m].val.cell.of = <<"entry", val.cell.of[2], m>>

HeapOK(h) ==
  /\ h \in [table : [Keys -> Node \cup {NULL}], live : SUBSET Cell,
            garbage : Seq(Value), broken : BOOLEAN]
  /\ IsFiniteSet(h.live)
  /\ \A k \in Keys : h.table[k] # NULL =>
       /\ h.table[k].key.of = <<"key", k>>
       /\ h.table[k].val.type # "entry" /\ h.table[k].val.cell.of[2] = k
       /\ FitsPurpose(h.table[k].val)
  /\ \A i \in DOMAIN h.garbage : FitsPurpose(h.garbage[i])

(* Everything has its type, and no memory is used for what it was not      *)
(* allocated for; freeGarbage has a place in the list as long as it runs   *)
(* and leaves none behind, and the arguments are gone when the reply is    *)
(* written.                                                                *)
TypeOK ==
  /\ HeapOK(heap)
  /\ args \in Seq([str : Cell, dead : BOOLEAN]) /\ reply \subseteq [str : Cell, dead : BOOLEAN]
  /\ error \in BOOLEAN /\ refused \in BOOLEAN /\ signalled \in BOOLEAN /\ missed \subseteq Keys
  /\ pc \in {"idle", "free", "write", "drain", "done", "gone"}
  /\ IF pc = "drain" THEN at \in DOMAIN heap.garbage ELSE at = 0
  /\ pc \in {"done", "gone"} => heap.garbage = <<>>
  /\ pc # "free" => args = <<>>
  /\ (pc = "idle") = (cmd = "none")

(* No two owners have one cell, and all they have is live: what the table  *)
(* and the garbage hold is freed once, when its owner frees it.            *)
OwnedOnce ==
  LET first == IF at = 0 THEN 1 ELSE at
      slots == Slots(heap, first)
      cells == {CellOf(heap, slot) : slot \in slots}
  IN ~heap.broken => cells \subseteq heap.live /\ Cardinality(cells) = Cardinality(slots)

(* Nothing is freed twice but the key of a new sorted set whose ZADD is    *)
(* refused: del frees it, then commandDispatcher; what freeGarbage or      *)
(* FLUSHALL has freed when SIGINT comes amid them; and what a tower left   *)
(* behind leads to.                                                        *)
BrokenOnlyByThese == heap.broken => refused \/ signalled \/ missed # {}

(* What a reply points to is there when the reply is written, but for the  *)
(* ZRANGE that finds a tower left behind.                                  *)
RepliesAlive ==
  pc = "write" /\ ~(cmd = "ZRANGE" /\ missed # {}) => {a.str : a \in reply} \subseteq heap.live

(* A request leaks no more than this: of a sorted set that was last in the *)
(* garbage the exoVals of its entries, which freeGarbage appends behind    *)
(* its own end; of SET and ZADD the arguments they neither keep nor mark   *)
(* dead.  What was stored is never leaked, and neither are scores.         *)
Leakable ==
  {"entry"} \cup CASE cmd = "SET" -> {"cmd", "key", "val", "switch"}
                   [] cmd = "ZADD" -> {"cmd", "key", "member", "switch"}
                   [] OTHER -> {}
LostOnly ==
  pc = "done" => \A cell \in heap.live \ OwnedIn(heap) : cell.of[1] \in Leakable
=============================================================================
