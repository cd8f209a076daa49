---------------------------- MODULE Persistence ----------------------------
(***************************************************************************)
(* The rdb file: SAVE and the writers of its rows, LOADDB, the load at the *)
(* start and the loaders of its rows (ds/commands.c, loadBitmap), the      *)
(* SIGINT handler that saves and exits (server/redisserver.c), crashes and *)
(* restarts.  The commands that change the table are here in the steps the *)
(* handler can come between.  It can also come within malloc, or between   *)
(* realloc and the store of its result in SETBIT: that is not modelled.    *)
(*                                                                         *)
(* The table is the sequence of its nodes in the order SAVE meets them:    *)
(* bucket by bucket, new nodes at the end of theirs.  What get, set, del   *)
(* do to lists and heap is in Dict.tla, what ZADD does in SkipList.tla: an *)
(* update of a member whose score another member has may leave the skip    *)
(* list broken, and nothing is promised after it here.                     *)
(* A SET that meets its key expired is left out: Dict.tla shows that       *)
(* nothing is defined after it.                                            *)
(*                                                                         *)
(* AppendedAlways, FirstMemberOnly, RowsOfTail and StaysAtEnd are bugs     *)
(* this code could have had (see PROJECT.json, "mutants"); no action uses  *)
(* them.                                                                   *)
(***************************************************************************)
EXTENDS Numbers

CONSTANTS
  Keys, Members,
  Strings,       (* the values of strings                                   *)
  Contents,      (* the words of bitmaps                                    *)
  Scores,        (* in the units of Numbers.tla                             *)
  Ttls,          (* what EX and PX add up to, 0 for neither                 *)
  Hash,          (* stringHash: the bucket of a key                         *)
  Garbage,       (* what a row read from the torn end of a file holds       *)
  NULL,
  DefaultExpiry, (* DEFAULT_EXPIRY_MS                                       *)
  MaxClock,      (* bound on the clock                                      *)
  MaxNodes       (* bound on the nodes of the table                         *)

String(v) == [type |-> "string", val |-> v]
Bitmap(c) == [type |-> "bitmap", words |-> c]
Zset(f) == [type |-> "zset", score |-> f]

Object == [type : {"string"}, val : Strings \cup {Garbage}]
          \cup [type : {"bitmap"}, words : Contents]
          \cup [type : {"zset"}, score : [Members -> Scores \cup {NULL}]]

(* What a key stands for: of an object that is no string the expiry is     *)
(* never read.                                                             *)
Stored == [type : {"string"}, val : Strings \cup {Garbage}, exp : Nat]
          \cup {o \in Object : o.type # "string"}

(* A ZADD that has to put its member back.                                 *)
Update == [key : Keys, member : Members, score : Scores]

(* A node of the table.                                                    *)
Node == [key : Keys, obj : Object, exp : Nat]

(* A row of the file: a string, a bitmap or one member of a sorted set.    *)
Row == [key : Keys, type : {"string"}, val : Strings \cup {Garbage}, exp : Nat]
       \cup [key : Keys, type : {"bitmap"}, words : Contents]
       \cup [key : Keys, type : {"zset"}, member : Members, score : Scores]

(* A score read from the digits doubleToString writes, NULL when parseArgs *)
(* refuses them.                                                           *)
Reread == [s \in Scores |-> parseScore(doubleToString(s), NULL)]

ASSUME PersistenceAssumption ==
  /\ Keys # {} /\ IsFiniteSet(Members) /\ Scores \subseteq Int
  /\ Reread \in [Scores -> Scores \cup {NULL}] /\ Hash \in [Keys -> Nat]
  /\ Ttls \subseteq Nat /\ MaxNodes \in Nat
  /\ MaxClock \in Nat /\ DefaultExpiry \in Nat
  /\ NULL \notin Scores /\ Garbage \notin Strings
  /\ NULL \notin Object /\ NULL \notin Stored /\ NULL \notin Node /\ NULL \notin Update
  /\ NULL \notin [Keys -> Stored \cup {NULL}]

VARIABLES
  clock,  (* timeStamp()                                                    *)
  table,  (* HASH_TABLE                                                     *)
  file,   (* the complete rows of the rdb file                              *)
  torn,   (* a row that is cut off follows them                             *)
  pc,     (* down, boot, idle, update, flush, load, save or exit            *)
  op,     (* update: the key, member and new score of a ZADD between        *)
          (* removeNodeFromSkipList and addNodeToSkiplist                   *)
  pos,    (* the row a load is at                                           *)
  before, (* history: the map when an update or a LOADDB began              *)
  kept,   (* history: what the file held when a save truncated it           *)
  broken  (* history: rows met their keys, a torn row was read, SIGINT came *)
          (* in the middle of FLUSHALL, or a tied member was not found      *)

vars == <<clock, table, file, torn, pc, op, pos, before, kept, broken>>

-----------------------------------------------------------------------------
(* The table                                                               *)

(* Only strings expire.                                                    *)
Expired(n) == n.obj.type = "string" /\ n.exp < clock

(* The node findNode returns: the first with that key; 0 if there is none. *)
Find(tbl, k) == SelectInSeq(tbl, LAMBDA n : n.key = k)

(* get: an expired node is deleted.                                        *)
Purged(tbl, k) ==
  LET i == Find(tbl, k)
  IN IF i # 0 /\ Expired(tbl[i]) THEN RemoveAt(tbl, i) ELSE tbl

Got(tbl, k) ==
  LET i == Find(tbl, k)
  IN IF i = 0 \/ Expired(tbl[i]) THEN NULL ELSE tbl[i].obj

(* addNodeToList: at the end of the bucket of the key.                     *)
Added(tbl, k, o, e) ==
  InsertAt(tbl, 1 + Cardinality({i \in DOMAIN tbl : Hash[tbl[i].key] <= Hash[k]}),
           [key |-> k, obj |-> o, exp |-> e])

(* set: the object of the first node with that key, or a new node.         *)
SetTo(tbl, k, o) ==
  LET i == Find(tbl, k)
  IN IF i = 0 THEN Added(tbl, k, o, DefaultExpiry) ELSE [tbl EXCEPT ![i].obj = o]

AppendedAlways(tbl, k, o, e) == Added(tbl, k, o, e)

(* setWithExpiry, for a key that has not expired.                          *)
SetUntil(tbl, k, o, e) ==
  LET i == Find(tbl, k)
  IN IF i = 0 THEN Added(tbl, k, o, e) ELSE [tbl EXCEPT ![i].obj = o, ![i].exp = e]

IsZset(o) == o # NULL /\ o.type = "zset"
NoMember == [m \in Members |-> NULL]

(* The map the table stands for.                                           *)
Map ==
  [k \in Keys |->
     LET i == Find(table, k)
         n == table[i]
     IN IF i = 0 \/ n.obj = Zset(NoMember) THEN NULL
        ELSE IF n.obj.type = "string"
             THEN [type |-> "string", val |-> n.obj.val, exp |-> n.exp]
             ELSE n.obj]

(* zaddCommand, for a key that is free or holds a sorted set.              *)
WithScore(tbl, k, m, s) ==
  LET o == Got(tbl, k)
  IN SetTo(Purged(tbl, k), k,
           Zset([(IF o = NULL THEN NoMember ELSE o.score) EXCEPT ![m] = s]))

-----------------------------------------------------------------------------
(* The rows of a table                                                     *)

(* The ways level 0 of a skip list may link the members: by score; which   *)
(* of two with one score comes first depends on their levels and on when   *)
(* they came (addNodeToSkiplist compares the node before).                 *)
Linked(f) ==
  LET S == {m \in Members : f[m] # NULL}
  IN {s \in Bijection(1..Cardinality(S), S) :
        \A i, j \in DOMAIN s : i < j => f[s[i]] <= f[s[j]]}

MemberRow(n, m) == [key |-> n.key, type |-> "zset", member |-> m, score |-> n.obj.score[m]]

FirstMemberOnly(n) ==
  {[i \in DOMAIN s \cap {1} |-> MemberRow(n, s[i])] : s \in Linked(n.obj.score)}

(* writeSkiplistToFile                                                     *)
MemberRows(n) == {[i \in DOMAIN s |-> MemberRow(n, s[i])] : s \in Linked(n.obj.score)}

RowsOf(n) ==
  CASE n.obj.type = "string" ->
         {<<[key |-> n.key, type |-> "string", val |-> n.obj.val, exp |-> n.exp]>>}
    [] n.obj.type = "bitmap" ->
         {<<[key |-> n.key, type |-> "bitmap", words |-> n.obj.words]>>}
    [] n.obj.type = "zset" -> MemberRows(n)

RowsOfTail(tbl) == IF tbl = <<>> THEN {<<>>} ELSE RowsOf(tbl[Len(tbl)])

(* The loop of saveCommand over buckets and nodes: what it may write.      *)
Rows(tbl) ==
  {FlattenSeq(parts) :
     parts \in {p \in [DOMAIN tbl -> UNION {RowsOf(n) : n \in ToSet(tbl)}] :
                  \A i \in DOMAIN tbl : p[i] \in RowsOf(tbl[i])}}

-----------------------------------------------------------------------------
(* Commands that change the table                                          *)

Changes(tbl) ==
  /\ Len(tbl) <= MaxNodes
  /\ table' = tbl
  /\ UNCHANGED <<clock, file, torn, pos, kept, broken>>

setCommand ==
  /\ pc = "idle"
  /\ \E k \in Keys, v \in Strings, t \in Ttls :
       /\ Purged(table, k) = table
       /\ Changes(SetUntil(table, k, String(v), IF t = 0 THEN DefaultExpiry ELSE t + clock))
  /\ UNCHANGED <<pc, op, before>>

(* SETBIT creates or changes a bitmap.                                     *)
setbitCommand ==
  /\ pc = "idle"
  /\ \E k \in Keys, c \in Contents :
       LET o == Got(table, k)
       IN /\ o # NULL => o.type = "bitmap"
          /\ Changes(SetTo(Purged(table, k), k, Bitmap(c)))
  /\ UNCHANGED <<pc, op, before>>

(* get finds the key expired.                                              *)
purge ==
  /\ pc = "idle"
  /\ \E k \in Keys : Purged(table, k) # table /\ Changes(Purged(table, k))
  /\ UNCHANGED <<pc, op, before>>

delCommand ==
  /\ pc = "idle"
  /\ \E k \in Keys : LET i == Find(table, k) IN i # 0 /\ Changes(RemoveAt(table, i))
  /\ UNCHANGED <<pc, op, before>>

(* Another member has the score of m.                                      *)
Tied(f, m) == \E n \in Members \ {m} : f[n] # NULL /\ f[n] = f[m]

(* A member that is there is taken out before it is put back.  The search  *)
(* of removeNodeFromSkipList compares the node ahead, that of              *)
(* addNodeToSkiplist the node before: it may miss a member that is tied.   *)
zaddCommand ==
  /\ pc = "idle"
  /\ \E k \in Keys, m \in Members, s \in Scores :
       LET o == Got(table, k)
       IN /\ o # NULL => IsZset(o)
          /\ IF IsZset(o) /\ o.score[m] # NULL
             THEN /\ pc' = "update"
                  /\ op' = [key |-> k, member |-> m, score |-> s]
                  /\ before' = Map
                  /\ \/ Changes(WithScore(table, k, m, NULL))
                     \/ Tied(o.score, m) /\ Changes(table)
             ELSE Changes(WithScore(table, k, m, s)) /\ UNCHANGED <<pc, op, before>>

(* addNodeToSkiplist.  A member that was missed has two towers now, and    *)
(* replaceNodeValue frees the key the first of them still uses: SAVE would *)
(* write the member twice.  One that was found at level 0 may have left    *)
(* freed nodes linked above.  What follows either is not looked at.        *)
updated ==
  /\ pc = "update"
  /\ pc' = "idle" /\ op' = NULL /\ before' = NULL
  /\ LET o == Got(table, op.key)
         missed == o # NULL /\ o.score[op.member] # NULL
     IN \/ ~missed /\ UNCHANGED broken
        \/ Tied(before[op.key].score, op.member) /\ broken' = TRUE
  /\ table' = WithScore(table, op.key, op.member, op.score)
  /\ UNCHANGED <<clock, file, torn, pos, kept>>

flushCommand ==
  /\ pc = "idle" /\ pc' = "flush"
  /\ Changes(table) /\ UNCHANGED <<op, before>>

flushed ==
  /\ pc = "flush" /\ pc' = "idle"
  /\ Changes(<<>>) /\ UNCHANGED <<op, before>>

-----------------------------------------------------------------------------
(* saveCommand                                                             *)

(* SAVE: fopen with "w+" empties the file before the first row is written. *)
(* When fopen fails nothing changes.                                       *)
saveCommand ==
  /\ pc = "idle" /\ pc' = "save"
  /\ file' = <<>> /\ torn' = FALSE
  /\ kept' = file
  /\ UNCHANGED <<clock, table, op, pos, before, broken>>

(* fclose, after the row of the last node.                                 *)
saved ==
  /\ pc = "save" /\ pc' = "idle"
  /\ file' \in Rows(table) /\ kept' = <<>>
  /\ UNCHANGED <<clock, table, torn, op, pos, before, broken>>

(* What is gone with the process.                                          *)
Dies ==
  /\ pc' = "down"
  /\ table' = <<>> /\ op' = NULL /\ pos' = 1 /\ before' = NULL /\ kept' = <<>>

exited ==
  /\ pc = "exit"
  /\ file' \in Rows(table)
  /\ Dies
  /\ UNCHANGED <<clock, torn, broken>>

-----------------------------------------------------------------------------
(* loadFromDB                                                              *)

(* The table is new; the file is read from its first row.                  *)
restart ==
  /\ pc = "down" /\ pc' = "boot"
  /\ UNCHANGED <<clock, table, file, torn, op, pos, before, kept, broken>>

loadCommand ==
  /\ pc = "idle" /\ pc' = "load"
  /\ before' = Map
  /\ UNCHANGED <<clock, table, file, torn, op, pos, kept, broken>>

StaysAtEnd == pc' = "idle" /\ UNCHANGED pos /\ before' = NULL

(* The end of a load, and of a start: also of one that failed.             *)
LoadEnds == pc' = "idle" /\ pos' = 1 /\ before' = NULL

Loading(type) == pc \in {"boot", "load"} /\ pos <= Len(file) /\ file[pos].type = type

(* A row that spoils what was there breaks the promise.                    *)
NextRow(spoils) ==
  /\ pos' = pos + 1 /\ broken' = (broken \/ spoils)
  /\ UNCHANGED <<clock, file, torn, pc, op, before, kept>>

(* setFromLoad drops a string that has expired, and does not look for the  *)
(* key of another.                                                         *)
loadHashMapEntry ==
  /\ Loading("string")
  /\ LET r == file[pos]
     IN IF r.exp < clock
        THEN NextRow(FALSE) /\ UNCHANGED table
        ELSE /\ table' = Added(table, r.key, String(r.val), r.exp)
             /\ NextRow(Find(table, r.key) # 0)

(* The row of a member is a ZADD, which has to answer 1: parseArgs reads   *)
(* its score, the key is free or holds a sorted set, the member is new.    *)
AnswersOne(r) ==
  LET o == Got(table, r.key)
  IN Reread[r.score] # NULL /\ (o # NULL => IsZset(o) /\ o.score[r.member] = NULL)

loadSkiplistEntry ==
  /\ Loading("zset")
  /\ LET r == file[pos]
     IN /\ AnswersOne(r)
        /\ table' = WithScore(table, r.key, r.member, Reread[r.score])
        /\ NextRow(pc = "load" /\ IsZset(before[r.key]))

(* Any other answer ends the load: the rows that follow are not read.      *)
loadAbandoned ==
  /\ Loading("zset")
  /\ LET r == file[pos]
     IN /\ ~AnswersOne(r)
        /\ table' = IF Reread[r.score] # NULL /\ IsZset(Got(table, r.key))
                    THEN WithScore(table, r.key, r.member, Reread[r.score])
                    ELSE Purged(table, r.key)
  /\ LoadEnds /\ broken' = TRUE
  /\ UNCHANGED <<clock, file, torn, op, kept>>

(* loadBitmap takes the place of whatever is there.                        *)
loadBitmapEntry ==
  /\ Loading("bitmap")
  /\ LET r == file[pos] IN table' = SetTo(table, r.key, Bitmap(r.words))
  /\ NextRow(FALSE)

loaded ==
  /\ pc \in {"boot", "load"} /\ pos > Len(file) /\ ~torn
  /\ LoadEnds
  /\ UNCHANGED <<clock, table, file, torn, op, kept, broken>>

(* The row that is cut off.  In its first eight bytes the loop ends; later *)
(* freads fail unchecked, and what buffer and len held before makes a row  *)
(* or ends the process.                                                    *)
loadTorn ==
  /\ pc \in {"boot", "load"} /\ pos > Len(file) /\ torn
  /\ \/ LoadEnds /\ UNCHANGED <<table, broken>>
     \/ /\ \E k \in Keys : table' = Added(table, k, String(Garbage), DefaultExpiry)
        /\ LoadEnds /\ broken' = TRUE
     \/ Dies /\ UNCHANGED broken
  /\ UNCHANGED <<clock, file, torn, op, kept>>

-----------------------------------------------------------------------------
(* SIGINT and crashes                                                      *)

(* sigHandler, actionBeforeExit: the table is saved as it is, whatever the *)
(* thread was doing.  When that was a SAVE, exit flushes its stream too,   *)
(* over the same bytes.                                                    *)
sigHandler ==
  /\ pc \in {"boot", "idle", "update", "load", "save"} /\ pc' = "exit"
  /\ file' = <<>> /\ torn' = FALSE
  /\ kept' = IF pc = "save" THEN kept ELSE file
  /\ op' = NULL /\ pos' = 1 /\ before' = NULL
  /\ UNCHANGED <<clock, table, broken>>

(* When the file cannot be opened the process exits all the same.          *)
sigHandlerUnsaved ==
  /\ pc \in {"boot", "idle", "update", "load"}
  /\ Dies
  /\ UNCHANGED <<clock, file, torn, broken>>

(* The handler walks lists that are half freed; what that leaves of the    *)
(* file is not looked at.                                                  *)
sigHandlerInFlush ==
  /\ pc = "flush"
  /\ Dies
  /\ file' = <<>> /\ torn' \in BOOLEAN /\ broken' = TRUE
  /\ UNCHANGED clock

(* The process dies.  Of a save, some rows are in the file, and part of    *)
(* the next one may be.                                                    *)
crash ==
  /\ pc # "down"
  /\ Dies
  /\ IF pc \in {"save", "exit"}
     THEN \E rows \in Rows(table) : \E n \in 0..Len(rows) :
            /\ file' = SubSeq(rows, 1, n)
            /\ torn' \in {t \in BOOLEAN : t => n < Len(rows)}
     ELSE UNCHANGED <<file, torn>>
  /\ UNCHANGED <<clock, broken>>

Tick ==
  /\ clock < MaxClock
  /\ clock' = clock + 1
  /\ UNCHANGED <<table, file, torn, pc, op, pos, before, kept, broken>>

Init ==
  /\ clock = 0
  /\ table = <<>> /\ file = <<>> /\ torn = FALSE
  /\ pc = "down" /\ op = NULL /\ pos = 1
  /\ before = NULL /\ kept = <<>> /\ broken = FALSE

Command ==
  \/ setCommand \/ setbitCommand \/ delCommand \/ zaddCommand \/ purge
  \/ flushCommand \/ saveCommand \/ loadCommand

Serve ==
  \/ updated \/ flushed
  \/ saved \/ exited
  \/ loadHashMapEntry \/ loadSkiplistEntry \/ loadAbandoned \/ loadBitmapEntry
  \/ loaded \/ loadTorn

Fault == sigHandler \/ sigHandlerUnsaved \/ sigHandlerInFlush \/ crash

Next == Command \/ Serve \/ restart \/ Fault \/ Tick

Spec == Init /\ [][Next]_vars

-----------------------------------------------------------------------------
(* Properties                                                              *)

(* What every variable holds: the rows of the file are whole rows, and a   *)
(* load, when one is under way, is at one of them or past the last         *)
(* (loadFromDB).                                                           *)
TypeOK ==
  /\ clock \in 0..MaxClock
  /\ table \in Seq(Node) /\ file \in Seq(Row) /\ kept \in Seq(Row)
  /\ torn \in BOOLEAN /\ broken \in BOOLEAN
  /\ pc \in {"down", "boot", "idle", "update", "flush", "load", "save", "exit"}
  /\ op \in Update \cup {NULL}
  /\ op # NULL <=> pc = "update"
  /\ pos \in 1..(Len(file) + 1)
  /\ before \in [Keys -> Stored \cup {NULL}] \cup {NULL}
  /\ before # NULL <=> pc \in {"load", "update"}

(* Within an update or a LOADDB the map is what it was when it began.      *)
db ==
  CASE pc \in {"down", "boot"} -> [k \in Keys |-> NULL]
    [] pc \in {"update", "load"} -> before
    [] OTHER -> Map

(* What the rows of the file are read back as; within a save, of the file  *)
(* it truncated.                                                           *)
disk ==
  LET rows == IF pc \in {"save", "exit"} THEN kept ELSE file
  IN [k \in Keys |->
        LET S == {i \in DOMAIN rows : rows[i].key = k}
            r == rows[CHOOSE i \in S : TRUE]
        IN IF S = {} THEN NULL
           ELSE IF r.type = "string" THEN [type |-> "string", val |-> r.val, exp |-> r.exp]
           ELSE IF r.type = "bitmap" THEN Bitmap(r.words)
           ELSE Zset([m \in Members |->
                  LET T == {i \in S : rows[i].member = m}
                  IN IF T = {} THEN NULL ELSE Reread[rows[CHOOSE i \in T : TRUE].score]])]

Promise ==
  INSTANCE Durable WITH up <- pc \notin {"down", "boot"},
                        busy <- pc \in {"boot", "update", "flush", "load"}

(* Saves, loads, shutdowns, crashes and restarts keep the promise of       *)
(* Durable.tla: what SAVE has written is what a start reads, whatever came *)
(* between, and nothing of it is lost, doubled or moved to another key     *)
(* (saveCommand, loadFromDB, sigHandler).                                  *)
ImplementsDurable == Promise!Spec

(* A load fails or spoils something only when the last row is torn, a      *)
(* score is refused, or a LOADDB meets the key of its row; what else ends  *)
(* the promise is SIGINT within FLUSHALL, or the update of a member that   *)
(* is tied with another.  Until then the rows of a file that was saved     *)
(* never meet each other (loadFromDB, its loaders, saveCommand).           *)
LoadsUnlessMetOrTorn ==
  [][(~broken /\ broken') =>
       \/ pc = "flush"
       \/ pc = "update" /\ Tied(before[op.key].score, op.member)
       \/ torn /\ pos > Len(file)
       \/ file[pos].type = "zset" /\ Reread[file[pos].score] = NULL
       \/ pc = "load" /\ before[file[pos].key] # NULL]_vars

(* A score with no more decimals than are printed, that fits in an int.    *)
Short(s) ==
  /\ s % Base = 0
  /\ -(2^(IntBits - 1)) * Unit < s /\ s < 2^(IntBits - 1) * Unit

(* Of a file none of whose sets had a tied member updated, a start reads   *)
(* each such score as it was, the leading zeros of its fraction included,  *)
(* and never ends at it (doubleToString, stringTolongDouble,               *)
(* loadSkiplistEntry, writeSkiplistToFile).                                *)
ShortScoresSurvive ==
  [][(~broken /\ pc = "boot" /\ pos <= Len(file) /\ file[pos].type = "zset" /\ Short(file[pos].score)) =>
       /\ ~broken'
       /\ pos' = pos + 1 => Got(table', file[pos].key).score[file[pos].member] = file[pos].score]_vars

(* "It shuts down the server after writing all the stored data in rdb      *)
(* file" (redisserver.c:337): when the handler of SIGINT starts to write,  *)
(* the table has every object that is stored and has not expired.          *)
ShutdownSavesAll ==
  [][(pc # "exit" /\ pc' = "exit") =>
       \A k \in Keys :
         LET o == IF pc = "boot" THEN disk[k] ELSE db[k]
         IN o = NULL \/ Map[k] = o \/ (o.type = "string" /\ o.exp < clock)]_vars

(* What follows a broken promise is not looked at.                         *)
NotBroken == ~broken
=============================================================================
