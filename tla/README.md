# exoredis in TLA+

exoredis is a small Redis server in C: strings with expiries, bitmaps and
sorted sets, reached over RESP or plain lines, saved to one file. This
directory models it in TLA+ from the bytes of a request to the rdb file, checks
small instances with TLC and proves with TLAPS, for instances of any size, that
its hash table, sorted sets, bitmaps, connections and file do what their
abstract specifications say, and that its strings and objects have one owner.

## 1. Inventory

The server is one thread. libevent calls `readCallback` when bytes have come;
it parses one request, runs the command to its end, writes the reply, frees the
garbage and returns. Nothing runs beside a command except the clock (expiry)
and the SIGINT handler.

| part | source | state | operations |
|---|---|---|---|
| hash table, linked lists | `ds/hashtable.c`, `ds/linkedlist.c` | `HASH_TABLE`: 2048 buckets, each a doubly linked list of nodes (key, value, expiry) | `get` (purges an expired node), `set`, `setWithExpiry`, `setFromLoad`, `del`, `freeHashTable` |
| keyspace commands | `ds/commands.c` | none of their own | GET, SET (EX, PX, NX, XX), DEL, FLUSHALL |
| bitmaps | `ds/bitmap.c` | array of words that grows | GETBIT, SETBIT, load of a row |
| sorted sets | `ds/skiplist.c` | skip list with spans, table from members to towers | ZADD (NX, XX, CH, INCR), ZCARD, ZCOUNT, ZRANGE |
| deferred frees | `ds/utilities.c`, `freeGarbage` | `GARBAGE_LIST` | append in `freeExoVal`, drain after each reply |
| argument ownership | `ds/utilities.c`, `commandDispatcher` | `argList`, a `dead` flag per argument | `freeAllArgs`, `freeDeadArgs`, flags set by the commands |
| persistence | `ds/commands.c`, `loadBitmap` | the rdb file | SAVE, LOADDB, load at start |
| shutdown | `redisserver.c` | none | SIGINT handler: save, free, exit |
| connections, protocol | `redisserver.c`, `protocol.c` | bytes buffered by libevent | read, RESP tokenizer, line tokenizer, one reply per read |
| number conversions | `ds/utilities.c` | none | strings to `long long`, `long double` and back |

How they interact. A command calls the hash table, which owns the nodes, keys
and objects; a sorted set owns a hash table of its own, from members to towers.
Objects that are replaced or deleted go to the garbage list. Argument strings
are handed to the table when they are stored and freed by the dispatcher when
they are marked dead. A row of the rdb file is loaded through the same calls a
command makes (`setFromLoad`, `zaddCommand`, `set`).

What is hard here:

- **pointers**: lists and towers are linked by hand, and a purge inside `get`
  frees a node between two uses of the list;
- **the clock**: `isExpired` reads it anew each time it is asked, several times
  in one request;
- **a node freed but still linked**: SET of an expired key;
- **partial effects**: a ZADD of several pairs, a set created before its
  arguments are parsed, a load that stops midway, SIGINT in the middle;
- **the skip list's search**, which insertion and removal do with different
  tie-breaks;
- **one file**, truncated before it is written;
- **manual ownership**: which argument strings the table keeps, which the
  dispatcher frees, which a flag marks, decided at each exit of each command;
- **one read is one request**, whatever bytes the network delivers in it;
- **numbers** parsed digit by digit into `int` and `long long`.

`PROJECT.json`, "hazards", lists these by line, with the properties that cover
them.

What would make each part correct:

- hash table: lists well formed, no leak and no dangling pointer, one node per
  key, each command an atomic step of a map from keys to objects;
- sorted sets: towers in order on every level, spans equal to distances, one
  tower per member, each reply that of a map from members to scores;
- bitmaps: the words are the set of bits, bits past the end are zero, growth
  clears exactly the new words;
- deferred frees and ownership: every string and object is freed once;
- persistence: what was saved is what is loaded; a crash keeps the old or the
  new state; shutdown: the file holds the state between two commands;
- protocol: each request that comes in a read of its own is answered for what
  it says, and nothing else is ever taken for a RESP request.

## 2. Modules

| module | role |
|---|---|
| `Api` | requests, objects and replies of the keyspace commands |
| `Keyspace` | abstract: a map from keys to objects with expiries |
| `Dict` | the hash table and its lists, pointer by pointer; implements `Keyspace` |
| `MCDict` | instances of `Dict` for TLC |
| `DictProofs` | theorems about `Dict`: its invariants, its action properties and its refinement |
| `ZsetApi` | requests and replies of the sorted set commands |
| `SortedSet` | abstract: a map from members to scores |
| `SkipList` | the skip list, its member table and its commands; implements `SortedSet` |
| `MCSkipList` | instances of `SkipList` for TLC |
| `SkipListProofs`, `SkipListRefinementProofs` | theorems about `SkipList`: its invariants; its refinement |
| `Durable` | abstract: a map that runs and a map that outlives it |
| `Persistence` | the rdb file, SAVE and loads, SIGINT, crashes, restarts; implements `Durable` |
| `MCPersistence` | instances of `Persistence` for TLC |
| `Numbers` | digits to `long long` and `long double` and back, at the widths of its constants; used by `Persistence` and `Bitmap` |
| `BitSet` | abstract: an object that is a set of bit positions |
| `Bitmap`, `MCBitmap` | SETBIT and GETBIT over an array of words that grows; implements `BitSet` |
| `Induction` | lemmas for the modules with theorems: induction up to a number, recursive functions and their uniqueness, sums that grow, sequences laid out one behind the other |
| `BitmapProofs` | theorems about `Bitmap` and the digit loops of `Numbers` |
| `Protocol` | the two tokenizers, as functions from bytes to arguments |
| `Service` | abstract: each client's requests answered in order |
| `Connection`, `MCConnection` | clients, byte streams, reads, dispatch; uses `Protocol`, implements `Service` |
| `Ownership`, `MCOwnership` | strings, objects, the garbage list: who frees what |
| `OwnershipProofs` | theorems about `Ownership` |
| `ConnectionProofs` | theorems about `Connection` and the tokenizers of `Protocol` |
| `PersistenceProofs` | theorems about `Persistence` and the digits of scores in `Numbers` |

`Persistence` and `Bitmap` both EXTEND `Numbers`; `Connection` EXTENDS
`Protocol`. The other models meet at the requests they share: `Dict` has the
nodes of a key, `SkipList`, `Bitmap` and `Persistence` what is stored there or
saved, `Ownership` the memory behind all of it.

### Dict

`mem` is the heap of list nodes: a record at each address in use, `NULL`
elsewhere. `newNode` may return any address that is free, the one just freed
among them. `lists` is the buckets' `linkedList` structs. `pc`, `caller`, `op`,
`key`, `cur`, `bkt`, `since`, `rest`, `count` are the position and the locals of
the thread.

| action | code |
|---|---|
| `RecvLookup`, `RecvSet`, `RecvDel`, `RecvFlush`, `RecvLoad` | a parsed request reaches its command, up to the first lookup |
| `findNext` | one turn of the loop in `findNode` |
| `getHit`, `getMiss`, `getExpired`, `purgeHit` | `get`, and the `del` it makes of an expired node |
| `setHit`, `setMiss` | `set`; `setMiss` goes on to the `del` at the end of `zaddCommand` when the new set stayed empty |
| `setxHit`, `setxMiss`, `setxExpired` | `setWithExpiry` |
| `setFromLoad` | a string row of the file |
| `delHit`, `delMiss` | `del` for DEL and for ZADD |
| `flushNode`, `flushBucket`, `flushDone` | `freeHashTable` node by node, then the swap of the table |
| `readFreed`, `writeFreed` | the thread touches a freed node: undefined behaviour, the model stops |
| `Tick` | a millisecond passes, between any two steps |

What a call does where its walk ended is one step: no other thread can see the
middle of it. The clock can move between a walk and what follows, except that
`isExpired` and the branch it decides are one step; the several evaluations in
one request are several steps.

GETBIT, ZCARD, ZCOUNT and ZRANGE look their key up like GET and are not repeated.
SETBIT and ZADD are a lookup and, on a miss, a `set`. The rows of the rdb file
are requests (LOADSTR, LOADBITMAP, and a ZADD for each member) that come in any
order with other requests: what LOADDB does, one row after the other.
Allocation never fails; a request that finds no free address waits.

`chain` (the addresses linked into each bucket), `stale` (a node was freed while
linked) and `dup` (a row met its key) are history variables: no guard of an
action reads them, and `chain` follows `mem` only until `stale`.

### SkipList

A tower is a member's nodes linked by `down`; `next` and `span` hold, for each
level and tower, the fields `next` and `children` of the node at that level. The
sentinels form the tower `HEAD`, as high as `levels`. `hop` and `down` are one
turn of the search loops (insertion, removal, the two of `rankByScore`,
`rankByOrder`); `unlink` and `splice` are what `removeNodeFromSkipList` and
`addNodeToSkiplist` do when the search has ended, for any height
`randomLevelRaiser` may return. `lookup` and `zadded`/`incremented` are the loop
of `addOrUpdateMember` and `scoreIncrement`; `emit` is one turn of ZRANGE's
loop. The member table is a map: `Dict` is about hash tables.

`unlinkMissed` and `unlinkPartly` are the removals that do not find their tower,
or not on each of its levels. They happen only after two members have had one
score. When something freed is still linked (`dangling`), any later walk is
undefined and the model stops at it.

Scores are integers and members are numbers in the order of `strcmp`; `Sentinel`
is where the word "sentinel" falls in that order. Spans are integers; where the
code compares unsigned sums, a negative sum counts as huge.

### Persistence

`table` is the sequence of the table's nodes in the order SAVE meets them, `file`
the sequence of rows in the file, `torn` whether a row that is cut off follows.
`pc` says what the process is doing: `down`, `boot` (the load at the start),
`idle`, `update` (a ZADD between removal and insertion), `flush`, `load`
(LOADDB), `save` or `exit` (the save in the handler).

| action | code |
|---|---|
| `setCommand`, `setbitCommand`, `delCommand`, `purge`, `zaddCommand`, `updated`, `flushCommand`, `flushed` | what commands do to the table, in the steps SIGINT can come between |
| `saveCommand`, `saved` | the file is opened and truncated; its rows are written and it is closed |
| `restart`, `loadCommand` | the load at the start, LOADDB |
| `loadHashMapEntry`, `loadSkiplistEntry`, `loadBitmapEntry` | one row |
| `loadAbandoned` | the ZADD of a row does not answer 1: the rest of the file is not read |
| `loadTorn`, `loaded` | the end of the file, with a torn row or without |
| `sigHandler`, `exited`, `sigHandlerUnsaved`, `sigHandlerInFlush` | SIGINT, when the file can be opened, when not, and amid FLUSHALL |
| `crash` | the process dies; of a save any prefix of the rows is there |

Writing the rows is one step: the table does not change under it, and what can
cut it short, a crash, leaves any prefix. `before`, `kept` and `broken` are
history variables. `broken` becomes true where a row meets its key, a torn row
is read, a score is refused, the handler walks freed lists or a tied member is
updated; the runs do not go on from there (constraint `NotBroken`).

Members with one score: insertion compares the key of the node before, so which
of them comes first depends on their levels and on when they came. `Linked` is
the set of all orders by score, ties in any order, and SAVE writes any of them.
The search of an update may miss the tower of a tied member (`Tied`): then
`zaddCommand` takes nothing out, `updated` links a second tower, and the code's
next SAVE writes the member twice, once with a key that is freed, and the load
of that file ends at the second row. A search that does find the tower may leave
it linked on higher levels. The model says that the member is there with its new
score and ends the promise (`broken`): `SkipList` has what the towers look like
then.

`Reread` is what a score becomes by way of its digits in the file, `NULL` when
`parseArgs` refuses them: `doubleToString` of `Numbers` and back through
`stringTolongDouble`.

### Numbers

A numeral is a sequence of digits; `Accumulated` is the loop that multiplies and
adds at a given width and wraps around, as the build does. `stringToLongLong`
looks at `LL_MAX` between two digits only: of all numbers beyond `LL_MAX` it is
sure to refuse just `LL_MAX + 1`; others come out as some number, which may be a legal
offset. `stringTolongDouble` accumulates the whole part, the fraction and the
power of ten in `int`; -1 is both a number and its error. `doubleToString`
rounds to the decimals of `%Lf` and cuts at the end of its buffer. `INF` is left
out.

### Bitmap

`node` is the object of one key. `setbitInside`, `setbitGrows` and `getbit` are
`setBit`, `initBitmapNode` and `getBit` behind their checks (`refused`), from
the digits of the offset on; the words `realloc` adds hold junk until `memset`
clears them. `setbitFails` is `malloc` or `realloc` without memory: the code
keeps a length without words, or a node it has freed, and answers. A touch of
such words sets `down`. `save`, `load`, `restart`, `setPlain` and `del` are what
other commands do to the bitmap.

### Protocol and Connection

`respTokenizer` finds the bulk strings one behind the other (`Bulks`); where the
code returns NULL it is `NULL`. The loop counts to `num`, the announced number
plus one, so that its last turn finds the end. `simpleTokenizer` splits at
blanks.

`sent` is what a client has sent and the server has not read; `readCallback`
takes any number of its bytes, tokenizes them, dispatches, and answers at once.
`reply` is the last reply; for a command that runs it is the arguments, since
what commands answer is the business of the other modules. `readOverrun` is a
read of more bytes than buffer and slack hold: the cap is tested after the copy.
A message may have lost a byte (`lost`), be inline, or be empty. Of a RESP
message that was cut, the rest comes as a read that does not begin with a star
and is taken for an inline command.

`ConnectionAssumption` says what a message may be. Requests in RESP have fewer
than ten arguments of fewer than ten bytes each, so that `query_string` writes
its numbers with one digit. In a message that has lost a byte no argument is
empty or begins with a CR, because there the claim is false: without its length
`$0` CRLF CRLF still reads as an empty argument, since `getRespInt` takes no
digit at all for 0, and an argument that begins with a CR can be passed over in
the same way.

### Ownership

`heap.live` are the blocks of memory in use, `heap.table` who of the table holds
them, `heap.garbage` the garbage list. A command is one action: it cuts the
request into strings, moves them to where they are kept and marks others dead
(`args`). Then come `commandDispatcher` (`freeAllArgs` or `freeDeadArgs`),
`writeToBuffer` (which frees the dead strings of a ZRANGE reply), `freeGarbage`
node by node and `done`. Freeing a set appends the values of its entries to the
list `freeGarbage` is walking. `sigHandler` may come between any two steps.
`sigHandlerAmid` is SIGINT within a step that frees what is still linked: in
FLUSHALL, where `freeHashTable` has freed a key and a node their bucket still
leads to, and in `freeGarbage`, where an object is freed and its garbage node
not gone. Within other steps SIGINT is not modelled (section 7).

Scores are not in this model, so any member that is updated while its set has
another may be tied with it. Whether the search finds it or not, `set` frees the
same key string and queues the same exoVal; but a tower that was missed stays
linked and leads to what is freed. `missed` has the keys of such sets. A request
that walks one, or `freeSkipList`, may break the memory at any time from then on
(`walkLeft`), and a ZRANGE that gets through may reply with freed keys
(`LeftKeys`). `missed` is cleared when the set is gone.

`Settled` renames the cells the table still holds, so that runs do not differ by
the history of allocations. `refused` and `signalled` are history variables.

The checks found, and the model shows, these facts of the code, none of which
contradicts a sentence of its docs:

- a ZADD refused on a new key frees the key twice (`del` at `commands.c:268`,
  then `freeAllArgs`);
- a SIGINT amid `freeGarbage` walks freed garbage nodes, one amid FLUSHALL frees
  its keys and nodes again (`hashtable.c:123-129`, `redisserver.c:355`);
- after an update that missed its tower ZRANGE replies with a freed key
  (`commands.c:363`), and freeing the set frees the tower's memory twice;
- `freeGarbage` sets head and tail to NULL after its walk, so that the exoVals
  the last set appended leak;
- SET and ZADD leak their name and switches, SET the arguments it does not store,
  ZADD the key it does not need and members it skips.

## 3. Abstract specifications

`Keyspace` is a map `db`; each command takes effect at one moment between
request and reply, DEL key by key, FLUSHALL in any order of keys. Its promise
ends (`broken`) at the two requests the code does not serve: SET on an expired
key not purged yet, and a row loaded over its own key. `Dict` implements it
under `dbView` (property `ImplementsKeyspace`).

`SortedSet` is a map `zset`; each pair of a ZADD takes effect at one moment.
ZCOUNT, ZRANGE and ZCARD answer from the order of (score, member). Its promise
ends when two members come to have one score: the code does not keep such
members in order. `SkipList` implements it under `zsetView`, where an update
takes effect when the new tower is in (`ImplementsSortedSet`).

`Durable` is a map `db` while the server is up and a map `disk`. A save makes
`disk` equal to `db` but for the digits of scores; a start makes `db` equal to
`disk` but for expired strings; a crash amid a save leaves a part of `db` on
`disk`; a SIGINT amid a command or a start cuts `db` to a part and saves that.
`Persistence` implements it under its `db` and `disk` (`ImplementsDurable`): an
update or a LOADDB takes effect when it is over, a save when the file is closed.
Its promise ends where `broken` becomes true, the update of a tied member among
them.

`BitSet` is a set of positions, or an object of another type, or none. Its
promise ends with a failed allocation or an offset beyond `LL_MAX + 1`.
`Bitmap` implements it: the positions are the bits of its words
(`ImplementsBitSet`).

`Service` is a queue of requests for each client, answered from its head. A
read that is not exactly one message breaks the promise for the requests it
touches, and for no other client. `Connection` implements it
(`ImplementsService`): what is pending are the requests of an open connection of
which no byte has been read (`Untouched`), and a connection that is not open has
of everything what a new one begins with.

## 4. Runs

| run | instance | shows |
|---|---|---|
| `MCDict_plain` | 3 keys, 2 buckets, 4 addresses, rows with expiry 0 and 9, clock to 1, DEL of up to 2 keys | `TypeOK`, `ListsWellFormed`, `NodesAccounted`, `KeysUnique`, `UndefinedOnlyAfterStale`, `DelDeletes`, `OnlyNamedKeysChange`, `ImplementsKeyspace` |
| `MCDict_expiry` | 2 keys, 1 bucket, 3 addresses, TTL 0 or 1, clock to 2, fairness | the same hazards with the clock moving: `NodesAccounted`, `UndefinedOnlyAfterStale`, `OnlyNamedKeysChange`, `ImplementsKeyspace`, `Answered` |
| `MCDict_set_expired` | as expiry | violation of `SetOverwrites` |
| `MCSkipList_order` | 3 members, scores and ranks -1..1, ties, 2 levels, the sentinels' key above two members | `TypeOK`, `SpansRight`, `MembersInOrder`, `DanglingOnlyAfterTie`, `ImplementsSortedSet` |
| `MCSkipList_pairs` | 2 members, scores 0 and 1, ties, 2 levels, ZADD of 2 pairs, fairness | `MembersInOrder`, `ImplementsSortedSet`, `Answered` |
| `MCSkipList_card` | 3 members with ties | violation of `CardIsMembers` |
| `MCPersistence_durable` | 2 keys in one bucket, a string that lives for 1, a bitmap, sets of up to 2 members with 2 scores, tied or not, clock to 2 | `TypeOK`, `ImplementsDurable`, `LoadsUnlessMetOrTorn` |
| `MCPersistence_scores` | 1 key, 2 members, tied or not, 8 scores: exact, rounded, refused, overflowing, cut by the buffer | `ImplementsDurable`, `ShortScoresSurvive` |
| `MCPersistence_sigint` | 2 keys, strings and bitmaps | violation of `ShutdownSavesAll` |
| `MCBitmap` | words of 2 bits, 3 of them, offsets to 5, bytes for `long long`, 16 numerals | `TypeOK`, `UndefinedOnlyAfterFailure`, `ImplementsBitSet` |
| `MCConnection` | 2 clients, 6 messages, commands with names of one byte, a buffer of 25 bytes and 3 | `TypeOK`, `OnlyWholeMessagesRun`, `ImplementsService`, `Answered` |
| `MCOwnership` | 2 keys, 2 members, ZADD of up to 2 pairs, DEL of 2 keys | `TypeOK`, `OwnedOnce`, `BrokenOnlyByThese`, `RepliesAlive`, `LostOnly` |

Bounds, and why they are enough for these questions. Three nodes in a bucket
are what a doubly linked list needs to have a head, a middle and a tail; two
buckets are needed for FLUSHALL to go from one to the next; a clock of three
values has before, at and after an expiry. Three towers on two or three levels
have a neighbour on each side on one level and none on the next. `RecvLoad`
waits while a loaded row would take the last address a missing key may need, so
`MCDict_plain` has one address more than keys. `OnlyLoadsAfterStale` stops that
run, but for further rows, where a SET has met an expired key, which
`MCDict_expiry` follows on. `MaxScore` bounds the sums of INCR. `SmallSpans`
keeps the spans near the right ones after a tie, where they drift without end
and `SortedSet` promises nothing any more.

Two keys in one bucket are what a file needs for rows that could meet and for an
order of rows; two members give a set rows that a crash can part, two scores
let them tie and not tie. Files have up to three rows: In
`MCPersistence_durable` the constraint `Small` has one set at a time with both
members, two sets only before the clock moves, and strings written at clock 0
(live at 1, expired at 2) or at 2, among those that have expired. The number of saves, crashes and restarts is not bounded.

The widths in `Numbers` are scaled: `long long` and `int` are bytes, `%Lf` has
two decimals and its buffer six characters, so that short numerals reach every
boundary: `LL_MAX`, the two numbers after it, numbers that wrap to a legal
offset, to -1 and to another negative one; scores that round, that overflow and
that the buffer cuts. `MCBitmap` also has TLC compare `stringToLongLong` with
the value of every numeral of up to three digits up to `LL_MAX + 1`. Three words
let a bitmap grow by one word and by two. In `MCConnection` `c1` has up to two
messages on their way, 36 bytes at most, and reads stop after any byte; two of
the longest exceed the buffer of 25 bytes, and its slack. Two keys and two
members are enough for an owner to be confused with another of its kind, and for
a tower to be left behind.

Deadlock is checked in the runs of
`MCPersistence` and in `MCBitmap`. In the other runs the model really stops: at
undefined behaviour, after SIGINT, or when the nodes a stale table has lost
leave no free address.

Symmetry: addresses and towers are interchangeable; keys are not where they
are told apart by a hash function, and members are not where they are numbers.
In `MCPersistence_durable` all keys have one bucket and members no order, and
both are (`Names`). The runs with fairness use none.

Fairness. `FairSpec` has weak fairness of `Serve`, the disjunction of all steps
of a command: the thread runs as long as there is a next statement. No fairness
is assumed of clients, and none of the clock. In `Connection` it has weak
fairness of `Received(c)`, a read for client `c` of any number of bytes: the
event loop is level-triggered and comes back to each connection that has
something to read (`bufferevent_enable`, `event_base_dispatch`). Nothing is
assumed of how many bytes a read brings.

### What the violations show

- `MCDict_set_expired`: a key expires, nobody reads it, SET writes it again.
  `setWithExpiry` frees the node where it is (`hashtable.c:77-80`). The bucket
  still leads to it; the new value hangs behind freed memory.
- `MCSkipList_card`: two members with one score, one of them updated.
  Insertion compares the key of the node before (`skiplist.c:168-169`), removal
  that of the node after (`skiplist.c:234-235`). Removal does not find the
  tower, and the member is there twice.
- `MCPersistence_sigint`: `main` binds the handler (`redisserver.c:29`) before
  `spinServer` reads the file (`redisserver.c:58`). SIGINT in between truncates
  the file (`commands.c:385`) and saves the rows read so far. With sorted sets
  in the instance a shorter one appears: the handler meets a ZADD between
  removal and insertion and saves the set without the member.

LOADDB while the keys are there is a smaller cousin: `setFromLoad` appends a
second node (`hashtable.c:57-69`) and DEL removes one of them. `KeysUnique` and
`DelDeletes` are conditional on `~dup` for that reason.

Definitions that no action uses (`isExpiredEarly`, `HitNewScore`,
`respTokenizerPrefix`, ...) are plausible bugs of the code; `PROJECT.json`, "mutants",
says which property catches each.

## 5. Proofs

| theorem | module | property |
|---|---|---|
| `TypeCorrect` | `DictProofs` | `TypeOK` |
| `ListsStayWellFormed` | `DictProofs` | `ListsWellFormed` |
| `NodesStayAccounted` | `DictProofs` | `NodesAccounted` |
| `FreedNodesAreNotReached` | `DictProofs` | `UndefinedOnlyAfterStale` |
| `KeysStayUnique` | `DictProofs` | `KeysUnique` |
| `OnlyNamedKeysDoChange` | `DictProofs` | `OnlyNamedKeysChange` |
| `DelDoesDelete` | `DictProofs` | `DelDeletes` |
| `DictImplementsKeyspace` | `DictProofs` | `ImplementsKeyspace` |
| `TypeCorrect` | `SkipListProofs` | `TypeOK` |
| `SpansAreRight` | `SkipListProofs` | `SpansRight` |
| `MembersAreInOrder` | `SkipListProofs` | `MembersInOrder` |
| `DanglesOnlyAfterTie` | `SkipListProofs` | `DanglingOnlyAfterTie` |
| `SkipListImplementsSortedSet` | `SkipListRefinementProofs` | `ImplementsSortedSet` |
| `TypeCorrect` | `BitmapProofs` | `TypeOK` |
| `TouchesOwnWords` | `BitmapProofs` | `UndefinedOnlyAfterFailure` |
| `BitmapImplementsBitSet` | `BitmapProofs` | `ImplementsBitSet` |
| `TypeCorrect` | `OwnershipProofs` | `TypeOK` |
| `OwnersAreApart` | `OwnershipProofs` | `OwnedOnce` |
| `FreedTwiceOnlyThen` | `OwnershipProofs` | `BrokenOnlyByThese` |
| `RepliesAreAlive` | `OwnershipProofs` | `RepliesAlive` |
| `OnlyTheseAreLost` | `OwnershipProofs` | `LostOnly` |
| `TypeCorrect` | `ConnectionProofs` | `TypeOK` |
| `OnlyWholeMessagesDoRun` | `ConnectionProofs` | `OnlyWholeMessagesRun` |
| `ConnectionImplementsService` | `ConnectionProofs` | `ImplementsService` |
| `TypeCorrect` | `PersistenceProofs` | `TypeOK` |
| `LoadsSpoilOnlyThen` | `PersistenceProofs` | `LoadsUnlessMetOrTorn` |
| `PersistenceImplementsDurable` | `PersistenceProofs` | `ImplementsDurable` |
| `ShortScoresAreRead` | `PersistenceProofs` | `ShortScoresSurvive` |

They hold for every set of keys, strings, members, addresses, towers and
buckets, every hash function, every number of levels and words, every width of a
number and every bound on the clock; for any number of clients, messages and
commands, any sizes of buffer and slack, and reads that end after any byte. They assume what the modules state of their
constants (`ApiAssumption`, `DictAssumption`, `ZsetApiAssumption`,
`SkipListAssumption`, `NumbersAssumption`, `BitmapAssumption`,
`OwnershipAssumption`, `ConnectionAssumption`, `PersistenceAssumption`): the
sorts of the constants, what section 2 says of messages, and that `NULL` (and
`HEAD`, `Plain`) is none of the values it marks the absence of.
`BufferAssumption` says that the buffer of `doubleToString` holds the digits of
any `int`. `PowersAssumption` and `DigitsAssumption` are arithmetic: of `2^n` and
`Base^n` the provers know nothing but values of `n` written out.

### Dict

`TypeOK` is inductive. The others need one invariant together,
`Inv == Typed /\ Sound`: the properties themselves, and what the thread knows at
each point of its code. The cursor of a walk stands in the bucket of the key it
looks for; no node before the cursor has that key, which is what makes an
insertion after a missed walk keep keys unique; while FLUSHALL frees, the cursor
is the last node left in its bucket and all buckets before it are empty; and
the caller of a walk belongs to the request being served. `Sound` is conditional
on `~stale`: once a SET has freed a linked node nothing is promised. The
operators on lists (`Linked`, `Extended`, `Unlinked`, `Shortened`, `Without`)
have a lemma each that says what they do to the sequence `chain` of a bucket;
the step of each action then applies these lemmas.

`OnlyNamedKeysChange` and `DelDeletes` follow step by step from `Inv`; `DelDeletes`
needs in addition that the keys of a DEL that lie behind the walk have no node
(which an insertion by the same request could break, and DEL makes none).

The refinement maps a heap to the map `View(mem)` of the keys that have a node.
A walk leaves it alone, and what follows it changes it at one key at most
(`OthersKept`). The cursor decides what the abstract step needs to know: a hit
is the node of the key, so that `Live` is `~isExpired`; a miss means there is
none, since all of the bucket was before the cursor. FLUSHALL frees one key at a
time. A step that makes the table stale or doubles a key is the step that ends
the promise of `Keyspace`.

### SkipList

`Sane` goes with `TypeOK`: links lead to allocated towers of that height, each
node has at most one before it on a level, the table leads to towers of its
members and each tower is the table's, and a walk stands on a node that is
there on its level, as do the nodes it noted in `dirty`.

`Strong` is about positions in `order`, the sequence of towers a list stands for:
on each level `next` leads to the first tower behind that is as high and `span`
is the distance, and the order is that of scores, all conditional on `~tied`.
What makes it inductive is where searches are: a search that has come to a node
on a level has passed only smaller scores, and the nodes it noted are the last
on their levels before the place it looks for. From this, a removal finds its
tower next on each of its levels, which is why nothing dangles; `unlink` moves
the positions behind by one and adds spans; `splice` does the reverse at the
place found, and the sums of spans give the new ones.

For the refinement, `Serving` says what each point of the code knows of its
request, and `Ranged` how far ZCOUNT and ZRANGE are: the sum of the spans passed
is the position, `low` the number of members below the range, and what ZRANGE
has collected a prefix of its answer. Replies then are facts about order:
`RankIsPosition` equates the rank of a member in the abstract set with its
position, by a bijection between the positions up to it and the members not
above it, which also gives the cardinality of a range. The towers stand for the
map of members to scores; an update is a step of `SortedSet` where the new tower
is in, and nothing where the old one is taken out.

### Bitmap

`Inv` adds to the types that words are missing, or freed, only after a failed
allocation. Then a position that is `inside` has its word: the quotient of a
number below `len * BITS_PER_WORD` is below `len`. For the refinement the
positions of updated and of grown words are computed element by element.

That an offset is read as the number it is (`OffsetIsRead`) is about a recursion
over digits of any number. The induction theorems of the library take an operator
as a parameter and no prover here can instantiate them; the least number
principle (`LeastNumber` in `Induction`, from `WFMin`) takes a set, and is used
instead: `UpTo` for induction, `Solution` for the existence of a recursive function and
`SameSolution` for its uniqueness. A number grows with each digit (`ValueGrows`),
so that up to `LL_MAX + 1` no prefix wraps around.

### Ownership

For a heap `h` whose garbage counts from node `i` on, `Owned(h, i)` is what the
keys and values of the table and the garbage own, `Lost(h, i)` what is live
besides. `Sound(h, i)` says that all that is owned is live, and that no two values,
in the table or the garbage, share a cell; within one value cells differ by what
they were allocated for. Each operator on heaps has a lemma that says what it
does to `Sound` and to `Lost`: `FreedKeeps`, `AllocKeeps`, `DelKeeps`,
`SetKeeps`, `RemoveKeeps`, `AddKeeps`. What `del` and `set` free is the key
alone; the value moves from the table to the garbage and stays owned. `OwnedOnce` follows since
`CellOf` is then a bijection from `Slots` to `Owned`.

`IInv` goes with the request. At rest nothing is lost. A parsed request has lost
exactly the strings of its arguments, new and all different (`StringsAre`, from
`FreshIsNew`: among more numbers than live cells one is free). While a command
is done (`AtFree`), what its table entry or dead flags will free is lost to the
table, so that it is freed once; what else is lost is leakable, or the reply's
own; and what the reply points to is live and not among what will be freed.
Writing the reply frees its own strings; draining moves the entries of a freed
set to the end of the garbage, or, for the last node, loses them, which is why
`Leakable` has "entry". Three exceptions break the memory. A refused ZADD that
had made its set: `del` has freed the key that `commandDispatcher` frees next. A
SIGINT: it drops the request, what it has not freed is lost, and the garbage is
freed from the head, which is undefined where a part of it was freed before;
amid FLUSHALL or the freeing of an object (`SigAmidKeeps`) the same cell is freed
again. A tower left behind: `Whole` says that at each point of a request the
memory is broken only with a set in `missed`, and `Pointed` that what a reply
points to is not among what will be freed, but for the ZRANGE of such a set.

DEL, FLUSHALL and the pairs of a ZADD are recursive functions over lists of any
length; `Deleted` and the pairs keep `Good` and `Lost` by `Solution` and `UpTo`.
The members of a ZADD may repeat: the second pair frees the string the first
one stored and leaves its entry to the garbage.

### Connection

`IInv` adds to `TypeOK` that the parts of the state are functions of the clients
and that a closed connection leaves no reply behind, which is what `doAccept`
finds. That `Consume` keeps it is about where messages end: `Packs` shows that
`Ends` grows and that the bytes under way are those of the messages, `WholeExists`
that every number of bytes ends in one message, `Takes` what is left then.

The theorems rest on what the tokenizers return, for arguments of any bytes.
`WholeMessage`: a message alone in its read is read for what it says, or refused
where a byte is lost. `RespMessage`: a read that starts where a message in RESP
starts, and goes on with anything, is refused, or is the message, undamaged, or
is a star and a line's end of which there are no arguments. The argument for
`RespMessage` follows `respTokenizer` from frame to frame (`FrameRead`): as long
as no byte is lost the cursor stands where the frame begins; each byte that can
be lost breaks a test of `Bulk`, the length's digit last of all, by the CR that
is then looked for where the argument begins; and when nothing is lost, only the
message's own end is the end of the read, since what follows a message is no LF.
The layouts, the numbers, the frames and the words of a line are recursive
functions over sequences, each with its lemma by `Solution` and `SameSolution`
(`JoinedIs`, `NumberIs`, `BulksAre`, `WordsAre`).

For the refinement each action changes one client (`OneClient`, `OneKnown`). A
read of a whole message is `Serve` (`WaitingServes`, `WholeAnswered`), any other
one `Misread`, which drops the requests it has a byte of (`WaitingDrops`); for a
client that has left, reads, the error and the next accept are stutters.

### Persistence

A table is looked at as the function `At(table)` from keys to nodes; each operator
on tables (`Added`, `SetTo`, `SetUntil`, `Purged`, `WithScore`) has a lemma that
says what becomes of it at the key and that it is the same at others. The orders
of buckets are gone with that.

`IInv` is the types and, while nothing is broken, `Sound`: no key has two nodes; the
rows of the file are `Apart`, that is, no two are of one key but for different
members of one set; outside an update no sorted set is empty, and within one the
map differs from `before` in the member that is out, or in nothing when it was
missed; and during a load the map is what the rows read so far say of each key,
over what was there when it began (`LoadedKey`). From this `LoadsSpoilOnlyThen`:
a row can meet a key only when that key was there before a LOADDB.

What a save writes is `RowsIs`: for any order of tied members (`LinkedIs`, by the
bijection that `Linked` chooses) the parts are laid out one behind the other
(`FlattenIs`), so that the rows are apart and say of each key what the map says.
`ReadRows` reads them back as what `Durable` says a save of the map is
(`Written`), the map with its scores by way of
their digits; a crash leaves a prefix, which reads as a part of it
(`PrefixRead`). Each action is then a step of `Durable` or none.

Digits: `AccumulatedReads` says when the `int` loop reads a numeral as its value,
`LastDigitsRead` and `WholeDigitsAre` what `LastDigits` and `WholeDigits` print,
`NumberIsRead` that the two halves around the dot come back as the number, with the
zeros in front of the fraction, and `ShortIsReread` that a short score, negative
ones and zero included, is read as itself. `ShortScoresAreRead` combines it with
`IInv`: the row of a short score neither meets anything nor is refused.

The strengthened invariants were checked by TLC on the instances of section 4
before they were proved.

### Only model-checked

`Answered` in three modules: liveness under fairness is out of the prover's
reach. Everything else that the passing runs check is proved.

## 6. Plan

1. Done: all components of section 1 modelled and checked; every safety property
   and every refinement of the passing runs proved.
2. Open: a composition of `Dict`, `SkipList` and `Ownership`, the nodes of lists
   and towers and their strings in one heap, so that what SET of an expired key
   and the missed update of a tied member lead to is followed through the garbage
   list and the file.

## 7. Not modelled

libevent and the sockets, the bytes of replies, logging, `printList` and
`printSkipList`, the filling of the command table and its freeing at exit, the
Ruby tests. Failed allocation outside `Bitmap` (the code checks it in some
places only). SIGINT within `malloc`, stdio or `realloc`, or amid the pointer
updates of one list, where the handler's own calls may hang or find structures
half changed; amid a step only FLUSHALL and `freeGarbage` have it, in
`Persistence` the first and an update as well. What follows the update of a
tied member in the file and in memory: `Persistence` ends its promise there and
`Ownership` lets the memory break, while the towers themselves are in `SkipList`. The empty key and the empty command name: `stringHash` takes a
remainder by the length. A key or member with a NUL byte, where `strcmp` and
`memcmp` differ. Numbers in a RESP message that overflow an `unsigned long`.
`INF`. What `getRespInt` reads behind the bytes of a read: the message is refused
whatever it finds. Argument lists and tokens the tokenizers leave behind when
they return NULL, and strings and exoVals made for one reply: they leak always,
and nothing points to them.
