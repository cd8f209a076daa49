------------------------------- MODULE Bitmap -------------------------------
(***************************************************************************)
(* The bitmap of one key (ds/bitmap.c) and the commands SETBIT, GETBIT,    *)
(* SET, DEL, SAVE and LOADDB as far as they concern it (ds/commands.c),    *)
(* from the digits of an offset to the reply.  A word is the set of the    *)
(* bits that are on.                                                       *)
(*                                                                         *)
(* malloc and realloc may fail, and do for more words than MaxWords.  A    *)
(* failed realloc leaves a bitmap that has a length and no words, a failed *)
(* malloc one that is freed.  Touching such words is undefined behaviour   *)
(* and ends the run.                                                       *)
(*                                                                         *)
(* insideInclusive, GrownUncleared and GrownKeepsLength are bugs this code *)
(* could have had (see PROJECT.json, "mutants"); no action uses them.      *)
(***************************************************************************)
EXTENDS Numbers

CONSTANTS
  Offsets,       (* what clients send for a position: sequences of characters *)
  BitArgs,       (* what clients send for a bit: 0 and 1 are legal            *)
  BITS_PER_WORD,
  OFFSET_MAX,
  MaxWords,      (* the words malloc may have at most                       *)
  NULL, Plain    (* no object; an object of another type                    *)

word_offset(pos) == pos \div BITS_PER_WORD
bit_offset(pos) == pos % BITS_PER_WORD

Words(len) == [0..(len - 1) -> SUBSET (0..(BITS_PER_WORD - 1))]
Bitmaps ==
  UNION {[len : {n}, mem : Words(n) \cup {NULL}] : n \in 0..MaxWords}

ASSUME BitmapAssumption ==
  /\ BITS_PER_WORD \in Nat \ {0} /\ OFFSET_MAX \in Nat /\ MaxWords \in Nat
  /\ word_offset(OFFSET_MAX) < MaxWords /\ OFFSET_MAX < LL_MAX
  /\ Offsets \subseteq Seq(0..Other)
  /\ NULL # Plain /\ {NULL, Plain} \cap Bitmaps = {}
  /\ \A n \in 0..MaxWords : NULL \notin Words(n)
  /\ \A ps \in SUBSET (0..(MaxWords * BITS_PER_WORD - 1)) : ps \notin {NULL, Plain}

VARIABLES
  node,     (* the object of the key: NULL, Plain or a bitmapNode; its words *)
            (* are NULL after a failed realloc                              *)
  dangling, (* the bitmapNode has been freed                                *)
  row,      (* the object of the key in the rdb file                        *)
  reply,    (* the last reply                                               *)
  down,     (* undefined behaviour was met                                  *)
  failed,   (* history: an allocation failed                                *)
  wrapped   (* history: an offset beyond LL_MAX + 1 was taken               *)

vars == <<node, dangling, row, reply, down, failed, wrapped>>

-----------------------------------------------------------------------------
(* Comparisons and word_offset take a negative position for a huge one.    *)
Unsigned(pos) == pos % 2^LongBits

insideInclusive(n, pos) == Unsigned(pos) <= n.len * BITS_PER_WORD

inside(n, pos) == Unsigned(pos) < n.len * BITS_PER_WORD

(* The memory behind the bitmap is not there, or not there any more.       *)
Unreadable(n, pos) ==
  dangling \/ n.mem = NULL \/ word_offset(Unsigned(pos)) \notin DOMAIN n.mem

getbitUtility(mem, pos) == bit_offset(pos) \in mem[word_offset(pos)]

WithBit(mem, pos, bit) ==
  [mem EXCEPT ![word_offset(pos)] =
     IF bit = 1 THEN @ \cup {bit_offset(pos)} ELSE @ \ {bit_offset(pos)}]

(* realloc keeps the words there are (none after it has failed once); the  *)
(* others hold what was in memory, here the same junk in each.             *)
Reallocated(n, len, junk) ==
  [w \in 0..(len - 1) |-> IF w < n.len /\ n.mem # NULL THEN n.mem[w] ELSE junk]

GrownUncleared(n, len, junk) ==
  LET mem == Reallocated(n, len, junk)
  IN [len |-> len, mem |-> [w \in DOMAIN mem |-> IF w = n.len THEN {} ELSE mem[w]]]

GrownKeepsLength(n, len, junk) ==
  LET mem == Reallocated(n, len, junk)
  IN [len |-> n.len, mem |-> [w \in DOMAIN mem |-> IF w < n.len THEN mem[w] ELSE {}]]

(* memset clears the words behind the old length.                          *)
Grown(n, len, junk) ==
  LET mem == Reallocated(n, len, junk)
  IN [len |-> len, mem |-> [w \in DOMAIN mem |-> IF w < n.len THEN mem[w] ELSE {}]]

NoWords == [len |-> 0, mem |-> [w \in {} |-> {}]]

-----------------------------------------------------------------------------
Answer(r) == reply' = r /\ UNCHANGED <<down, row>>

Undefined == down' = TRUE /\ UNCHANGED <<node, dangling, row, reply, failed, wrapped>>

legal(pos) == pos # -1 /\ pos <= OFFSET_MAX

(* The position an offset is read as, and the number it is.                *)
Position == [n \in Offsets |-> stringToLongLong(n)]
Number == [n \in Offsets |-> IF IsNumeral(n) THEN Value(n) ELSE -1]

(* An offset is taken that is past what stringToLongLong can tell.         *)
Takes(n) == wrapped' = (wrapped \/ (Number[n] > LL_MAX + 1 /\ legal(Position[n])))

ToBit(b) == IF b THEN ":1" ELSE ":0"

(* Arguments that setbitCommand and getbitCommand refuse.                  *)
refused ==
  /\ \E n \in Offsets :
       LET pos == Position[n]
       IN /\ \/ ~legal(pos) /\ Answer("offset")
             \/ legal(pos) /\ BitArgs \ {0, 1} # {} /\ Answer("bit")
             \/ legal(pos) /\ node = Plain /\ Answer("type")
          /\ Takes(n)
  /\ UNCHANGED <<node, dangling, failed>>

getbit ==
  \E n \in Offsets :
    LET pos == Position[n]
    IN /\ legal(pos) /\ node # Plain
       /\ IF node = NULL \/ (node # NULL /\ ~dangling /\ ~inside(node, pos))
          THEN Answer(":0") /\ Takes(n) /\ UNCHANGED <<node, dangling, failed>>
          ELSE IF Unreadable(node, pos)
          THEN Undefined
          ELSE /\ Answer(ToBit(getbitUtility(node.mem, pos))) /\ Takes(n)
               /\ UNCHANGED <<node, dangling, failed>>

(* setBit of a position that the words there are hold.                     *)
setbitInside ==
  \E n \in Offsets, b \in BitArgs \cap {0, 1} :
    LET pos == Position[n]
    IN /\ legal(pos) /\ node \notin {NULL, Plain} /\ (dangling \/ inside(node, pos))
       /\ IF Unreadable(node, pos)
          THEN Undefined
          ELSE /\ node' = [node EXCEPT !.mem = WithBit(@, pos, b)]
               /\ Answer(ToBit(getbitUtility(node.mem, pos))) /\ Takes(n)
               /\ UNCHANGED <<dangling, failed>>

(* setBit beyond them, and initBitmapNode where there are none.            *)
setbitGrows ==
  \E n \in Offsets, b \in BitArgs \cap {0, 1} :
    LET pos == Position[n]
        len == word_offset(Unsigned(pos)) + 1
        old == IF node = NULL THEN NoWords ELSE node
    IN /\ legal(pos) /\ node # Plain /\ ~dangling /\ ~inside(old, pos)
       /\ len <= MaxWords
       /\ \E junk \in SUBSET (0..(BITS_PER_WORD - 1)) :
            LET grown == Grown(old, len, junk)
            IN node' = [grown EXCEPT !.mem = WithBit(@, pos, b)]
       /\ Answer(":0") /\ Takes(n)
       /\ UNCHANGED <<dangling, failed>>

(* The same when memory is short: setBit forgets the words and returns a   *)
(* bit it never set, initBitmapNode returns the node it has just freed.    *)
setbitFails ==
  \E n \in Offsets, b \in BitArgs \cap {0, 1} :
    LET pos == Position[n]
    IN /\ legal(pos) /\ node # Plain /\ ~dangling
       /\ node # NULL => ~inside(node, pos)
       /\ IF node = NULL
          THEN node' = NoWords /\ dangling' = TRUE /\ Answer(":0")
          ELSE /\ node' = [node EXCEPT !.mem = NULL] /\ UNCHANGED dangling
               /\ \E b0 \in BOOLEAN : Answer(ToBit(b0))
       /\ Takes(n) /\ failed' = TRUE

-----------------------------------------------------------------------------
IsBitmap(o) == o \notin {NULL, Plain}

(* SET and DEL free the bitmap there was, with its words.                  *)
Replaced(o) ==
  IF dangling THEN Undefined
  ELSE node' = o /\ Answer("ok") /\ UNCHANGED <<dangling, failed, wrapped>>

setPlain == Replaced(Plain)

del == Replaced(NULL)

(* writeHBitMapToFile                                                      *)
save ==
  IF IsBitmap(node) /\ (dangling \/ node.mem = NULL)
  THEN Undefined
  ELSE /\ row' = node /\ reply' = "ok"
       /\ UNCHANGED <<node, dangling, down, failed, wrapped>>

(* loadBitmap, if the file has a row of a bitmap.                          *)
load ==
  /\ row # Plain
  /\ \/ Replaced(IF row = NULL THEN node ELSE row)
     \/ /\ row # NULL /\ failed' = TRUE /\ Answer("null")
        /\ UNCHANGED <<node, dangling, wrapped>>

(* The process is killed, or died, and starts with what the file holds.    *)
restart ==
  /\ dangling' = FALSE /\ down' = FALSE /\ reply' = "none"
  /\ \/ node' = row /\ UNCHANGED failed
     \/ IsBitmap(row) /\ node' = NULL /\ failed' = TRUE
  /\ UNCHANGED <<row, wrapped>>

Init ==
  /\ node = NULL /\ dangling = FALSE /\ row = NULL /\ reply = "none"
  /\ down = FALSE /\ failed = FALSE /\ wrapped = FALSE

Command ==
  \/ refused \/ getbit \/ setbitInside \/ setbitGrows \/ setbitFails
  \/ setPlain \/ del \/ save \/ load

Next == (~down /\ Command) \/ restart

Spec == Init /\ [][Next]_vars

-----------------------------------------------------------------------------
TypeOK ==
  /\ node \in {NULL, Plain} \cup Bitmaps
  /\ row \in {NULL, Plain} \cup UNION {[len : {n}, mem : Words(n)] : n \in 1..MaxWords}
  /\ reply \in {"none", "ok", "null", "offset", "bit", "type", ":0", ":1"}
  /\ {dangling, down, failed, wrapped} \subseteq BOOLEAN

(* However a bitmap grows and is loaded, no word is read or written that   *)
(* is not its own, until an allocation has failed: neither by an offset    *)
(* that has overflowed nor at the end of the words (bitmap.c:40,54).       *)
UndefinedOnlyAfterFailure == down => failed

(* The positions a bitmap stands for.                                      *)
Positions(o) ==
  IF ~IsBitmap(o) THEN o
  ELSE IF o.mem = NULL THEN {}
  ELSE {p \in 0..(o.len * BITS_PER_WORD - 1) : getbitUtility(o.mem, p)}

Set ==
  INSTANCE BitSet
    WITH obj <- Positions(node), disk <- Positions(row), broken <- failed \/ wrapped

(* Until then, and until a number overflows, the words implement a set of  *)
(* positions: SETBIT answers the bit there was, GETBIT the one last set or *)
(* 0, an offset out of range is refused, and a save and a load keep it.    *)
ImplementsBitSet == Set!Spec
=============================================================================
