-------------------------------- MODULE Api --------------------------------
(***************************************************************************)
(* The vocabulary of the keyspace commands: what a parsed request carries  *)
(* once the command table (ds/commands.c) has dispatched it, what a stored *)
(* object can be, and what a reply can be.  A key, a string or a stored    *)
(* object is a model value: the commands of this layer only compare keys   *)
(* and look at the ds_type of objects.                                     *)
(***************************************************************************)
EXTENDS Integers, Sequences

CONSTANTS
  Keys,          (* the keys clients name                                   *)
  Strings,       (* the values of ds_type BULKSTRING                        *)
  Bitmap,        (* the object of ds_type BITMAP                            *)
  Zset,          (* the object of ds_type SORTED_SET                        *)
  Ttls,          (* what EX and PX add up to; 0 stands for neither option   *)
  LoadExpiries,  (* the expiries found in the rdb file; {} when no row of a *)
                 (* string is loaded while the table is in use              *)
  MaxDel,        (* the longest key list of a DEL                           *)
  NULL           (* no request, no address, no stored object                *)

Values == Strings \cup {Bitmap, Zset}

ASSUME ApiAssumption ==
  /\ Bitmap \notin Strings /\ Zset \notin Strings /\ Bitmap # Zset
  /\ Ttls \subseteq Nat /\ LoadExpiries \subseteq Nat
  /\ MaxDel \in Nat \ {0}
  /\ NULL \notin Values /\ NULL \notin [val : Values, exp : Nat]

KeyLists == UNION {[1..n -> Keys] : n \in 1..MaxDel}

(***************************************************************************)
(* One record per parsed command.  "adds" says whether addToSortedSet left *)
(* the sorted set with a member.  LOADSTR and LOADBITMAP are one row of    *)
(* the rdb file each; a row of a sorted set is a ZADD.                     *)
(***************************************************************************)
GetRequests == [cmd : {"GET", "SETBIT", "LOADBITMAP"}, key : Keys]
SetRequests == [cmd : {"SET"}, key : Keys, val : Strings, ttl : Ttls,
                nx : BOOLEAN, xx : BOOLEAN]
ZaddRequests == [cmd : {"ZADD"}, key : Keys, adds : BOOLEAN]
DelRequests == [cmd : {"DEL"}, keys : KeyLists]
FlushRequests == [cmd : {"FLUSHALL"}]
LoadRequests == [cmd : {"LOADSTR"}, key : Keys, val : Strings, exp : LoadExpiries]

Requests == GetRequests \cup SetRequests \cup ZaddRequests
            \cup DelRequests \cup FlushRequests \cup LoadRequests

(* The object SETBIT, ZADD and a bitmap row of the rdb file create.        *)
ObjectOf(r) == IF r.cmd = "ZADD" THEN Zset ELSE Bitmap

NoReply == [type |-> "none"]
OK == [type |-> "ok"]
Null == [type |-> "null"]
WrongType == [type |-> "wrongtype"]
Integer(n) == [type |-> "integer", n |-> n]
Bulk(v) == [type |-> "bulk", val |-> v]

Replies == {NoReply, OK, Null, WrongType}
           \cup [type : {"integer"}, n : Nat] \cup [type : {"bulk"}, val : Strings]

(* getCommand answers with the stored object only when it is a string.     *)
GetReply(v) == IF v \in Strings THEN Bulk(v) ELSE WrongType

(* SETBIT and ZADD work on a stored object of their own type only.         *)
OnObject(r, v) == IF v = ObjectOf(r) THEN OK ELSE WrongType
=============================================================================
