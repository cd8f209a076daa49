------------------------------ MODULE Keyspace ------------------------------
(***************************************************************************)
(* What the keyspace promises its clients: a map from keys to objects,     *)
(* strings with an expiry, and commands that take effect on it at one      *)
(* moment between the request and the reply.  Dict.tla implements it.      *)
(*                                                                         *)
(* The promise ends, and broken becomes TRUE, at the two requests the      *)
(* implementation does not serve: a SET that meets its key expired and not *)
(* yet purged, and a row of the rdb file loaded over a key that is still   *)
(* there.                                                                  *)
(***************************************************************************)
EXTENDS Api

CONSTANTS
  DefaultExpiry, (* DEFAULT_EXPIRY_MS: the expiry of a key set without one  *)
  MaxClock       (* bound on the clock                                      *)

VARIABLES
  clock,   (* the milliseconds of timeStamp()                               *)
  db,      (* the object stored at each key, NULL when there is none        *)
  op,      (* the request being served, NULL when there is none             *)
  since,   (* the clock when its first key was looked up                    *)
  rest,    (* the keys a DEL has still to delete                            *)
  count,   (* the keys it has deleted                                       *)
  reply,   (* the last reply                                                *)
  broken   (* the keyspace no longer promises anything                      *)

vars == <<clock, db, op, since, rest, count, reply, broken>>

Expired(k) == db[k] # NULL /\ db[k].val \in Strings /\ db[k].exp < clock

Live(k) == db[k] # NULL /\ ~Expired(k)

Init ==
  /\ clock = 0
  /\ db = [k \in Keys |-> NULL]
  /\ op = NULL /\ since = 0
  /\ rest = <<>> /\ count = 0
  /\ reply = NoReply
  /\ broken = FALSE

Tick ==
  /\ clock < MaxClock
  /\ clock' = clock + 1
  /\ UNCHANGED <<db, op, since, rest, count, reply, broken>>

Invoke(r) ==
  /\ op = NULL
  /\ op' = r /\ since' = clock
  /\ rest' = IF r.cmd = "DEL" THEN r.keys ELSE <<>>
  /\ reply' = NoReply
  /\ UNCHANGED <<clock, db, count, broken>>

Return(r) ==
  /\ op' = NULL /\ since' = 0
  /\ rest' = <<>> /\ count' = 0
  /\ reply' = r
  /\ UNCHANGED <<clock, broken>>

(* A command that reads its key drops it first when it has expired.        *)
Purge ==
  /\ op # NULL /\ op.cmd \in {"GET", "SETBIT", "ZADD"}
  /\ Expired(op.key)
  /\ db' = [db EXCEPT ![op.key] = NULL]
  /\ UNCHANGED <<clock, op, since, rest, count, reply, broken>>

Get ==
  /\ op # NULL /\ op.cmd = "GET"
  /\ \/ /\ Live(op.key)
        /\ Return(GetReply(db[op.key].val))
        /\ UNCHANGED db
     \/ /\ ~Live(op.key)
        /\ Return(Null)
        /\ db' = [db EXCEPT ![op.key] = NULL]

(* SET stores the value with an expiry counted from a moment since the     *)
(* request, unless NX or XX forbids it.                                    *)
Set ==
  /\ op # NULL /\ op.cmd = "SET"
  /\ IF (op.nx /\ Live(op.key)) \/ (op.xx /\ ~Live(op.key)) \/ (op.nx /\ op.xx)
     THEN Return(Null) /\ UNCHANGED db
     ELSE /\ \E t \in since..clock :
               db' = [db EXCEPT ![op.key] =
                        [val |-> op.val,
                         exp |-> IF op.ttl = 0 THEN DefaultExpiry ELSE op.ttl + t]]
          /\ Return(OK)

(* DEL counts the keys it deletes that had not expired.                    *)
Delete ==
  /\ op # NULL /\ op.cmd = "DEL" /\ rest # <<>>
  /\ LET k == Head(rest)
         n == count + IF Live(k) THEN 1 ELSE 0
     IN /\ db' = [db EXCEPT ![k] = NULL]
        /\ IF Tail(rest) = <<>>
           THEN Return(Integer(n))
           ELSE /\ rest' = Tail(rest) /\ count' = n
                /\ UNCHANGED <<clock, op, since, reply, broken>>

(* SETBIT, ZADD and a bitmap row create their object where there is none;  *)
(* a bitmap row also takes the place of whatever is there.  A sorted set   *)
(* that ends its first ZADD without a member is dropped again before the   *)
(* reply: count tells it from one that was there before.                   *)
Create ==
  /\ op # NULL /\ op.cmd \in {"SETBIT", "ZADD", "LOADBITMAP"}
  /\ count = 0
  /\ \/ /\ Live(op.key) /\ op.cmd # "LOADBITMAP"
        /\ Return(OnObject(op, db[op.key].val))
        /\ UNCHANGED db
     \/ /\ db[op.key] = NULL \/ op.cmd = "LOADBITMAP"
        /\ db' = [db EXCEPT ![op.key] =
                     [val |-> ObjectOf(op),
                      exp |-> IF @ = NULL THEN DefaultExpiry ELSE @.exp]]
        /\ IF op.cmd = "ZADD" /\ ~op.adds
           THEN count' = 1 /\ UNCHANGED <<clock, op, since, rest, reply, broken>>
           ELSE Return(OK)

DropEmptyZset ==
  /\ op # NULL /\ op.cmd = "ZADD" /\ count = 1
  /\ db' = [db EXCEPT ![op.key] = NULL]
  /\ Return(OK)

(* A string row of the rdb file is stored unless it has expired on disk.   *)
Load ==
  /\ op # NULL /\ op.cmd = "LOADSTR"
  /\ IF op.exp < clock
     THEN UNCHANGED db
     ELSE /\ db[op.key] = NULL
          /\ db' = [db EXCEPT ![op.key] = [val |-> op.val, exp |-> op.exp]]
  /\ Return(OK)

(* FLUSHALL empties the map key by key, and answers when it is empty.      *)
Forget ==
  /\ op # NULL /\ op.cmd = "FLUSHALL"
  /\ \E k \in Keys : db' = [db EXCEPT ![k] = NULL]
  /\ UNCHANGED <<clock, op, since, rest, count, reply, broken>>

Flushed ==
  /\ op # NULL /\ op.cmd = "FLUSHALL"
  /\ \A k \in Keys : db[k] = NULL
  /\ Return(OK) /\ UNCHANGED db

Break ==
  /\ \/ broken
     \/ op # NULL /\ op.cmd = "SET" /\ Expired(op.key)
     \/ op # NULL /\ op.cmd = "LOADSTR" /\ db[op.key] # NULL
  /\ broken'

Next ==
  \/ Tick
  \/ \E r \in Requests : Invoke(r)
  \/ Purge \/ Get \/ Set \/ Delete \/ Create \/ DropEmptyZset \/ Load
  \/ Forget \/ Flushed
  \/ Break

Spec == Init /\ [][Next]_vars
=============================================================================
