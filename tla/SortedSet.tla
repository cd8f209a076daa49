----------------------------- MODULE SortedSet -----------------------------
(***************************************************************************)
(* What a sorted set promises: a map from members to scores, each pair of  *)
(* a ZADD taking effect on it at one moment, and counts and ranges that    *)
(* are those of the members in the order of (score, member).               *)
(* SkipList.tla implements it.                                             *)
(*                                                                         *)
(* The promise ends, and broken becomes TRUE, when two members come to     *)
(* have one score: the implementation does not keep such members in order. *)
(* A set that is freed and made again promises anew.                       *)
(***************************************************************************)
EXTENDS ZsetApi

VARIABLES
  zset,    (* the score of each member, NULL when it is not in the set      *)
  op,      (* the request being served, NULL when there is none             *)
  todo,    (* the pairs of a ZADD that have not taken effect yet            *)
  added,   (* how many pairs added a member                                 *)
  changed, (* how many pairs gave a member a score again                    *)
  reply,   (* the last reply                                                *)
  broken   (* the set promises nothing                                      *)

vars == <<zset, op, todo, added, changed, reply, broken>>

In(m) == zset[m] # NULL
Card == Cardinality({m \in Members : In(m)})

Precedes(m, k) == zset[m] < zset[k] \/ (zset[m] = zset[k] /\ m < k)
Rank(m) == Cardinality({k \in Members : In(k) /\ Precedes(k, m)})
Sorted == [i \in 1..Card |-> CHOOSE m \in Members : In(m) /\ Rank(m) = i - 1]

Init ==
  /\ zset = [m \in Members |-> NULL]
  /\ op = NULL /\ todo = <<>> /\ added = 0 /\ changed = 0
  /\ reply = NoReply
  /\ broken = FALSE

Invoke(r) ==
  /\ op = NULL
  /\ op' = r /\ reply' = NoReply
  /\ todo' = IF r.cmd \in {"ZADD", "INCR"} /\ ~Refused(r) THEN r.pairs ELSE <<>>
  /\ UNCHANGED <<zset, added, changed, broken>>

Return(r) ==
  /\ op' = NULL /\ todo' = <<>> /\ added' = 0 /\ changed' = 0
  /\ reply' = r

Refuse ==
  /\ op # NULL /\ Refused(op)
  /\ Return(Error)
  /\ UNCHANGED <<zset, broken>>

(* One pair takes effect; INCR adds to the score that is there.            *)
Store ==
  /\ todo # <<>>
  /\ LET m == Head(todo).member
         s == Head(todo).score + IF op.cmd = "INCR" /\ In(m) THEN zset[m] ELSE 0
     IN /\ Stores(op, In(m))
        /\ zset' = [zset EXCEPT ![m] = s]
        /\ added' = added + IF In(m) THEN 0 ELSE 1
        /\ changed' = changed + IF In(m) THEN 1 ELSE 0
        /\ broken' = (broken \/ \E k \in Members \ {m} : zset[k] = s)
  /\ todo' = Tail(todo)
  /\ UNCHANGED <<op, reply>>

Skip ==
  /\ todo # <<>>
  /\ ~Stores(op, In(Head(todo).member))
  /\ todo' = Tail(todo)
  /\ UNCHANGED <<zset, op, added, changed, reply, broken>>

(* CH asks for the members that got a score again, not for those added.    *)
Stored ==
  /\ op # NULL /\ op.cmd = "ZADD" /\ ~Refused(op) /\ todo = <<>>
  /\ Return(Integer(IF op.ch THEN changed ELSE added))
  /\ UNCHANGED <<zset, broken>>

Incremented ==
  /\ op # NULL /\ op.cmd = "INCR" /\ ~Refused(op) /\ todo = <<>>
  /\ Return(IF added + changed = 0 THEN Null ELSE Bulk(zset[op.pairs[1].member]))
  /\ UNCHANGED <<zset, broken>>

Zcard ==
  /\ op # NULL /\ op.cmd = "ZCARD"
  /\ Return(Integer(Card))
  /\ UNCHANGED <<zset, broken>>

Zcount ==
  /\ op # NULL /\ op.cmd = "ZCOUNT"
  /\ Return(Integer(Cardinality({m \in Members : In(m) /\ zset[m] \in op.min..op.max})))
  /\ UNCHANGED <<zset, broken>>

Zrange ==
  /\ op # NULL /\ op.cmd = "ZRANGE"
  /\ Return(Array(SubSeq(Sorted, First(op, Card) + 1, Last(op, Card) + 1)))
  /\ UNCHANGED <<zset, broken>>

Drop ==
  /\ op # NULL /\ op.cmd = "DROP"
  /\ Return(Done)
  /\ zset' = [m \in Members |-> NULL] /\ broken' = FALSE

Break == broken /\ broken'

Next ==
  \/ \E r \in Requests : Invoke(r)
  \/ Refuse \/ Store \/ Skip \/ Stored \/ Incremented
  \/ Zcard \/ Zcount \/ Zrange \/ Drop
  \/ Break

Spec == Init /\ [][Next]_vars
=============================================================================
