------------------------------ MODULE ZsetApi ------------------------------
(***************************************************************************)
(* The vocabulary of the sorted set commands once zaddCommand and its kin  *)
(* (ds/commands.c) have parsed their arguments.  A member is the number    *)
(* strcmp orders it by; a score is an integer.                             *)
(***************************************************************************)
EXTENDS Integers, Sequences, FiniteSets

CONSTANTS
  Members,  (* the members of the set, in the order of strcmp               *)
  Scores,   (* the scores and increments of ZADD                            *)
  MaxPairs, (* the longest list of score and member pairs                   *)
  MaxScore, (* bound on the scores INCR adds up                             *)
  Bounds,   (* min and max of ZCOUNT                                        *)
  Indices,  (* start and stop of ZRANGE                                     *)
  NULL      (* no tower, no score, no request                               *)

ASSUME ZsetApiAssumption ==
  /\ Members \subseteq Nat
  /\ Scores \subseteq Int /\ Bounds \subseteq Int /\ Indices \subseteq Int
  /\ MaxPairs \in Nat \ {0} /\ MaxScore \in Nat
  /\ NULL \notin Int

Pairs == [score : Scores, member : Members]
PairLists == UNION {[1..n -> Pairs] : n \in 1..MaxPairs}

(***************************************************************************)
(* INCR is ZADD with that switch and the one pair it takes.  MALFORMED is  *)
(* a ZADD with an odd number of arguments, a score that is no number, or   *)
(* INCR with several pairs.  DROP stands for DEL, FLUSHALL and whatever    *)
(* else frees the set; the next ZADD of its key makes a new one.           *)
(***************************************************************************)
ZaddRequests == [cmd : {"ZADD"}, pairs : PairLists, nx : BOOLEAN, xx : BOOLEAN, ch : BOOLEAN]
IncrRequests == [cmd : {"INCR"}, pairs : [1..1 -> Pairs], nx : BOOLEAN, xx : BOOLEAN]
ZcountRequests == [cmd : {"ZCOUNT"}, min : Bounds, max : Bounds]
ZrangeRequests == [cmd : {"ZRANGE"}, left : Indices, right : Indices]
PlainRequests == [cmd : {"ZCARD", "MALFORMED", "DROP"}]

Requests == ZaddRequests \cup IncrRequests \cup ZcountRequests
            \cup ZrangeRequests \cup PlainRequests

(* addToSortedSet refuses NX together with XX before it parses a score.    *)
Refused(r) == r.cmd = "MALFORMED" \/ (r.cmd \in {"ZADD", "INCR"} /\ r.nx /\ r.xx)

(* Whether a pair is stored, given whether its member is there: XX means   *)
(* nothing to INCR.                                                        *)
Stores(r, there) == (there => ~r.nx) /\ (~there => r.cmd = "INCR" \/ ~r.xx)

(* ZRANGE counts a negative index from the end of the n members, and stops *)
(* at the last one.                                                        *)
Larger(a, b) == IF a < b THEN b ELSE a
First(r, n) == IF r.left < 0 THEN Larger(n + r.left, 0) ELSE r.left
Last(r, n) ==
  LET right == IF r.right < 0 THEN Larger(n + r.right, -1) ELSE r.right
  IN IF right < n - 1 THEN right ELSE n - 1

NoReply == [type |-> "none"]
Null == [type |-> "null"]
Error == [type |-> "error"]
Done == [type |-> "done"]
Integer(n) == [type |-> "integer", n |-> n]
Bulk(s) == [type |-> "bulk", score |-> s]
Array(s) == [type |-> "array", members |-> s]

Replies == {NoReply, Null, Error, Done}
           \cup [type : {"integer"}, n : Int] \cup [type : {"bulk"}, score : Int]
           \cup [type : {"array"}, members : Seq(Members)]
=============================================================================
