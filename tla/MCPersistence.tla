--------------------------- MODULE MCPersistence ---------------------------
(***************************************************************************)
(* Persistence.tla for TLC: int is a byte, "%Lf" prints two decimals and a *)
(* score counts thousandths.                                               *)
(***************************************************************************)
EXTENDS Persistence

CONSTANTS k1, k2, m1, m2, v1, c1

(* Keys have one bucket, members any order: their names do not matter.     *)
Names == {f @@ g : f \in Permutations({k1, k2}), g \in Permutations({m1, m2})}

HashOne == [k \in Keys |-> 1]

(* 1.05 and 1.5; 1.054, which is printed as 1.05; 255, which is read as -1 *)
(* and refused; 200, read as -56; a number whose end the buffer cuts off,  *)
(* read as 64.  INCR adds scores up to all of them.                        *)
Awkward == {1050, 1054, 1500, 255000, 200000, -56000, 1234496890, 64000}

BothMembers(n) == n.obj.type = "zset" /\ \A m \in Members : n.obj.score[m] # NULL

(* What follows a broken promise is not looked at.  One sorted set at a     *)
(* time has both members, two sets are there only at clock 0, and a string  *)
(* is written at 0, to expire, or at 2.                                     *)
Small ==
  /\ NotBroken
  /\ \A i, j \in DOMAIN table : BothMembers(table[i]) /\ BothMembers(table[j]) => i = j
  /\ \A i, j \in DOMAIN table :
       table[i].obj.type = "zset" /\ table[j].obj.type = "zset" => i = j \/ clock = 0
  /\ \A i \in DOMAIN table : table[i].obj.type = "string" => table[i].exp # 2
=============================================================================
