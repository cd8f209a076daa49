------------------------------- MODULE MCDict -------------------------------
(***************************************************************************)
(* Small instances of Dict for TLC.                                        *)
(***************************************************************************)
EXTENDS Dict, TLC

CONSTANTS k1, k2, k3

(* k1 and k2 share a bucket; k3 is alone.                                  *)
Hash2 == [k \in Keys |-> IF k = k3 THEN 2 ELSE 1]
Hash1 == [k \in Keys |-> 1]

(* After a SET on an expired key only rows of the rdb file are followed:    *)
(* the rest is left to MCDict_expiry.                                       *)
OnlyLoadsAfterStale == stale => (op = NULL \/ op.cmd = "LOADSTR")

AddrSymmetry == Permutations(Addrs)
=============================================================================
