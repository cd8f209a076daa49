---------------------------- MODULE MCOwnership ----------------------------
(***************************************************************************)
(* Ownership for TLC.                                                      *)
(***************************************************************************)
EXTENDS Ownership

CONSTANTS k1, k2, m1, m2

(* One member, two, and one twice.                                         *)
Lists == {<<m1>>, <<m1, m2>>, <<m1, m1>>}
Dels == {<<k1>>, <<k1, k2>>, <<k2, k1>>}
Orders == {<<k1, k2>>, <<k2, k1>>}
=============================================================================
