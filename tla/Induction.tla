----------------------------- MODULE Induction ------------------------------
(***************************************************************************)
(* Induction and recursion over the numbers up to N, from the order of the *)
(* natural numbers alone: facts and steps are sets and functions here, so  *)
(* that they can be cited for any.  With them: sequences laid out one      *)
(* behind the other.                                                       *)
(***************************************************************************)
EXTENDS Integers, WellFoundedInduction, FiniteSetTheorems, SequenceTheorems, TLAPS

-----------------------------------------------------------------------------
(* Induction over the numbers up to N, by the least number for which a     *)
(* fact fails.                                                             *)

LEMMA LeastNumber ==
  ASSUME NEW S \in SUBSET Nat, S # {}
  PROVE  \E m \in S : \A k \in S : m <= k
<1>1. PICK R : R = OpToRel(<, Nat)
  OBVIOUS
<1>2. IsWellFoundedOn(R, Nat)
  BY <1>1, NatLessThanWellFounded
<1>3. PICK x \in S : \A y \in S : <<y, x>> \notin R
  BY <1>2, WFMin
<1>4. \A i, j \in Nat : i < j => <<i, j>> \in R
  BY <1>1 DEF OpToRel
<1>5. \A y \in S : ~(y < x)
  BY <1>3, <1>4
<1> QED
  BY <1>5

LEMMA UpTo ==
  ASSUME NEW N \in Nat, NEW T, 0 \in T, \A i \in 1..N : i - 1 \in T => i \in T
  PROVE  \A i \in 0..N : i \in T
<1> DEFINE S == {i \in 0..N : i \notin T}
<1> SUFFICES ASSUME S # {} PROVE FALSE
  OBVIOUS
<1>1. PICK m \in S : \A k \in S : m <= k
  <2>1. S \in SUBSET Nat
    OBVIOUS
  <2> HIDE DEF S
  <2> QED
    BY <2>1, LeastNumber
<1>2. m # 0 /\ m \in 0..N
  OBVIOUS
<1>3. m - 1 \in 0..N /\ m - 1 \notin S
  BY <1>1, <1>2
<1> QED
  BY <1>2, <1>3

Solvable(N, S, c, Step) ==
  \E f \in [0..N -> S] : f[0] = c /\ \A i \in 1..N : f[i] = Step[<<f[i - 1], i>>]

(* A recursion over the numbers up to N has a solution, with values in S.  *)
LEMMA Solution ==
  ASSUME NEW N \in Nat, NEW S, NEW c \in S, NEW Step \in [S \X (1..N) -> S]
  PROVE  Solvable(N, S, c, Step)
<1> DEFINE IsUpTo(f, m) == f[0] = c /\ \A i \in 1..m : f[i] = Step[<<f[i - 1], i>>]
           T == {m \in 0..N : \E f \in [0..m -> S] : IsUpTo(f, m)}
<1>1. 0 \in T
  <2>1. PICK f : f = [i \in 0..0 |-> c]
    OBVIOUS
  <2>2. f \in [0..0 -> S] /\ f[0] = c
    BY <2>1
  <2>3. IsUpTo(f, 0)
    BY <2>2
  <2> QED
    BY <2>2, <2>3
<1>2. ASSUME NEW m \in 1..N, m - 1 \in T
      PROVE  m \in T
  <2>1. PICK g \in [0..(m - 1) -> S] : IsUpTo(g, m - 1)
    BY <1>2
  <2>2. PICK f : f = [i \in 0..m |-> IF i = m THEN Step[<<g[m - 1], m>>] ELSE g[i]]
    OBVIOUS
  <2>3. /\ \A i \in 0..(m - 1) : f[i] = g[i]
        /\ f[m] = Step[<<g[m - 1], m>>]
        /\ g[m - 1] \in S
    BY <2>1, <2>2
  <2>4. f \in [0..m -> S]
    <3>1. Step[<<g[m - 1], m>>] \in S
      BY <2>3
    <3> QED
      BY <2>1, <2>2, <3>1
  <2>5. \A i \in 1..m : f[i] = Step[<<f[i - 1], i>>]
    <3> SUFFICES ASSUME NEW i \in 1..m PROVE f[i] = Step[<<f[i - 1], i>>]
      OBVIOUS
    <3>1. f[i - 1] = g[i - 1]
      BY <2>3
    <3>2. CASE i = m
      BY <3>1, <3>2, <2>3
    <3>3. CASE i # m
      <4>1. i \in 0..(m - 1) /\ i \in 1..(m - 1)
        BY <3>3
      <4> QED
        BY <3>1, <4>1, <2>1, <2>3
    <3> QED
      BY <3>2, <3>3
  <2>6. IsUpTo(f, m)
    BY <2>1, <2>3, <2>5
  <2> QED
    BY <2>4, <2>6
<1>3. N \in T
  <2> HIDE DEF T
  <2> QED
    BY <1>1, <1>2, UpTo
<1> QED
  BY <1>3 DEF Solvable

(* What never falls, as long as it is not negative, is at most its last.   *)
LEMMA Growing ==
  ASSUME NEW N \in Nat, NEW e \in [0..N -> Int], e[0] >= 0,
         \A i \in 1..N : e[i - 1] >= 0 => e[i] >= e[i - 1]
  PROVE  \A i \in 0..N : e[i] \in 0..e[N]
<1>1. \A i \in 0..N : e[i] >= 0
  <2> DEFINE T == {i \in 0..N : e[i] >= 0}
  <2>1. 0 \in T
    OBVIOUS
  <2>2. ASSUME NEW i \in 1..N, i - 1 \in T
        PROVE  i \in T
    <3>1. e[i - 1] >= 0 /\ e[i] >= e[i - 1] /\ i - 1 \in 0..N /\ i \in 0..N
      BY <2>2
    <3>2. e[i - 1] \in Int /\ e[i] \in Int
      BY <3>1
    <3> QED
      BY <3>1, <3>2
  <2>3. \A i \in 0..N : i \in T
    <3> HIDE DEF T
    <3> QED
      BY <2>1, <2>2, UpTo
  <2> QED
    BY <2>3
<1>2. \A i \in 0..N : e[N - i] <= e[N]
  <2> DEFINE T == {i \in 0..N : e[N - i] <= e[N]}
  <2>1. 0 \in T
    OBVIOUS
  <2>2. ASSUME NEW i \in 1..N, i - 1 \in T
        PROVE  i \in T
    <3>1. PICK j \in 1..N : j = N - (i - 1)
      OBVIOUS
    <3>2. e[j] <= e[N] /\ N - i = j - 1
      BY <2>2, <3>1
    <3>3. e[j - 1] <= e[j] /\ e[j] \in Int /\ e[j - 1] \in Int /\ e[N] \in Int
      BY <1>1
    <3> QED
      BY <3>2, <3>3
  <2>3. \A i \in 0..N : i \in T
    <3> HIDE DEF T
    <3> QED
      BY <2>1, <2>2, UpTo
  <2> QED
    BY <2>3
<1>3. ASSUME NEW i \in 0..N
      PROVE  e[i] \in 0..e[N]
  <2>1. N - i \in 0..N /\ N - (N - i) = i
    OBVIOUS
  <2>2. e[i] <= e[N]
    BY <1>2, <2>1
  <2>3. e[i] \in Int /\ e[N] \in Int /\ e[i] >= 0
    BY <1>1
  <2> QED
    BY <2>2, <2>3
<1> QED
  BY <1>3

Agree(f, g, N) == \A i \in 0..N : f[i] = g[i]

(* Two solutions with the same steps agree.                                *)
LEMMA SameSolution ==
  ASSUME NEW N \in Nat, NEW f, NEW g, f[0] = g[0],
         \A i \in 1..N : f[i - 1] = g[i - 1] => f[i] = g[i]
  PROVE  Agree(f, g, N)
<1> DEFINE T == {i \in 0..N : f[i] = g[i]}
<1>1. 0 \in T
  OBVIOUS
<1>2. \A i \in 1..N : i - 1 \in T => i \in T
  OBVIOUS
<1>3. \A i \in 0..N : i \in T
  <2> HIDE DEF T
  <2> QED
    BY <1>1, <1>2, UpTo
<1> QED
  BY <1>3 DEF Agree

-----------------------------------------------------------------------------
(* Sequences one behind the other                                          *)

(* u is t behind the n elements of s.                                      *)
IsBehind(u, s, t, n, D) ==
  /\ u \in Seq(D) /\ Len(u) = n + Len(t) /\ n \in Nat
  /\ \A i \in 1..n : u[i] = s[i]
  /\ \A j \in 1..Len(t) : u[n + j] = t[j]

LEMMA Behind ==
  ASSUME NEW D, NEW s \in Seq(D), NEW t \in Seq(D), NEW n, Len(s) = n, NEW u, u = s \o t
  PROVE  IsBehind(u, s, t, n, D)
<1>1. PICK l : l = Len(t)
  OBVIOUS
<1>2. n \in Nat /\ l \in Nat
  BY <1>1
<1>4. u \in Seq(D) /\ Len(u) = n + l /\ \A i \in 1..(n + l) : u[i] = IF i <= n THEN s[i] ELSE t[i - n]
  BY ONLY s \in Seq(D), t \in Seq(D), Len(s) = n, <1>1, u = s \o t, ConcatProperties
<1>5. \A i \in 1..n : u[i] = s[i]
  BY ONLY <1>2, <1>4
<1>6. \A j \in 1..l : u[n + j] = t[j]
  <2> TAKE j \in 1..l
  <2>1. PICK x : x = n + j
    OBVIOUS
  <2>2. x \in 1..(n + l) /\ ~(x <= n) /\ x - n = j
    BY ONLY <1>2, <2>1, j \in 1..l
  <2>3. u[x] = t[x - n]
    BY ONLY <1>4, <2>2
  <2> QED
    BY ONLY <2>1, <2>2, <2>3
<1> QED
  BY ONLY <1>1, <1>2, <1>4, <1>5, <1>6 DEF IsBehind

(* at[i] is where part i ends.                                             *)
IsLayout(at, parts) ==
  /\ at \in [0..Len(parts) -> Nat] /\ at[0] = 0
  /\ \A i \in 1..Len(parts) : at[i] = at[i - 1] + Len(parts[i])

IsJoined(q, at, parts, D) ==
  /\ q \in Seq(D) /\ Len(q) = at[Len(parts)]
  /\ \A i \in 1..Len(parts) : \A j \in 1..Len(parts[i]) : q[at[i - 1] + j] = parts[i][j]

LEMMA LayoutGrows ==
  ASSUME NEW parts, Len(parts) \in Nat, \A i \in 1..Len(parts) : Len(parts[i]) \in Nat,
         NEW at, IsLayout(at, parts),
         NEW i \in 0..Len(parts), NEW k \in 0..Len(parts), i <= k
  PROVE  at[i] <= at[k]
<1>1. PICK N \in Nat : N = Len(parts)
  OBVIOUS
<1>2. \A l \in 0..N : at[l] \in Nat
  BY <1>1 DEF IsLayout
<1>3. \A l \in 1..N : at[l - 1] <= at[l]
  <2> TAKE l \in 1..N
  <2>1. at[l] = at[l - 1] + Len(parts[l]) /\ Len(parts[l]) \in Nat
    BY <1>1 DEF IsLayout
  <2>2. at[l - 1] \in Nat
    BY <1>2
  <2> QED
    BY <2>1, <2>2
<1> DEFINE T == {j \in 0..N : \A l \in 0..j : at[l] <= at[j]}
<1>4. 0 \in T
  BY <1>2
<1>5. ASSUME NEW j \in 1..N, j - 1 \in T
      PROVE  j \in T
  <2>1. ASSUME NEW l \in 0..j PROVE at[l] <= at[j]
    <3>1. at[l] \in Nat /\ at[j - 1] \in Nat /\ at[j] \in Nat
      BY <1>2
    <3>2. CASE l = j
      BY <3>1, <3>2
    <3>3. CASE l # j
      <4>1. l \in 0..(j - 1) /\ at[l] <= at[j - 1]
        BY <1>5, <3>3
      <4> QED
        BY <1>3, <3>1, <4>1
    <3> QED
      BY <3>2, <3>3
  <2> QED
    BY <2>1
<1>6. k \in T
  <2>1. \A j \in 0..N : j \in T
    <3> HIDE DEF T
    <3> QED
      BY <1>4, <1>5, UpTo
  <2> QED
    BY <1>1, <2>1
<1> QED
  BY <1>1, <1>6

(* all[i] is the first i parts one behind the other.                       *)
IsChain(all, parts, D) ==
  /\ all \in [0..Len(parts) -> Seq(D)] /\ all[0] = <<>>
  /\ \A i \in 1..Len(parts) : all[i] = all[i - 1] \o parts[i]

LEMMA ChainExists ==
  ASSUME NEW D, NEW parts \in Seq(Seq(D))
  PROVE  \E all : IsChain(all, parts, D)
<1>1. PICK N \in Nat : N = Len(parts) /\ \A i \in 1..N : parts[i] \in Seq(D)
  OBVIOUS
<1> DEFINE cat(s, i) == s \o parts[i]
<1>2. PICK Step : Step = [x \in Seq(D) \X (1..N) |-> cat(x[1], x[2])]
  OBVIOUS
<1>3. Step \in [Seq(D) \X (1..N) -> Seq(D)]
  <2>1. \A s \in Seq(D), i \in 1..N : cat(s, i) \in Seq(D)
    BY <1>1
  <2> HIDE DEF cat
  <2> QED
    BY <1>2, <2>1
<1>4. PICK f \in [0..N -> Seq(D)] : f[0] = <<>> /\ \A i \in 1..N : f[i] = Step[<<f[i - 1], i>>]
  <2>1. <<>> \in Seq(D)
    OBVIOUS
  <2>2. Solvable(N, Seq(D), <<>>, Step)
    BY <2>1, <1>3, Solution
  <2> QED
    BY <2>2 DEF Solvable
<1>5. \A i \in 1..N : f[i] = cat(f[i - 1], i)
  <2> TAKE i \in 1..N
  <2>1. f[i - 1] \in Seq(D)
    BY <1>4
  <2>2. Step[<<f[i - 1], i>>] = cat(f[i - 1], i)
    BY <1>2, <2>1
  <2> QED
    BY <1>4, <2>2
<1> QED
  BY <1>1, <1>4, <1>5 DEF IsChain

LEMMA ChainIs ==
  ASSUME NEW D, NEW parts \in Seq(Seq(D)), NEW all, IsChain(all, parts, D)
  PROVE  \E at : IsLayout(at, parts) /\ IsJoined(all[Len(parts)], at, parts, D)
<1>1. PICK N \in Nat : N = Len(parts) /\ \A i \in 1..N : parts[i] \in Seq(D)
  OBVIOUS
<1>2. all \in [0..N -> Seq(D)]
  BY <1>1 DEF IsChain
<1>3. PICK at : at = [i \in 0..N |-> Len(all[i])]
  OBVIOUS
<1>4. \A i \in 0..N : all[i] \in Seq(D) /\ at[i] = Len(all[i]) /\ at[i] \in Nat
  BY <1>2, <1>3
<1>5. all[0] = <<>> /\ \A i \in 1..N : all[i] = all[i - 1] \o parts[i]
  BY <1>1 DEF IsChain
<1>6. \A i \in 1..N : at[i] = at[i - 1] + Len(parts[i])
  <2> TAKE i \in 1..N
  <2>1. i - 1 \in 0..N /\ i \in 0..N /\ parts[i] \in Seq(D) /\ all[i] = all[i - 1] \o parts[i]
    <3>1. i - 1 \in 0..N /\ i \in 0..N
      OBVIOUS
    <3>2. parts[i] \in Seq(D)
      BY <1>1
    <3>3. all[i] = all[i - 1] \o parts[i]
      BY ONLY <1>5, i \in 1..N
    <3> QED
      BY ONLY <3>1, <3>2, <3>3
  <2>3. all[i - 1] \in Seq(D)
    BY <1>4, <2>1
  <2>2. Len(all[i]) = Len(all[i - 1]) + Len(parts[i])
    BY ONLY <2>1, <2>3, ConcatProperties
  <2> QED
    BY <1>4, <2>1, <2>2
<1>b. Len(all[0]) = 0
  BY <1>5
<1>7. IsLayout(at, parts)
  <2>1. at \in [0..N -> Nat] /\ at[0] = 0
    BY <1>3, <1>4, <1>b
  <2> QED
    BY <1>1, <1>6, <2>1 DEF IsLayout
<1> DEFINE Fits(k) == \A i \in 1..k : \A j \in 1..Len(parts[i]) : all[k][at[i - 1] + j] = parts[i][j]
           T == {k \in 0..N : Fits(k)}
<1>8. 0 \in T
  OBVIOUS
<1>9. ASSUME NEW k \in 1..N, k - 1 \in T
      PROVE  k \in T
  <2>1. PICK s, p : s = all[k - 1] /\ p = parts[k]
    OBVIOUS
  <2>2. s \in Seq(D) /\ p \in Seq(D) /\ all[k] = s \o p /\ at[k - 1] = Len(s)
    <3>1. k - 1 \in 0..N /\ k \in 1..N
      OBVIOUS
    <3> QED
      BY <1>1, <1>4, <1>5, <2>1, <3>1
  <2>3. /\ \A x \in 1..Len(s) : all[k][x] = s[x]
        /\ \A j \in 1..Len(p) : all[k][Len(s) + j] = p[j]
    <3>1. Len(s) \in Nat /\ Len(p) \in Nat
      BY <2>2
    <3>2. \A x \in 1..(Len(s) + Len(p)) : (s \o p)[x] = IF x <= Len(s) THEN s[x] ELSE p[x - Len(s)]
      BY ONLY <2>2, ConcatProperties
    <3> QED
      BY <2>2, <3>1, <3>2
  <2>4. ASSUME NEW i \in 1..k, NEW j \in 1..Len(parts[i])
        PROVE  all[k][at[i - 1] + j] = parts[i][j]
    <3>1. CASE i = k
      BY <2>1, <2>2, <2>3, <3>1
    <3>2. CASE i # k
      <4>1. i \in 1..(k - 1) /\ s[at[i - 1] + j] = parts[i][j]
        BY <1>9, <2>1, <3>2, SMTT(20)
      <4>2. at[i] <= at[k - 1]
        <5>1. \A l \in 1..Len(parts) : Len(parts[l]) \in Nat
          BY <1>1
        <5>2. i \in 0..Len(parts) /\ k - 1 \in 0..Len(parts) /\ i <= k - 1 /\ Len(parts) \in Nat
          BY <1>1, <4>1
        <5> QED
          BY <1>7, <5>1, <5>2, LayoutGrows
      <4>3. at[i] = at[i - 1] + Len(parts[i]) /\ at[i - 1] \in Nat /\ Len(parts[i]) \in Nat
        BY <1>1, <1>4, <1>6
      <4>4. at[i - 1] + j \in 1..Len(s)
        <5>1. Len(s) \in Nat /\ at[i] <= Len(s)
          BY <2>2, <4>2
        <5>2. PICK a, b, l, x : a = at[i - 1] /\ b = at[i] /\ l = Len(parts[i]) /\ x = Len(s)
          OBVIOUS
        <5>3. a \in Nat /\ l \in Nat /\ b = a + l /\ x \in Nat /\ b <= x /\ j \in 1..l
          BY <4>3, <5>1, <5>2
        <5>4. a + j \in 1..x
          BY ONLY <5>3
        <5> QED
          BY <5>2, <5>4
      <4> QED
        BY <2>3, <4>1, <4>4
    <3> QED
      BY <3>1, <3>2
  <2> QED
    BY <2>4, SMTT(20)
<1>10. N \in T
  <2>1. \A k \in 0..N : k \in T
    <3> HIDE DEF T
    <3> QED
      BY <1>8, <1>9, UpTo
  <2> QED
    BY <2>1
<1>11. IsJoined(all[N], at, parts, D)
  BY <1>1, <1>4, <1>5, <1>10 DEF IsJoined
<1> QED
  BY <1>1, <1>7, <1>11

(* Each position is in a part.                                             *)
IsInPart(x, at, parts) ==
  \E i \in 1..Len(parts) : \E j \in 1..Len(parts[i]) : x = at[i - 1] + j

LEMMA InPart ==
  ASSUME NEW parts, Len(parts) \in Nat, \A i \in 1..Len(parts) : Len(parts[i]) \in Nat,
         NEW at, IsLayout(at, parts), NEW x \in 1..at[Len(parts)]
  PROVE  IsInPart(x, at, parts)
<1>1. PICK N \in Nat : N = Len(parts)
  OBVIOUS
<1>2. /\ \A i \in 0..N : at[i] \in Nat
      /\ at[0] = 0 /\ \A i \in 1..N : at[i] = at[i - 1] + Len(parts[i]) /\ Len(parts[i]) \in Nat
  BY <1>1 DEF IsLayout
<1> DEFINE S == {i \in 0..N : x <= at[i]}
<1>3. PICK i \in S : \A k \in S : i <= k
  <2>1. S \in SUBSET Nat /\ N \in S
    BY <1>1, <1>2
  <2> HIDE DEF S
  <2> QED
    BY <2>1, LeastNumber
<1>4. i \in 0..N /\ x <= at[i] /\ i # 0
  BY <1>1, <1>2, <1>3
<1>5. i - 1 \in 0..N /\ i \in 1..N /\ ~(x <= at[i - 1])
  <2>1. i - 1 \in 0..N /\ i \in 1..N
    BY <1>4
  <2>2. i - 1 \notin S
    <3>1. i \in Nat /\ ~(i <= i - 1)
      BY <2>1
    <3> HIDE DEF S
    <3> QED
      BY <1>3, <3>1
  <2> QED
    BY <2>1, <2>2
<1>6. PICK a, b, l : a = at[i - 1] /\ b = at[i] /\ l = Len(parts[i])
  OBVIOUS
<1>7. a \in Nat /\ l \in Nat /\ b = a + l /\ x <= b /\ ~(x <= a)
  BY <1>2, <1>4, <1>5, <1>6
<1>8. x \in Nat
  BY <1>1, <1>2
<1>9. x - a \in 1..l /\ x = a + (x - a)
  BY ONLY <1>7, <1>8
<1> QED
  BY <1>1, <1>5, <1>6, <1>9 DEF IsInPart
=============================================================================
