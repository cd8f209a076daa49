-------------------------- MODULE ConnectionProofs --------------------------
(***************************************************************************)
(* Connection is well typed; each message is read for what it says when it *)
(* comes alone and whole; of messages in RESP nothing else is taken for a  *)
(* request, wherever a read ends and whatever byte was lost; and so the    *)
(* clients are served as Service.tla says.                                 *)
(***************************************************************************)
EXTENDS Connection, Induction, SequenceTheorems

-----------------------------------------------------------------------------
(* The parts of what is sent, one behind the other                         *)

LEMMA JoinedIs ==
  ASSUME NEW D, NEW parts \in Seq(Seq(D))
  PROVE  \E at : IsLayout(at, parts) /\ IsJoined(Joined(parts), at, parts, D)
<1>1. PICK N \in Nat : N = Len(parts)
  OBVIOUS
<1>2. PICK f : IsChain(f, parts, D)
  BY ChainExists
<1> DEFINE cat(s, i) == s \o parts[i]
           all == CHOOSE g : g = [i \in 0..N |-> IF i = 0 THEN <<>> ELSE cat(g[i - 1], i)]
<1>5. f \in [0..N -> Seq(D)] /\ f[0] = <<>> /\ \A i \in 1..N : f[i] = cat(f[i - 1], i)
  BY <1>1, <1>2 DEF IsChain
<1> HIDE DEF cat
<1>6. f = [i \in 0..N |-> IF i = 0 THEN <<>> ELSE cat(f[i - 1], i)]
  BY <1>5
<1>7. all = [i \in 0..N |-> IF i = 0 THEN <<>> ELSE cat(all[i - 1], i)]
  BY <1>6
<1>8. Joined(parts) = all[N]
  BY <1>1 DEF Joined, cat
<1> HIDE DEF all
<1>9. all[0] = <<>> /\ \A i \in 1..N : all[i] = cat(all[i - 1], i)
  BY <1>7
<1> DEFINE T == {i \in 0..N : all[i] = f[i]}
<1>10. 0 \in T /\ \A i \in 1..N : i - 1 \in T => i \in T
  BY <1>5, <1>9
<1>11. \A i \in 0..N : i \in T
  <2> HIDE DEF T
  <2> QED
    BY <1>10, UpTo
<1>12. Joined(parts) = f[Len(parts)]
  BY <1>1, <1>8, <1>11
<1> QED
  BY <1>2, <1>12, ChainIs

-----------------------------------------------------------------------------
(* Where the bytes of a message in RESP are                                *)

(* A bulk string begins behind position p of q.                            *)
IsFrame(q, p, arg) ==
  /\ p + 6 + Len(arg) <= Len(q)
  /\ q[p + 1] = Dollar /\ q[p + 2] = Zero + Len(arg) /\ q[p + 3] = CR /\ q[p + 4] = LF
  /\ \A j \in 1..Len(arg) : q[p + 4 + j] = arg[j]
  /\ q[p + 5 + Len(arg)] = CR /\ q[p + 6 + Len(arg)] = LF

(* Bulk string i ends at b[i], the line of Star at b[0].                   *)
IsQuery(q, b, args) ==
  /\ q \in Seq(Nat) /\ b \in [0..Len(args) -> Nat]
  /\ b[0] = 4 /\ Len(q) = b[Len(args)] /\ Len(q) >= 4
  /\ q[1] = Star /\ q[2] = Zero + Len(args) /\ q[3] = CR /\ q[4] = LF
  /\ \A i \in 1..Len(args) : b[i] = b[i - 1] + 6 + Len(args[i]) /\ IsFrame(q, b[i - 1], args[i])

LEMMA FourBytes ==
  ASSUME NEW a \in Nat, NEW b \in Nat
  PROVE  LET h == <<a, b>> \o CRLF
         IN  h \in Seq(Nat) /\ Len(h) = 4 /\ h[1] = a /\ h[2] = b /\ h[3] = CR /\ h[4] = LF
<1>1. <<a, b>> \in Seq(Nat) /\ CRLF \in Seq(Nat) /\ Len(<<a, b>>) = 2 /\ Len(CRLF) = 2
      /\ <<a, b>>[1] = a /\ <<a, b>>[2] = b /\ CRLF[1] = CR /\ CRLF[2] = LF
  BY DEF CRLF, CR, LF
<1>2. PICK t, u, h : t = <<a, b>> /\ u = CRLF /\ h = <<a, b>> \o CRLF
  OBVIOUS
<1>n. PICK n : n = 2
  OBVIOUS
<1>3. Len(t) = n /\ t \in Seq(Nat) /\ u \in Seq(Nat)
  BY ONLY <1>1, <1>2, <1>n
<1>4. IsBehind(h, t, u, n, Nat)
  <2>1. h = t \o u
    BY ONLY <1>2
  <2> QED
    BY ONLY <1>3, <2>1, Behind
<1>6. /\ h \in Seq(Nat) /\ Len(h) = 2 + Len(u) /\ \A i \in 1..2 : h[i] = t[i]
      /\ \A j \in 1..Len(u) : h[2 + j] = u[j]
  BY ONLY <1>4, <1>n DEF IsBehind
<1>7. Len(u) = 2 /\ t[1] = a /\ t[2] = b /\ u[1] = CR /\ u[2] = LF
  BY ONLY <1>1, <1>2
<1>8. h[1] = a /\ h[2] = b
  BY ONLY <1>6, <1>7
<1>9. h[2 + 1] = CR /\ h[2 + 2] = LF
  BY ONLY <1>6, <1>7
<1> QED
  BY ONLY <1>2, <1>6, <1>7, <1>8, <1>9

(* A line of four bytes, some bytes, and a line's end behind them.         *)
Framed(f, a, b, arg) ==
  /\ f \in Seq(Nat) /\ Len(f) = 6 + Len(arg)
  /\ f[1] = a /\ f[2] = b /\ f[3] = CR /\ f[4] = LF
  /\ \A j \in 1..Len(arg) : f[4 + j] = arg[j]
  /\ f[5 + Len(arg)] = CR /\ f[6 + Len(arg)] = LF

LEMMA FrameIs ==
  ASSUME NEW a \in Nat, NEW b \in Nat, NEW arg \in Seq(Nat)
  PROVE  Framed(<<a, b>> \o CRLF \o arg \o CRLF, a, b, arg)
<1>1. PICK h, g, f, l : /\ h = <<a, b>> \o CRLF /\ g = h \o arg /\ f = g \o CRLF /\ l = Len(arg)
  OBVIOUS
<1>2. /\ h \in Seq(Nat) /\ Len(h) = 4 /\ h[1] = a /\ h[2] = b /\ h[3] = CR /\ h[4] = LF
      /\ CRLF \in Seq(Nat) /\ Len(CRLF) = 2 /\ CRLF[1] = CR /\ CRLF[2] = LF
  BY <1>1, FourBytes DEF CRLF, CR, LF
<1>3. /\ g \in Seq(Nat) /\ Len(g) = 4 + l /\ l \in Nat
      /\ \A i \in 1..4 : g[i] = h[i]
      /\ \A j \in 1..l : g[4 + j] = arg[j]
  <2>n. PICK n : n = 4
    OBVIOUS
  <2>1. Len(h) = n /\ arg \in Seq(Nat) /\ h \in Seq(Nat)
    BY <1>2, <2>n
  <2>2. IsBehind(g, h, arg, n, Nat)
    <3>1. g = h \o arg
      BY ONLY <1>1
    <3> QED
      BY ONLY <2>1, <3>1, Behind
  <2>3. Len(arg) \in Nat
    OBVIOUS
  <2> QED
    BY ONLY <1>1, <2>n, <2>2, <2>3 DEF IsBehind
<1>4. PICK n : n = 4 + l
  OBVIOUS
<1>5. /\ f \in Seq(Nat) /\ Len(f) = n + 2 /\ n \in Nat
      /\ \A i \in 1..n : f[i] = g[i]
      /\ \A j \in 1..2 : f[n + j] = CRLF[j]
  <2>1. g \in Seq(Nat) /\ CRLF \in Seq(Nat) /\ Len(g) = n
    BY ONLY <1>2, <1>3, <1>4
  <2>2. IsBehind(f, g, CRLF, n, Nat)
    <3>1. f = g \o CRLF
      BY ONLY <1>1
    <3> QED
      BY ONLY <2>1, <3>1, Behind
  <2> QED
    BY ONLY <1>2, <2>2 DEF IsBehind
<1>6. f[n + 1] = CR /\ f[n + 2] = LF /\ n + 1 = 5 + l /\ n + 2 = 6 + l
  BY ONLY <1>2, <1>3, <1>4, <1>5
<1>7. f[1] = a /\ f[2] = b /\ f[3] = CR /\ f[4] = LF
  <2>1. \A i \in 1..4 : i \in 1..n
    BY <1>3, <1>4
  <2> QED
    BY <1>2, <1>3, <1>5, <2>1
<1>8. \A j \in 1..l : f[4 + j] = arg[j]
  <2> TAKE j \in 1..l
  <2>1. 4 + j \in 1..n
    BY <1>3, <1>4
  <2> QED
    BY <1>3, <1>5, <2>1
<1>9. Framed(f, a, b, arg)
  <2>1. l = Len(arg) /\ Len(f) = 6 + l /\ f \in Seq(Nat)
    BY ONLY <1>1, <1>3, <1>4, <1>5
  <2> QED
    BY ONLY <1>5, <1>6, <1>7, <1>8, <2>1 DEF Framed
<1> QED
  BY ONLY <1>1, <1>9

LEMMA QueryIs ==
  ASSUME NEW args \in Seq(Seq(Byte))
  PROVE  \E b : IsQuery(query_string(args), b, args)
<1>1. PICK K \in Nat : /\ K = Len(args) /\ DOMAIN args = 1..K
                       /\ \A i \in 1..K : args[i] \in Seq(Nat) /\ Len(args[i]) \in Nat
  <2>1. Seq(Byte) \subseteq Seq(Nat)
    <3>1. Byte \subseteq Nat
      BY DEF Byte
    <3> QED
      BY <3>1, SeqMonotonic
  <2>2. \A i \in 1..Len(args) : args[i] \in Seq(Byte)
    OBVIOUS
  <2>3. \A i \in 1..Len(args) : args[i] \in Seq(Nat) /\ Len(args[i]) \in Nat
    BY <2>1, <2>2
  <2> QED
    BY <2>3
<1> DEFINE frame(arg) == <<Dollar, Zero + Len(arg)>> \o CRLF \o arg \o CRLF
<1>2. \A i \in 1..K : Framed(frame(args[i]), Dollar, Zero + Len(args[i]), args[i])
  <2> TAKE i \in 1..K
  <2>1. Dollar \in Nat /\ Zero + Len(args[i]) \in Nat /\ args[i] \in Seq(Nat)
    BY <1>1 DEF Dollar, Zero
  <2> QED
    BY ONLY <2>1, FrameIs
<1>3. PICK parts : parts = [i \in DOMAIN args |-> frame(args[i])]
  OBVIOUS
<1>4. PICK h : h = <<Star, Zero + K>> \o CRLF
  OBVIOUS
<1>5. query_string(args) = h \o Joined(parts)
  BY <1>1, <1>3, <1>4 DEF query_string
<1> HIDE DEF frame
<1>6. /\ Len(parts) = K /\ parts \in Seq(Seq(Nat))
      /\ \A i \in 1..K : Framed(parts[i], Dollar, Zero + Len(args[i]), args[i])
  <2>1. parts = [i \in 1..K |-> frame(args[i])]
    BY <1>1, <1>3
  <2>2. \A i \in 1..K : frame(args[i]) \in Seq(Nat)
    BY <1>2 DEF Framed
  <2> QED
    BY <1>2, <2>1, <2>2
<1>7. PICK at, r : IsLayout(at, parts) /\ r = Joined(parts) /\ IsJoined(r, at, parts, Nat)
  BY <1>6, JoinedIs
<1>8. PICK q : q = h \o r
  OBVIOUS
<1>9. h \in Seq(Nat) /\ Len(h) = 4 /\ h[1] = Star /\ h[2] = Zero + K /\ h[3] = CR /\ h[4] = LF
  <2>1. Star \in Nat /\ Zero + K \in Nat
    BY DEF Star, Zero
  <2>2. PICK x, y : x = Star /\ y = Zero + K
    OBVIOUS
  <2>3. x \in Nat /\ y \in Nat
    BY ONLY <2>1, <2>2
  <2>4. LET g == <<x, y>> \o CRLF
        IN  g \in Seq(Nat) /\ Len(g) = 4 /\ g[1] = x /\ g[2] = y /\ g[3] = CR /\ g[4] = LF
    BY ONLY <2>3, FourBytes
  <2>5. h = <<x, y>> \o CRLF
    BY <1>4, <2>2
  <2> QED
    BY ONLY <2>2, <2>4, <2>5
<1>10. r \in Seq(Nat) /\ Len(r) = at[K] /\ at \in [0..K -> Nat] /\ at[0] = 0
  BY <1>6, <1>7 DEF IsJoined, IsLayout
<1>11. /\ q \in Seq(Nat) /\ Len(q) = Len(h) + Len(r)
       /\ \A i \in 1..(Len(h) + Len(r)) : q[i] = IF i <= Len(h) THEN h[i] ELSE r[i - Len(h)]
  BY ONLY <1>8, <1>9, <1>10, ConcatProperties
<1>12. /\ Len(q) = 4 + at[K] /\ at[K] \in Nat
       /\ \A i \in 1..4 : q[i] = h[i]
       /\ \A x \in 1..at[K] : q[4 + x] = r[x]
  <2>1. PICK n : n = at[K]
    OBVIOUS
  <2>2. n \in Nat
    BY <1>10, <2>1
  <2>3. Len(q) = 4 + n /\ \A i \in 1..(4 + n) : q[i] = IF i <= 4 THEN h[i] ELSE r[i - 4]
    BY ONLY <1>9, <1>10, <1>11, <2>1
  <2>4. \A i \in 1..4 : q[i] = h[i]
    BY ONLY <2>2, <2>3
  <2>5. \A x \in 1..n : q[4 + x] = r[x]
    <3> TAKE x \in 1..n
    <3>1. 4 + x \in 1..(4 + n) /\ ~(4 + x <= 4) /\ 4 + x - 4 = x
      BY ONLY <2>2, x \in 1..n
    <3> QED
      BY ONLY <2>3, <3>1
  <2> QED
    BY ONLY <2>1, <2>2, <2>3, <2>4, <2>5
<1>13. PICK b : b = [i \in 0..K |-> 4 + at[i]]
  OBVIOUS
<1>14. ASSUME NEW i \in 1..K
       PROVE  b[i] = b[i - 1] + 6 + Len(args[i]) /\ IsFrame(q, b[i - 1], args[i])
  <2>1. PICK p, l, n, f : p = at[i - 1] /\ l = Len(args[i]) /\ n = at[K] /\ f = parts[i]
    OBVIOUS
  <2>2. /\ at[i] = p + 6 + l /\ l \in Nat /\ p \in Nat /\ n \in Nat
        /\ b[i - 1] = 4 + p /\ b[i] = 10 + p + l
    <3>1. i \in 0..K /\ i - 1 \in 0..K
      OBVIOUS
    <3>2. at[i] = at[i - 1] + Len(parts[i]) /\ Len(parts[i]) = 6 + Len(args[i])
      BY <1>6, <1>7 DEF IsLayout, Framed
    <3>3. p \in Nat /\ n \in Nat /\ b[i - 1] = 4 + p /\ b[i] = 4 + at[i]
      BY <1>10, <1>13, <2>1, <3>1
    <3>4. l \in Nat
      BY <1>1, <2>1
    <3>5. at[i] = p + (6 + l)
      BY ONLY <2>1, <3>2
    <3> QED
      BY ONLY <3>3, <3>4, <3>5
  <2>3. p + 6 + l <= n
    <3>1. \A k \in 1..Len(parts) : Len(parts[k]) \in Nat
      BY <1>6 DEF Framed
    <3>2. i \in 0..Len(parts) /\ K \in 0..Len(parts) /\ i <= K /\ Len(parts) \in Nat
      BY <1>6
    <3>3. at[i] <= at[K]
      BY ONLY <3>1, <3>2, <1>7, LayoutGrows
    <3> QED
      BY <2>1, <2>2, <3>3
  <2>4. \A j \in 1..(6 + l) : q[4 + p + j] = f[j]
    <3> TAKE j \in 1..(6 + l)
    <3>1. r[p + j] = f[j]
      <4>1. i \in 1..Len(parts) /\ j \in 1..Len(parts[i])
        BY <1>6, <2>1 DEF Framed
      <4> QED
        BY <1>7, <2>1, <4>1 DEF IsJoined
    <3>2. p + j \in 1..n
      BY <2>2, <2>3
    <3>3. q[4 + (p + j)] = r[p + j]
      BY ONLY <1>12, <2>1, <3>2
    <3>4. 4 + (p + j) = 4 + p + j
      BY <2>2
    <3> QED
      BY <3>1, <3>3, <3>4
  <2>5. /\ f[1] = Dollar /\ f[2] = Zero + l /\ f[3] = CR /\ f[4] = LF
        /\ \A j \in 1..l : f[4 + j] = args[i][j]
        /\ f[5 + l] = CR /\ f[6 + l] = LF
    BY <1>6, <2>1 DEF Framed
  <2>6. PICK e : e = 4 + p
    OBVIOUS
  <2>7. e \in Nat /\ e = b[i - 1] /\ e + 6 + l <= Len(q) /\ \A j \in 1..(6 + l) : q[e + j] = f[j]
    <3>1. Len(q) = 4 + n
      BY <1>12, <2>1
    <3>2. e \in Nat /\ e = b[i - 1] /\ e + 6 + l <= Len(q)
      BY ONLY <2>2, <2>3, <2>6, <3>1
    <3> QED
      BY <2>4, <2>6, <3>2
  <2>8. /\ q[e + 1] = Dollar /\ q[e + 2] = Zero + l /\ q[e + 3] = CR /\ q[e + 4] = LF
        /\ q[e + 5 + l] = CR /\ q[e + 6 + l] = LF
    <3>1. 5 + l \in 1..(6 + l) /\ 6 + l \in 1..(6 + l) /\ \A x \in 1..4 : x \in 1..(6 + l)
      BY <2>2
    <3>2. e + 5 + l = e + (5 + l) /\ e + 6 + l = e + (6 + l)
      BY <2>2, <2>7
    <3> QED
      <4>1. 1 \in 1..(6 + l) /\ 2 \in 1..(6 + l) /\ 3 \in 1..(6 + l) /\ 4 \in 1..(6 + l)
        BY ONLY <3>1
      <4>2. q[e + 1] = f[1] /\ q[e + 2] = f[2] /\ q[e + 3] = f[3] /\ q[e + 4] = f[4]
        BY ONLY <2>7, <4>1
      <4>3. q[e + (5 + l)] = f[5 + l] /\ q[e + (6 + l)] = f[6 + l]
        BY ONLY <2>7, <3>1
      <4> QED
        BY ONLY <2>5, <3>2, <4>2, <4>3
  <2>9. \A j \in 1..l : q[e + 4 + j] = args[i][j]
    <3> TAKE j \in 1..l
    <3>1. 4 + j \in 1..(6 + l) /\ e + 4 + j = e + (4 + j)
      BY <2>2, <2>7
    <3> QED
      BY <2>5, <2>7, <3>1
  <2> QED
    BY ONLY <2>1, <2>2, <2>7, <2>8, <2>9 DEF IsFrame
<1>15. b \in [0..K -> Nat] /\ b[0] = 4 /\ Len(q) = b[K]
  BY <1>10, <1>12, <1>13
<1>16. IsQuery(q, b, args)
  BY <1>1, <1>9, <1>11, <1>12, <1>14, <1>15, SMTT(20) DEF IsQuery
<1> QED
  BY <1>5, <1>7, <1>8, <1>16

-----------------------------------------------------------------------------
(* What the tokenizer finds                                                *)

(* The first CR at i or behind it is at c, or there is none.               *)
IsCR(s, i, c) == c \in i..Len(s) /\ s[c] = CR /\ \A j \in i..Len(s) : s[j] = CR => c <= j

LEMMA NextCRIs ==
  ASSUME NEW s, Len(s) \in Nat, NEW i \in Nat
  PROVE  NextCR(s, i) \in Nat /\ (IsCR(s, i, NextCR(s, i)) \/ NextCR(s, i) = Len(s) + 1)
<1>1. PICK crs : crs = {j \in i..Len(s) : s[j] = CR}
  OBVIOUS
<1>2. NextCR(s, i) = IF crs = {} THEN Len(s) + 1 ELSE Min(crs)
  BY <1>1 DEF NextCR
<1>3. CASE crs = {}
  BY <1>2, <1>3
<1>4. CASE crs # {}
  <2>1. crs \in SUBSET Nat
    BY <1>1
  <2>2. \E m \in crs : \A k \in crs : m <= k
    BY ONLY <1>4, <2>1, LeastNumber
  <2>3. Min(crs) \in crs /\ \A k \in crs : Min(crs) <= k
    BY <2>2 DEF Min
  <2>4. PICK c : c = Min(crs)
    OBVIOUS
  <2>5. c \in i..Len(s) /\ s[c] = CR /\ \A j \in i..Len(s) : s[j] = CR => c <= j
    BY <1>1, <2>3, <2>4
  <2> QED
    BY <1>2, <1>4, <2>4, <2>5 DEF IsCR
<1> QED
  BY <1>3, <1>4

LEMMA NextCRAt ==
  ASSUME NEW s, Len(s) \in Nat, NEW i \in Nat, NEW c, IsCR(s, i, c)
  PROVE  NextCR(s, i) = c
<1>1. PICK d : d = NextCR(s, i)
  OBVIOUS
<1>2. d \in Nat /\ (IsCR(s, i, d) \/ d = Len(s) + 1)
  BY <1>1, NextCRIs
<1>3. c \in i..Len(s) /\ s[c] = CR /\ \A j \in i..Len(s) : s[j] = CR => c <= j
  BY DEF IsCR
<1>4. CASE IsCR(s, i, d)
  <2>1. d \in i..Len(s) /\ s[d] = CR /\ \A j \in i..Len(s) : s[j] = CR => d <= j
    BY <1>4 DEF IsCR
  <2>2. c <= d /\ d <= c
    BY <1>3, <2>1
  <2> QED
    BY <1>1, <1>3, <2>1, <2>2
<1>5. CASE d = Len(s) + 1
  <2>1. PICK crs : crs = {j \in i..Len(s) : s[j] = CR}
    OBVIOUS
  <2>2. c \in crs
    BY <1>3, <2>1
  <2>3. d = Min(crs)
    BY <1>1, <2>1, <2>2 DEF NextCR
  <2>4. crs \in SUBSET Nat /\ crs # {}
    BY <2>1, <2>2
  <2>5. \E m \in crs : \A k \in crs : m <= k
    BY ONLY <2>4, LeastNumber
  <2>6. d \in crs
    BY <2>3, <2>5 DEF Min
  <2> QED
    BY <1>5, <2>1, <2>6
<1> QED
  BY <1>2, <1>4, <1>5

(* The number in the bytes from i up to c.                                 *)
Number(s, i, c) ==
  LET n[j \in (i - 1)..(c - 1)] == IF j < i THEN 0 ELSE n[j - 1] * 10 + (s[j] - Zero)
  IN n[c - 1]

IsNumber(s, i, c) == \A j \in i..(c - 1) : s[j] \in Zero..(Zero + 9)

LEMMA NumberIs ==
  ASSUME NEW s, NEW i \in Nat, NEW c \in Nat, i <= c, IsNumber(s, i, c)
  PROVE  /\ Number(s, i, c) \in Nat
         /\ c = i => Number(s, i, c) = 0
         /\ c = i + 1 => Number(s, i, c) = s[i] - Zero
<1>1. PICK M : M \in Nat /\ M = c - i
  OBVIOUS
<1> DEFINE add(x, j) == x * 10 + (s[j] - Zero)
<1>2. \A x \in Nat, j \in i..(c - 1) : add(x, j) \in Nat
  BY DEF IsNumber, Zero
<1>3. add(0, i) = s[i] - Zero \/ i \notin i..(c - 1)
  BY DEF IsNumber, Zero
<1> DEFINE n == CHOOSE f : f = [j \in (i - 1)..(c - 1) |-> IF j < i THEN 0 ELSE add(f[j - 1], j)]
<1>4. Number(s, i, c) = n[c - 1]
  BY DEF Number
<1> HIDE DEF add
<1>5. PICK Step : Step = [x \in Nat \X (1..M) |-> add(x[1], i - 1 + x[2])]
  OBVIOUS
<1>6. Step \in [Nat \X (1..M) -> Nat]
  <2>1. \A k \in 1..M : i - 1 + k \in i..(c - 1)
    BY <1>1
  <2> QED
    BY <1>2, <1>5, <2>1
<1>7. PICK f \in [0..M -> Nat] : f[0] = 0 /\ \A k \in 1..M : f[k] = Step[<<f[k - 1], k>>]
  <2>1. 0 \in Nat
    OBVIOUS
  <2>2. Solvable(M, Nat, 0, Step)
    BY <1>1, <1>6, <2>1, Solution
  <2> QED
    BY <2>2 DEF Solvable
<1>8. \A k \in 1..M : f[k] = add(f[k - 1], i - 1 + k)
  <2> TAKE k \in 1..M
  <2>1. f[k - 1] \in Nat
    BY <1>1, <1>7
  <2>2. Step[<<f[k - 1], k>>] = add(f[k - 1], i - 1 + k)
    BY <1>5, <2>1
  <2> QED
    BY <1>7, <2>2
<1>9. PICK g : g = [j \in (i - 1)..(c - 1) |-> f[j - (i - 1)]]
  OBVIOUS
<1>10. ASSUME NEW j \in (i - 1)..(c - 1)
       PROVE  g[j] = IF j < i THEN 0 ELSE add(g[j - 1], j)
  <2>1. CASE j < i
    BY <1>7, <1>9, <2>1
  <2>2. CASE ~(j < i)
    <3>1. PICK k : k = j - (i - 1)
      OBVIOUS
    <3>2. k \in 1..M /\ i - 1 + k = j /\ k - 1 = j - 1 - (i - 1) /\ j - 1 \in (i - 1)..(c - 1)
      BY ONLY <1>1, <2>2, <3>1, i \in Nat, c \in Nat, j \in (i - 1)..(c - 1)
    <3>3. g[j] = f[k] /\ g[j - 1] = f[k - 1]
      BY <1>9, <3>1, <3>2
    <3> QED
      BY <1>8, <2>2, <3>2, <3>3
  <2> QED
    BY <2>1, <2>2
<1>11. g = [j \in (i - 1)..(c - 1) |-> IF j < i THEN 0 ELSE add(g[j - 1], j)]
  BY <1>9, <1>10
<1>12. n = [j \in (i - 1)..(c - 1) |-> IF j < i THEN 0 ELSE add(n[j - 1], j)]
  BY <1>11
<1> HIDE DEF n
<1>13. n[i - 1] = 0
  BY <1>12
<1>14. \A j \in i..(c - 1) : n[j] = add(n[j - 1], j)
  BY <1>12
<1> DEFINE T == {k \in 0..M : n[i - 1 + k] \in Nat}
<1>15. 0 \in T
  BY <1>1, <1>13
<1>16. ASSUME NEW k \in 1..M, k - 1 \in T
       PROVE  k \in T
  <2>1. PICK j : j = i - 1 + k
    OBVIOUS
  <2>2. j \in i..(c - 1) /\ i - 1 + (k - 1) = j - 1
    BY <1>1, <2>1
  <2>3. n[j - 1] \in Nat
    BY <1>16, <2>2
  <2> QED
    BY <1>2, <1>14, <2>1, <2>2, <2>3, SMTT(20)
<1>17. M \in T
  <2>1. \A k \in 0..M : k \in T
    <3> HIDE DEF T
    <3> QED
      BY <1>1, <1>15, <1>16, UpTo
  <2>2. M \in 0..M
    BY <1>1
  <2> HIDE DEF T
  <2> QED
    BY <2>1, <2>2
<1>18. n[c - 1] \in Nat
  BY <1>1, <1>17
<1>19. c = i + 1 => n[i] = s[i] - Zero
  BY <1>3, <1>13, <1>14
<1> QED
  BY <1>4, <1>13, <1>18, <1>19

EndsLine(s, c) == c < Len(s) => s[c + 1] = LF

(* A legal number ends at a CR, and has digits only.                       *)
IsLegal(s, i, c) == IsCR(s, i, c) /\ IsNumber(s, i, c) /\ EndsLine(s, c)

LEMMA RespIntIs ==
  ASSUME NEW s, Len(s) \in Nat, NEW i \in Nat
  PROVE  \/ getRespInt(s, i) = -1
         \/ getRespInt(s, i) \in Nat /\ IsLegal(s, i, NextCR(s, i))
<1>1. PICK c : c = NextCR(s, i)
  OBVIOUS
<1>2. c \in Nat /\ (IsCR(s, i, c) \/ c = Len(s) + 1)
  BY <1>1, NextCRIs
<1>3. getRespInt(s, i) = IF c <= Len(s) /\ IsNumber(s, i, c) /\ EndsLine(s, c)
                         THEN Number(s, i, c) ELSE -1
  BY <1>1 DEF getRespInt, Number, IsNumber, EndsLine
<1>4. SUFFICES ASSUME c <= Len(s), IsNumber(s, i, c), EndsLine(s, c)
               PROVE  Number(s, i, c) \in Nat /\ IsCR(s, i, c)
  BY <1>1, <1>3 DEF IsLegal
<1>5. IsCR(s, i, c)
  BY <1>2, <1>4
<1>6. i <= c
  BY <1>5 DEF IsCR
<1> QED
  BY <1>2, <1>4, <1>5, <1>6, NumberIs

LEMMA RespIntAt ==
  ASSUME NEW s, Len(s) \in Nat, NEW i \in Nat, NEW c, IsLegal(s, i, c)
  PROVE  /\ NextCR(s, i) = c
         /\ c = i => getRespInt(s, i) = 0
         /\ c = i + 1 => getRespInt(s, i) = s[i] - Zero
<1>1. IsCR(s, i, c) /\ IsNumber(s, i, c) /\ EndsLine(s, c)
  BY DEF IsLegal
<1>2. NextCR(s, i) = c
  BY <1>1, NextCRAt
<1>3. c \in Nat /\ i <= c /\ c <= Len(s)
  BY <1>1 DEF IsCR
<1>4. getRespInt(s, i) = Number(s, i, c)
  BY <1>1, <1>2, <1>3 DEF getRespInt, Number, IsNumber, EndsLine
<1>5. /\ c = i => Number(s, i, c) = 0
      /\ c = i + 1 => Number(s, i, c) = s[i] - Zero
  BY <1>1, <1>3, NumberIs
<1> QED
  BY <1>2, <1>4, <1>5

-----------------------------------------------------------------------------
(* The bulk strings, one behind the other                                  *)

Spot == [from : Nat, to : Nat]

(* What a bulk string that is found says of the bytes behind i.            *)
IsFound(s, i, l, cr) ==
  LET dollar == NextCR(s, i) + 2
  IN /\ dollar \in Nat /\ dollar <= Len(s) /\ s[dollar - 1] = LF /\ s[dollar] = Dollar
     /\ l \in Nat /\ l = getRespInt(s, dollar + 1) /\ cr \in Nat /\ cr = NextCR(s, dollar + 1)
     /\ IsLegal(s, dollar + 1, cr)
     /\ cr + 2 + l + 1 <= Len(s) /\ s[cr + 2 + l] = CR
     /\ Bulk(s, i) = [from |-> cr + 2, to |-> cr + 2 + l]

LEMMA BulkIs ==
  ASSUME NEW s, Len(s) \in Nat, NEW i \in Nat, Bulk(s, i) # NULL
  PROVE  \E l, cr \in Nat : IsFound(s, i, l, cr)
<1>1. PICK dollar : dollar = NextCR(s, i) + 2
  OBVIOUS
<1>2. dollar \in Nat
  <2>1. NextCR(s, i) \in Nat
    BY ONLY Len(s) \in Nat, i \in Nat, NextCRIs
  <2> QED
    BY <1>1, <2>1
<1>3. PICK l, cr : l = getRespInt(s, dollar + 1) /\ cr = NextCR(s, dollar + 1)
  OBVIOUS
<1>4. /\ dollar <= Len(s) /\ s[dollar - 1] = LF /\ s[dollar] = Dollar /\ l # -1
      /\ cr + 2 + l + 1 <= Len(s) /\ s[cr + 2 + l] = CR
      /\ Bulk(s, i) = [from |-> cr + 2, to |-> cr + 2 + l]
  BY <1>1, <1>3 DEF Bulk
<1>5. dollar + 1 \in Nat
  BY <1>2
<1>6. l \in Nat /\ IsLegal(s, dollar + 1, cr)
  BY <1>3, <1>4, <1>5, RespIntIs
<1>7. cr \in Nat
  BY <1>3, <1>5, NextCRIs
<1> QED
  BY <1>1, <1>2, <1>3, <1>4, <1>6, <1>7 DEF IsFound

LEMMA BulkType ==
  ASSUME NEW s, Len(s) \in Nat, NEW i \in Nat
  PROVE  Bulk(s, i) \in Spot \cup {NULL}
<1> SUFFICES ASSUME Bulk(s, i) # NULL PROVE Bulk(s, i) \in Spot
  OBVIOUS
<1>1. PICK l \in Nat, cr \in Nat : IsFound(s, i, l, cr)
  BY BulkIs
<1>2. Bulk(s, i) = [from |-> cr + 2, to |-> cr + 2 + l]
  BY <1>1 DEF IsFound
<1> QED
  BY <1>2 DEF Spot

NextBulk(s, before) == IF before = NULL THEN NULL ELSE Bulk(s, before.to)

(* Bulks is what its recursion says.                                       *)
AreBulks(s, count, bulks) ==
  /\ bulks \in [0..count -> Spot \cup {NULL}] /\ bulks[0] = [from |-> 2, to |-> 2]
  /\ \A i \in 1..count : bulks[i] = NextBulk(s, bulks[i - 1])

LEMMA BulksAre ==
  ASSUME NEW s, Len(s) \in Nat, NEW count \in Nat
  PROVE  AreBulks(s, count, Bulks(s, count))
<1> DEFINE star == [from |-> 2, to |-> 2]
           bulks == CHOOSE f : f = [i \in 0..count |-> IF i = 0 THEN star ELSE NextBulk(s, f[i - 1])]
<1>1. Bulks(s, count) = bulks
  BY DEF Bulks, NextBulk
<1>2. \A b \in Spot \cup {NULL} : NextBulk(s, b) \in Spot \cup {NULL}
  <2> TAKE b \in Spot \cup {NULL}
  <2>1. CASE b = NULL
    BY <2>1 DEF NextBulk
  <2>2. CASE b # NULL
    <3>1. b.to \in Nat
      BY <2>2 DEF Spot
    <3> QED
      BY <2>2, <3>1, BulkType DEF NextBulk
  <2> QED
    BY <2>1, <2>2
<1>3. PICK Step : Step = [x \in (Spot \cup {NULL}) \X (1..count) |-> NextBulk(s, x[1])]
  OBVIOUS
<1>4. Step \in [(Spot \cup {NULL}) \X (1..count) -> Spot \cup {NULL}]
  BY <1>2, <1>3
<1>5. PICK D : D = Spot \cup {NULL}
  OBVIOUS
<1>6. star \in D
  BY <1>5 DEF Spot
<1>7. PICK f \in [0..count -> D] : f[0] = star /\ \A i \in 1..count : f[i] = Step[<<f[i - 1], i>>]
  <2>1. Step \in [D \X (1..count) -> D]
    BY <1>4, <1>5
  <2>2. Solvable(count, D, star, Step)
    BY <1>6, <2>1, Solution
  <2> QED
    BY <2>2 DEF Solvable
<1>8. \A i \in 1..count : f[i] = NextBulk(s, f[i - 1])
  <2> TAKE i \in 1..count
  <2>1. f[i - 1] \in D
    BY <1>7
  <2>2. Step[<<f[i - 1], i>>] = NextBulk(s, f[i - 1])
    BY <1>3, <1>5, <2>1
  <2> QED
    BY <1>7, <2>2
<1>9. f = [i \in 0..count |-> IF i = 0 THEN star ELSE NextBulk(s, f[i - 1])]
  BY <1>7, <1>8
<1>10. bulks = [i \in 0..count |-> IF i = 0 THEN star ELSE NextBulk(s, bulks[i - 1])]
  BY <1>9
<1> HIDE DEF bulks, star
<1>11. bulks[0] = star /\ \A i \in 1..count : bulks[i] = NextBulk(s, bulks[i - 1])
  BY <1>10
<1>12. Agree(bulks, f, count)
  <2>1. bulks[0] = f[0] /\ \A i \in 1..count : bulks[i - 1] = f[i - 1] => bulks[i] = f[i]
    BY <1>7, <1>8, <1>11
  <2> QED
    BY <2>1, SameSolution
<1>13. bulks = f
  BY <1>7, <1>10, <1>12 DEF Agree
<1> QED
  BY <1>1, <1>5, <1>7, <1>8, <1>13 DEF AreBulks, star

(* One that is not found leaves none behind it.                            *)
LEMMA AllFound ==
  ASSUME NEW s, NEW count \in Nat, NEW bulks, AreBulks(s, count, bulks), bulks[count] # NULL,
         NEW i \in 0..count
  PROVE  bulks[i] # NULL
<1> DEFINE T == {k \in 0..count : bulks[count - k] # NULL}
<1>1. 0 \in T
  OBVIOUS
<1>2. ASSUME NEW k \in 1..count, k - 1 \in T
      PROVE  k \in T
  <2>1. PICK j : j = count - (k - 1)
    OBVIOUS
  <2>2. j \in 1..count /\ count - k = j - 1 /\ bulks[j] # NULL
    BY <1>2, <2>1
  <2>3. bulks[j] = NextBulk(s, bulks[j - 1])
    BY <2>2 DEF AreBulks
  <2>4. bulks[j - 1] # NULL
    BY <2>2, <2>3 DEF NextBulk
  <2> QED
    BY <2>2, <2>4
<1>3. \A k \in 0..count : k \in T
  <2> HIDE DEF T
  <2> QED
    BY <1>1, <1>2, UpTo
<1>4. count - i \in 0..count /\ count - (count - i) = i
  OBVIOUS
<1> QED
  BY <1>3, <1>4

-----------------------------------------------------------------------------
(* A read that starts where a message in RESP does                         *)

(* t begins as q does, and goes on without the byte of q at d, which is    *)
(* behind q when none is lost.  What comes behind a message is no LF.      *)
IsRead(t, q, d) ==
  /\ Len(t) \in Nat
  /\ \A x \in 1..Len(t) : x < d /\ x <= Len(q) => t[x] = q[x]
  /\ \A x \in 1..Len(t) : d <= x /\ x < Len(q) => t[x] = q[x + 1]
  /\ d <= Len(q) /\ Len(q) <= Len(t) => t[Len(q)] # LF

(* Nothing empty is read in place of such an argument.                     *)
IsPlain(arg) == Len(arg) >= 1 /\ arg[1] # CR

(* Where a bulk string is found, nothing has been lost before its last LF. *)
LEMMA FrameRead ==
  ASSUME NEW t, NEW q, Len(q) \in Nat, NEW d \in Nat, IsRead(t, q, d),
         NEW arg, Len(arg) \in 0..9, NEW p \in Nat, p >= 4, IsFrame(q, p, arg),
         d <= Len(q) => IsPlain(arg),
         NEW to \in Nat, NextCR(t, to) = p - 1, p <= d, Bulk(t, to) # NULL
  PROVE  /\ p + 6 + Len(arg) <= d
         /\ Bulk(t, to) = [from |-> p + 5, to |-> p + 5 + Len(arg)]
         /\ NextCR(t, p + 5 + Len(arg)) = p + 5 + Len(arg)
<1>1. PICK n, N, L : n = Len(t) /\ N = Len(q) /\ L = Len(arg)
  OBVIOUS
<1>2. /\ n \in Nat /\ N \in Nat /\ L \in 0..9
      /\ \A x \in 1..n : x < d /\ x <= N => t[x] = q[x]
      /\ \A x \in 1..n : d <= x /\ x < N => t[x] = q[x + 1]
  BY <1>1 DEF IsRead
<1>3. /\ p + 6 + L <= N
      /\ q[p + 1] = Dollar /\ q[p + 2] = Zero + L /\ q[p + 3] = CR /\ q[p + 4] = LF
      /\ L >= 1 => q[p + 5] = arg[1]
      /\ q[p + 6 + L] = LF
  <2>1. /\ p + 6 + L <= N
        /\ q[p + 1] = Dollar /\ q[p + 2] = Zero + L /\ q[p + 3] = CR /\ q[p + 4] = LF
        /\ \A j \in 1..L : q[p + 4 + j] = arg[j]
        /\ q[p + 6 + L] = LF
    BY <1>1 DEF IsFrame
  <2>2. L >= 1 => q[p + 4 + 1] = arg[1]
    BY <1>2, <2>1
  <2> QED
    BY <2>1, <2>2
<1>4. PICK l \in Nat, cr \in Nat : IsFound(t, to, l, cr)
  BY <1>1, <1>2, BulkIs
<1>5. /\ p + 1 <= n /\ t[p] = LF /\ t[p + 1] = Dollar
      /\ l = getRespInt(t, p + 2) /\ IsLegal(t, p + 2, cr)
      /\ cr + 2 + l + 1 <= n /\ t[cr + 2 + l] = CR
      /\ Bulk(t, to) = [from |-> cr + 2, to |-> cr + 2 + l]
  <2>1. NextCR(t, to) + 2 = p + 1 /\ p + 1 - 1 = p /\ p + 1 + 1 = p + 2
    OBVIOUS
  <2> QED
    BY <1>1, <1>4, <2>1 DEF IsFound
<1>6. /\ p + 2 <= cr /\ cr <= n /\ t[cr] = CR
      /\ \A j \in (p + 2)..n : t[j] = CR => cr <= j
      /\ \A j \in (p + 2)..(cr - 1) : t[j] \in 48..57
      /\ cr < n => t[cr + 1] = LF
  BY <1>1, <1>5 DEF IsLegal, IsCR, IsNumber, EndsLine, Zero
<1>a. /\ n \in Nat /\ N \in Nat /\ L \in 0..9 /\ p \in Nat /\ p >= 4 /\ d \in Nat
      /\ p + 6 + L <= N /\ p + 1 <= n /\ p + 2 <= cr /\ cr <= n
      /\ l \in Nat /\ cr \in Nat /\ cr + 2 + l + 1 <= n
  <2>1. p + 1 <= n /\ cr + 2 + l + 1 <= n
    BY ONLY <1>5
  <2>2. p + 6 + L <= N /\ p + 2 <= cr /\ cr <= n
    BY ONLY <1>3, <1>6
  <2> QED
    BY ONLY <1>2, <2>1, <2>2, p \in Nat, p >= 4, d \in Nat, l \in Nat, cr \in Nat
<1>b. t[p] = LF /\ t[p + 1] = Dollar /\ t[cr + 2 + l] = CR
  BY ONLY <1>5
<1>7. d # p
  <2> SUFFICES ASSUME d = p PROVE FALSE
    OBVIOUS
  <2>1. p \in 1..n /\ p < N
    BY ONLY <1>a
  <2>2. t[p] = q[p + 1]
    BY ONLY <1>2, <2>1, d = p
  <2> QED
    BY ONLY <1>3, <1>b, <2>2 DEF LF, Dollar
<1>8. d # p + 1
  <2> SUFFICES ASSUME d = p + 1 PROVE FALSE
    OBVIOUS
  <2>1. p + 1 \in 1..n /\ p + 1 < N /\ p + 1 + 1 = p + 2
    BY ONLY <1>a
  <2>2. t[p + 1] = q[p + 1 + 1]
    BY ONLY <1>2, <2>1, d = p + 1, d \in Nat
  <2>3. Zero + L = Dollar
    BY ONLY <1>3, <1>b, <2>1, <2>2
  <2> QED
    BY ONLY <1>a, <2>3 DEF Dollar, Zero
<1>9. d # p + 2
  <2> SUFFICES ASSUME d = p + 2 PROVE FALSE
    OBVIOUS
  <2>1. p + 2 \in 1..n /\ p + 2 < N /\ p + 2 + 1 = p + 3
    BY ONLY <1>a
  <2>2. t[p + 2] = CR
    BY <1>2, <1>3, <2>1
  <2>3. cr = p + 2
    BY <1>2, <1>6, <2>1, <2>2
  <2>4. l = 0
    <3>1. Len(t) \in Nat /\ p + 2 \in Nat
      BY <1>1, <1>2
    <3> QED
      BY <1>5, <2>3, <3>1, RespIntAt
  <2>5. t[p + 4] = CR /\ p + 4 \in 1..n /\ p + 4 < N /\ p + 4 + 1 = p + 5
    <3>1. cr + 2 + l = p + 4
      BY <2>3, <2>4
    <3>2. p + 4 \in 1..n /\ p + 4 < N /\ p + 4 + 1 = p + 5
      BY ONLY <1>a, <2>3, <2>4
    <3> QED
      BY ONLY <1>b, <3>1, <3>2
  <2>6. t[p + 4] = q[p + 4 + 1]
    BY ONLY <1>2, <1>a, <2>5, d = p + 2
  <2>7. IsPlain(arg)
    BY <1>1, <1>a, <2>1
  <2> QED
    BY <1>1, <1>3, <2>5, <2>6, <2>7 DEF IsPlain
<1>10. d >= p + 3
  BY <1>7, <1>8, <1>9
<1>11. t[p + 2] = Zero + L /\ cr >= p + 3
  <2>1. p + 2 \in 1..n /\ p + 2 <= N /\ p + 2 < d
    BY <1>2, <1>3, <1>6, <1>10
  <2>2. t[p + 2] = Zero + L
    BY <1>2, <1>3, <2>1
  <2>3. Zero + L # CR
    BY <1>2 DEF Zero, CR
  <2>4. cr # p + 2
    BY <1>6, <2>2, <2>3
  <2> QED
    BY <1>6, <2>2, <2>4
<1>12. d # p + 3
  <2> SUFFICES ASSUME d = p + 3 PROVE FALSE
    OBVIOUS
  <2>1. p + 3 \in 1..n /\ p + 3 < N /\ p + 3 + 1 = p + 4
    BY <1>2, <1>3, <1>6, <1>11, SMTT(20)
  <2>2. t[p + 3] = LF
    BY <1>2, <1>3, <2>1
  <2>3. cr # p + 3
    BY <1>6, <2>2 DEF CR, LF
  <2>4. p + 3 \in (p + 2)..(cr - 1)
    BY <1>11, <2>3
  <2> QED
    BY <1>6, <2>2, <2>4, SMTT(20) DEF LF
<1>13. cr = p + 3 /\ l = L
  <2>1. p + 3 \in 1..n /\ p + 3 <= N /\ p + 3 < d
    BY <1>2, <1>3, <1>6, <1>10, <1>11, <1>12, SMTT(20)
  <2>2. t[p + 3] = CR
    BY <1>2, <1>3, <2>1
  <2>3. cr = p + 3
    BY <1>6, <1>11, <2>1, <2>2
  <2>4. l = t[p + 2] - Zero
    <3>1. Len(t) \in Nat /\ p + 2 \in Nat /\ cr = p + 2 + 1
      BY <1>1, <1>2, <2>3
    <3> QED
      BY <1>5, <3>1, RespIntAt
  <2>5. l = L
    BY <1>2, <1>11, <2>4 DEF Zero
  <2> QED
    BY <2>3, <2>5
<1>14. p + 6 + L <= n /\ t[p + 4] = LF /\ t[p + 5 + L] = CR
  <2>1. cr + 2 + l + 1 = p + 6 + L /\ cr + 2 + l = p + 5 + L /\ cr + 1 = p + 4
    BY <1>2, <1>13
  <2>2. p + 6 + L <= n /\ t[p + 5 + L] = CR
    BY <1>5, <2>1
  <2>3. cr < n
    BY <1>2, <1>13, <2>2
  <2> QED
    BY <1>6, <2>1, <2>2, <2>3
<1>16. p + 6 + L <= d
  <2> SUFFICES ASSUME ~(p + 6 + L <= d) PROVE FALSE
    OBVIOUS
  <2>1. p + 5 + L \in 1..n /\ p + 5 + L < N /\ p + 5 + L + 1 = p + 6 + L /\ d <= p + 5 + L
    BY <1>2, <1>3, <1>14
  <2>2. t[p + 5 + L] = q[p + 6 + L]
    BY <1>2, <2>1
  <2> QED
    BY <1>3, <1>14, <2>2 DEF CR, LF
<1>17. Bulk(t, to) = [from |-> p + 5, to |-> p + 5 + L]
  <2>1. cr + 2 = p + 5 /\ cr + 2 + l = p + 5 + L
    BY <1>2, <1>13
  <2> QED
    BY <1>5, <2>1
<1>18. NextCR(t, p + 5 + L) = p + 5 + L
  <2>1. IsCR(t, p + 5 + L, p + 5 + L)
    BY <1>1, <1>2, <1>14, SMTT(20) DEF IsCR
  <2>2. p + 5 + L \in Nat /\ Len(t) \in Nat
    BY <1>1, <1>2
  <2> QED
    BY <2>1, <2>2, NextCRAt
<1> QED
  BY <1>1, <1>16, <1>17, <1>18

(* The number of arguments is read for what it is, or for none at all.     *)
LEMMA StarRead ==
  ASSUME NEW t, NEW q, Len(q) \in Nat, Len(q) >= 4, NEW d \in Nat, d >= 2, IsRead(t, q, d),
         NEW K \in 0..9, q[2] = Zero + K, q[3] = CR, q[4] = LF, getRespInt(t, 2) # -1
  PROVE  \/ getRespInt(t, 2) = 0 /\ NextCR(t, 2) = 2
         \/ getRespInt(t, 2) = K /\ NextCR(t, 2) = 3 /\ d >= 4
<1>1. PICK n, N, cr : n = Len(t) /\ N = Len(q) /\ cr = NextCR(t, 2)
  OBVIOUS
<1>2. /\ n \in Nat /\ N \in Nat /\ N >= 4
      /\ \A x \in 1..n : x < d /\ x <= N => t[x] = q[x]
      /\ \A x \in 1..n : d <= x /\ x < N => t[x] = q[x + 1]
  BY <1>1 DEF IsRead
<1>3. IsLegal(t, 2, cr)
  BY <1>1, <1>2, RespIntIs
<1>4. /\ cr \in 2..n /\ t[cr] = CR
      /\ \A j \in 2..n : t[j] = CR => cr <= j
      /\ \A j \in 2..(cr - 1) : t[j] \in 48..57
  BY <1>1, <1>3 DEF IsLegal, IsCR, IsNumber, Zero
<1>5. CASE d = 2
  <2>1. 2 \in 1..n /\ 2 < N /\ 2 + 1 = 3
    BY <1>2, <1>4
  <2>2. t[2] = CR
    BY <1>2, <1>5, <2>1
  <2>3. cr = 2
    BY <1>2, <1>4, <2>2
  <2> QED
    BY <1>1, <1>2, <1>3, <2>3, RespIntAt
<1>6. CASE d # 2
  <2>1. t[2] = Zero + K /\ cr >= 3
    <3>1. 2 \in 1..n /\ 2 < d /\ 2 <= N
      BY <1>2, <1>4, <1>6
    <3>2. t[2] = Zero + K /\ Zero + K # CR
      BY <1>2, <3>1 DEF Zero, CR
    <3> QED
      BY <1>4, <3>2
  <2>2. d # 3
    <3> SUFFICES ASSUME d = 3 PROVE FALSE
      OBVIOUS
    <3>1. 3 \in 1..n /\ 3 < N /\ 3 + 1 = 4
      BY <1>2, <1>4, <2>1
    <3>2. t[3] = LF
      BY <1>2, <3>1
    <3>3. cr # 3
      BY <1>4, <3>2 DEF CR, LF
    <3>4. 3 \in 2..(cr - 1)
      BY <1>4, <2>1, <3>3
    <3>5. t[3] \in 48..57
      BY ONLY <1>4, <3>4
    <3> QED
      BY ONLY <3>2, <3>5 DEF LF
  <2>3. d >= 4
    BY <1>6, <2>2
  <2>4. 3 \in 1..n /\ 3 < d /\ 3 <= N
    BY <1>2, <1>4, <2>1, <2>3
  <2>5. t[3] = CR
    BY <1>2, <2>4
  <2>6. cr = 3
    BY <1>4, <2>1, <2>4, <2>5
  <2>7. getRespInt(t, 2) = t[2] - Zero
    <3>1. cr = 2 + 1
      BY <2>6
    <3> QED
      BY <1>1, <1>2, <1>3, <3>1, RespIntAt
  <2> QED
    BY <1>1, <2>1, <2>3, <2>6, <2>7 DEF Zero
<1> QED
  BY <1>5, <1>6

(* So it is read for a request when it is the whole message, undamaged,    *)
(* and for none when it is the Star and a line's end.                      *)
LEMMA RespRead ==
  ASSUME NEW args, Len(args) \in 0..9, \A i \in 1..Len(args) : Len(args[i]) \in 0..9,
         NEW q, NEW b, IsQuery(q, b, args), NEW t, NEW d \in Nat, d >= 2, IsRead(t, q, d),
         d <= Len(q) => \A i \in 1..Len(args) : IsPlain(args[i]),
         respTokenizer(t) # NULL
  PROVE  \/ respTokenizer(t) = <<>> /\ Len(t) = 3
         \/ Len(t) = Len(q) /\ d > Len(q)
<1>1. PICK K \in 0..9 : K = Len(args)
  OBVIOUS
<1>2. /\ Len(q) \in Nat /\ b \in [0..K -> Nat] /\ b[0] = 4 /\ Len(q) = b[K] /\ Len(q) >= 4
      /\ q[2] = Zero + K /\ q[3] = CR /\ q[4] = LF
      /\ \A i \in 1..K : b[i] = b[i - 1] + 6 + Len(args[i]) /\ IsFrame(q, b[i - 1], args[i])
  BY <1>1 DEF IsQuery
<1>3. PICK count, bulks : count = getRespInt(t, 2) /\ bulks = Bulks(t, count)
  OBVIOUS
<1>4. /\ count # -1 /\ bulks[count] # NULL /\ IsLast(t, bulks[count].to)
      /\ respTokenizer(t) = ArgsOf(t, bulks, count)
  BY <1>3 DEF respTokenizer
<1>5. Len(t) \in Nat
  BY DEF IsRead
<1>6. \/ count = 0 /\ NextCR(t, 2) = 2
      \/ count = K /\ NextCR(t, 2) = 3 /\ d >= 4
  BY <1>2, <1>3, <1>4, StarRead
<1>7. AreBulks(t, count, bulks) /\ count \in Nat
  BY <1>3, <1>5, <1>6, BulksAre
<1>8. bulks[0] = [from |-> 2, to |-> 2]
  BY <1>7 DEF AreBulks
<1>9. CASE count = 0 /\ NextCR(t, 2) = 2
  <2>1. bulks[count].to = 2
    BY <1>8, <1>9
  <2>3. 2 = Len(t) - 1
    BY ONLY <1>4, <1>9, <2>1 DEF IsLast
  <2>4. Len(t) = 3
    BY ONLY <1>5, <2>3
  <2>2. ArgsOf(t, bulks, count) = <<>>
    BY <1>9 DEF ArgsOf
  <2> QED
    BY <1>4, <2>2, <2>4
<1>10. CASE count = K /\ NextCR(t, 2) = 3 /\ d >= 4
  <2> DEFINE T == {i \in 0..K : /\ b[i] >= 4 /\ b[i] <= d
                                /\ bulks[i].to \in Nat /\ NextCR(t, bulks[i].to) = b[i] - 1}
  <2>1. 0 \in T
    <3>1. b[0] = 4 /\ 0 \in 0..K
      BY ONLY <1>2
    <3>2. bulks[0].to = 2
      BY ONLY <1>8
    <3>3. 4 >= 4 /\ 4 <= d /\ 2 \in Nat /\ NextCR(t, 2) = 4 - 1
      BY ONLY <1>10
    <3> QED
      BY ONLY <3>1, <3>2, <3>3
  <2>2. ASSUME NEW i \in 1..K, i - 1 \in T
        PROVE  i \in T
    <3>1. PICK p, to, arg : p = b[i - 1] /\ to = bulks[i - 1].to /\ arg = args[i]
      OBVIOUS
    <3>2. p \in Nat /\ p >= 4 /\ p <= d /\ to \in Nat /\ NextCR(t, to) = p - 1
      BY <1>2, <2>2, <3>1
    <3>3. IsFrame(q, p, arg) /\ b[i] = p + 6 + Len(arg) /\ Len(arg) \in 0..9
      BY <1>1, <1>2, <3>1
    <3>4. bulks[i] # NULL /\ bulks[i - 1] # NULL
      <4>1. i \in 0..count /\ i - 1 \in 0..count
        BY <1>10
      <4> QED
        BY <1>4, <1>7, <4>1, AllFound
    <3>5. bulks[i] = Bulk(t, to)
      BY <1>7, <1>10, <3>1, <3>4 DEF AreBulks, NextBulk
    <3>6. Len(q) \in Nat /\ (d <= Len(q) => IsPlain(arg)) /\ Bulk(t, to) # NULL
      BY <1>1, <1>2, <3>1, <3>4, <3>5
    <3>7. /\ p + 6 + Len(arg) <= d
          /\ Bulk(t, to) = [from |-> p + 5, to |-> p + 5 + Len(arg)]
          /\ NextCR(t, p + 5 + Len(arg)) = p + 5 + Len(arg)
      BY <3>2, <3>3, <3>6, FrameRead
    <3>8. bulks[i].to = p + 5 + Len(arg)
      BY <3>5, <3>7
    <3>9. b[i] - 1 = p + 5 + Len(arg) /\ b[i] >= 4 /\ p + 5 + Len(arg) \in Nat
      BY <3>2, <3>3
    <3> QED
      BY <3>3, <3>7, <3>8, <3>9
  <2>3. K \in T
    <3>1. K \in Nat /\ K \in 0..K
      OBVIOUS
    <3>2. \A i \in 0..K : i \in T
      <4> HIDE DEF T
      <4> QED
        BY <2>1, <2>2, <3>1, UpTo
    <3> QED
      BY <3>1, <3>2
  <2>4. b[K] - 1 = Len(t) - 1 /\ t[Len(t)] = LF
    BY <1>4, <1>10, <2>3 DEF IsLast
  <2>5. Len(t) = Len(q)
    BY <1>2, <1>5, <2>4
  <2>6. ~(d <= Len(q))
    BY <1>2, <2>4, <2>5 DEF IsRead
  <2> QED
    BY <1>2, <2>5, <2>6
<1> QED
  BY <1>6, <1>9, <1>10

LEMMA FrameIntact ==
  ASSUME NEW q, Len(q) \in Nat, NEW arg, Len(arg) \in 0..9, NEW p \in Nat, p >= 4,
         IsFrame(q, p, arg), q[p] = LF, NEW to \in Nat, NextCR(q, to) = p - 1
  PROVE  /\ Bulk(q, to) = [from |-> p + 5, to |-> p + 5 + Len(arg)]
         /\ NextCR(q, p + 5 + Len(arg)) = p + 5 + Len(arg)
<1>1. PICK n, L : n = Len(q) /\ L = Len(arg)
  OBVIOUS
<1>2. /\ n \in Nat /\ L \in 0..9 /\ p + 6 + L <= n
      /\ q[p + 1] = Dollar /\ q[p + 2] = Zero + L /\ q[p + 3] = CR /\ q[p + 4] = LF
      /\ q[p + 5 + L] = CR
  BY <1>1 DEF IsFrame
<1>3. IsLegal(q, p + 2, p + 3)
  <2>1. IsCR(q, p + 2, p + 3)
    <3>1. p + 3 \in (p + 2)..n
      BY <1>2
    <3>2. Zero + L # CR
      BY <1>2 DEF Zero, CR
    <3>3. ASSUME NEW j \in (p + 2)..n, q[j] = CR PROVE p + 3 <= j
      <4>1. j # p + 2
        BY <1>2, <3>2, <3>3
      <4> QED
        BY <4>1
    <3> QED
      BY <1>1, <1>2, <3>1, <3>3 DEF IsCR
  <2>2. IsNumber(q, p + 2, p + 3)
    <3>1. \A j \in (p + 2)..(p + 3 - 1) : j = p + 2
      OBVIOUS
    <3>2. Zero + L \in Zero..(Zero + 9)
      BY <1>2 DEF Zero
    <3> QED
      BY <1>2, <3>1, <3>2 DEF IsNumber
  <2>3. EndsLine(q, p + 3)
    <3>1. p + 3 + 1 = p + 4
      OBVIOUS
    <3> QED
      BY <1>2, <3>1 DEF EndsLine
  <2> QED
    BY <2>1, <2>2, <2>3 DEF IsLegal
<1>4. NextCR(q, p + 2) = p + 3 /\ getRespInt(q, p + 2) = L
  <2>1. p + 2 \in Nat /\ p + 3 = p + 2 + 1
    OBVIOUS
  <2>2. NextCR(q, p + 2) = p + 3 /\ getRespInt(q, p + 2) = q[p + 2] - Zero
    BY <1>3, <2>1, RespIntAt
  <2> QED
    BY <1>2, <2>2 DEF Zero
<1>5. Bulk(q, to) = [from |-> p + 5, to |-> p + 5 + L]
  <2>1. NextCR(q, to) + 2 = p + 1 /\ p + 1 - 1 = p /\ p + 1 + 1 = p + 2
    OBVIOUS
  <2>2. NextCR(q, p + 2) + 2 = p + 5 /\ p + 5 + L + 1 <= n /\ p + 1 <= n /\ L # -1
    BY <1>2, <1>4
  <2>3. PICK dollar, from : dollar = p + 1 /\ from = p + 5
    OBVIOUS
  <2>4. /\ dollar = NextCR(q, to) + 2 /\ from = NextCR(q, dollar + 1) + 2
        /\ L = getRespInt(q, dollar + 1)
        /\ dollar <= Len(q) /\ q[dollar - 1] = LF /\ q[dollar] = Dollar /\ L # -1
        /\ from + L + 1 <= Len(q) /\ q[from + L] = CR
    BY ONLY <1>1, <1>2, <1>4, <2>1, <2>2, <2>3, q[p] = LF
  <2> QED
    BY ONLY <2>3, <2>4 DEF Bulk
<1>6. NextCR(q, p + 5 + L) = p + 5 + L
  <2>1. IsCR(q, p + 5 + L, p + 5 + L)
    BY <1>1, <1>2 DEF IsCR
  <2>2. p + 5 + L \in Nat
    BY <1>2
  <2> QED
    BY <2>1, <2>2, NextCRAt
<1> QED
  BY <1>1, <1>5, <1>6

LEMMA WholeIsRead ==
  ASSUME NEW args \in Seq(Seq(Nat)), Len(args) \in 0..9, \A i \in 1..Len(args) : Len(args[i]) \in 0..9,
         NEW q, NEW b, IsQuery(q, b, args), NULL \notin Spot
  PROVE  respTokenizer(q) = args
<1>1. PICK K \in 0..9 : K = Len(args)
  OBVIOUS
<1>2. /\ q \in Seq(Nat) /\ Len(q) \in Nat
      /\ b \in [0..K -> Nat] /\ b[0] = 4 /\ Len(q) = b[K] /\ Len(q) >= 4
      /\ q[1] = Star /\ q[2] = Zero + K /\ q[3] = CR /\ q[4] = LF
      /\ \A i \in 1..K : b[i] = b[i - 1] + 6 + Len(args[i]) /\ IsFrame(q, b[i - 1], args[i])
  BY <1>1 DEF IsQuery
<1>3. IsLegal(q, 2, 3)
  <2>1. IsCR(q, 2, 3)
    <3>1. Zero + K # CR
      BY DEF Zero, CR
    <3>2. 3 \in 2..Len(q)
      BY <1>2
    <3>3. ASSUME NEW j \in 2..Len(q), q[j] = CR PROVE 3 <= j
      <4>1. j # 2
        BY <1>2, <3>1, <3>3
      <4> QED
        BY <4>1
    <3> QED
      BY <1>2, <3>2, <3>3 DEF IsCR
  <2>2. IsNumber(q, 2, 3)
    <3>1. \A j \in 2..(3 - 1) : j = 2
      OBVIOUS
    <3>2. Zero + K \in Zero..(Zero + 9)
      BY DEF Zero
    <3> QED
      BY <1>2, <3>1, <3>2 DEF IsNumber
  <2>3. EndsLine(q, 3)
    BY <1>2 DEF EndsLine
  <2> QED
    BY <2>1, <2>2, <2>3 DEF IsLegal
<1>4. NextCR(q, 2) = 3 /\ getRespInt(q, 2) = K
  <2>1. 3 = 2 + 1 /\ 2 \in Nat
    OBVIOUS
  <2>2. NextCR(q, 2) = 3 /\ getRespInt(q, 2) = q[2] - Zero
    BY <1>2, <1>3, <2>1, RespIntAt
  <2> QED
    BY <1>2, <2>2 DEF Zero
<1>5. PICK bulks : bulks = Bulks(q, K)
  OBVIOUS
<1>6. AreBulks(q, K, bulks)
  <2>1. Len(q) \in Nat /\ K \in Nat
    BY <1>2
  <2>2. AreBulks(q, K, Bulks(q, K))
    BY ONLY <2>1, BulksAre
  <2> QED
    BY <1>5, <2>2
<1>7. bulks[0] = [from |-> 2, to |-> 2] /\ \A i \in 1..K : bulks[i] = NextBulk(q, bulks[i - 1])
  BY <1>6 DEF AreBulks
<1> DEFINE T == {i \in 0..K : /\ b[i] >= 4 /\ q[b[i]] = LF
                              /\ bulks[i] # NULL /\ bulks[i].to \in Nat
                              /\ NextCR(q, bulks[i].to) = b[i] - 1}
<1>8. 0 \in T
  <2>1. bulks[0] \in Spot
    BY <1>7 DEF Spot
  <2>2. bulks[0] # NULL
    BY <2>1
  <2>3. bulks[0].to = 2
    BY <1>7
  <2>4. b[0] >= 4 /\ q[b[0]] = LF /\ b[0] - 1 = 3 /\ 2 \in Nat /\ 0 \in 0..K
    BY ONLY <1>2, K \in 0..9
  <2> QED
    BY ONLY <1>4, <2>2, <2>3, <2>4
<1>9. ASSUME NEW i \in 1..K, i - 1 \in T
      PROVE  /\ i \in T
             /\ bulks[i] = [from |-> b[i - 1] + 5, to |-> b[i - 1] + 5 + Len(args[i])]
  <2>1. PICK p, to, arg : p = b[i - 1] /\ to = bulks[i - 1].to /\ arg = args[i]
    OBVIOUS
  <2>2. /\ p \in Nat /\ p >= 4 /\ q[p] = LF /\ to \in Nat /\ NextCR(q, to) = p - 1
        /\ bulks[i - 1] # NULL
    BY <1>2, <1>9, <2>1
  <2>3. IsFrame(q, p, arg) /\ b[i] = p + 6 + Len(arg) /\ Len(arg) \in 0..9
    BY <1>1, <1>2, <2>1
  <2>4. Bulk(q, to) = [from |-> p + 5, to |-> p + 5 + Len(arg)]
        /\ NextCR(q, p + 5 + Len(arg)) = p + 5 + Len(arg)
    <3>1. Len(q) \in Nat
      BY <1>2
    <3> QED
      BY ONLY <2>2, <2>3, <3>1, FrameIntact
  <2>5. bulks[i] = [from |-> p + 5, to |-> p + 5 + Len(arg)]
    BY <1>7, <2>1, <2>2, <2>4 DEF NextBulk
  <2>6. bulks[i] \in Spot
    <3>1. p + 5 \in Nat /\ p + 5 + Len(arg) \in Nat
      BY <2>2, <2>3
    <3> QED
      BY <2>5, <3>1 DEF Spot
  <2>7. b[i] >= 4 /\ b[i] - 1 = p + 5 + Len(arg) /\ p + 5 + Len(arg) \in Nat
    BY <2>2, <2>3
  <2>8. q[b[i]] = LF
    BY <2>3 DEF IsFrame
  <2>9. bulks[i].to = p + 5 + Len(arg) /\ bulks[i] # NULL
    BY <2>5, <2>6
  <2> QED
    BY <2>1, <2>4, <2>5, <2>7, <2>8, <2>9
<1>10. \A i \in 0..K : i \in T
  <2>1. \A i \in 1..K : i - 1 \in T => i \in T
    <3> HIDE DEF T
    <3> QED
      BY <1>9
  <2>2. K \in Nat
    OBVIOUS
  <2> HIDE DEF T
  <2> QED
    BY ONLY <1>8, <2>1, <2>2, UpTo
<1>11. \A i \in 1..K : bulks[i] = [from |-> b[i - 1] + 5, to |-> b[i - 1] + 5 + Len(args[i])]
  <2>1. \A i \in 1..K : i - 1 \in 0..K
    OBVIOUS
  <2> HIDE DEF T
  <2> QED
    BY <1>9, <1>10, <2>1
<1>12. bulks[K] # NULL /\ IsLast(q, bulks[K].to)
  <2>1. K \in T
    <3>1. K \in 0..K
      OBVIOUS
    <3> HIDE DEF T
    <3> QED
      BY <1>10, <3>1
  <2> QED
    BY <1>2, <2>1 DEF IsLast
<1>13. respTokenizer(q) = ArgsOf(q, bulks, K)
  <2>1. K # -1
    OBVIOUS
  <2> QED
    BY <1>4, <1>5, <1>12, <2>1 DEF respTokenizer
<1>14. ASSUME NEW i \in 1..K
       PROVE  SubSeq(q, bulks[i].from, bulks[i].to - 1) = args[i]
  <2>1. PICK m, L, arg : m = b[i - 1] + 5 /\ L = Len(arg) /\ arg = args[i]
    OBVIOUS
  <2>2. m \in Nat /\ L \in Nat /\ m > 0 /\ arg \in Seq(Nat)
    <3>1. i - 1 \in 0..K
      OBVIOUS
    <3>2. b[i - 1] \in Nat
      BY ONLY <1>2, <3>1
    <3>3. arg \in Seq(Nat)
      BY <1>1, <2>1, ElementOfSeq
    <3> QED
      BY <2>1, <3>2, <3>3
  <2>3. bulks[i].from = m /\ bulks[i].to - 1 = m + L - 1
    <3>1. bulks[i] = [from |-> m, to |-> m + L]
      BY <1>11, <2>1
    <3>2. bulks[i].from = m /\ bulks[i].to = m + L
      BY ONLY <3>1
    <3> QED
      BY ONLY <2>2, <3>2
  <2>4. \A j \in 1..L : q[m + j - 1] = arg[j]
    <3> TAKE j \in 1..L
    <3>1. IsFrame(q, b[i - 1], arg)
      BY <1>2, <2>1
    <3>2. q[b[i - 1] + 4 + j] = arg[j]
      BY <2>1, <3>1 DEF IsFrame
    <3>3. b[i - 1] + 4 + j = m + j - 1
      <4>1. i - 1 \in 0..K
        OBVIOUS
      <4>2. b[i - 1] \in Nat
        BY ONLY <1>2, <4>1
      <4>3. m = b[i - 1] + 5
        BY ONLY <2>1
      <4> QED
        BY ONLY <4>2, <4>3, j \in 1..L
    <3> QED
      BY <3>2, <3>3
  <2>5. \A x \in m..(m + L - 1) : q[x] \in Nat
    <3> TAKE x \in m..(m + L - 1)
    <3>1. PICK j : j = x - m + 1
      OBVIOUS
    <3>2. j \in 1..L /\ m + j - 1 = x
      BY <2>2, <3>1
    <3>3. q[x] = arg[j]
      BY <2>4, <3>2
    <3>4. arg[j] \in Nat
      BY ONLY <2>1, <2>2, <3>2, ElementOfSeq
    <3> QED
      BY <3>3, <3>4
  <2>6. m \in Int /\ m + L - 1 \in Int
    BY <2>2
  <2>7. PICK u, z : z = m + L - 1 /\ u = SubSeq(q, m, z)
    OBVIOUS
  <2>8. /\ u \in Seq(Nat)
        /\ Len(u) = IF m <= z THEN z - m + 1 ELSE 0
        /\ \A j \in 1..(z - m + 1) : u[j] = q[m + j - 1]
    <3>1. m \in Int /\ z \in Int /\ \A x \in m..z : q[x] \in Nat
      BY ONLY <2>5, <2>6, <2>7
    <3>2. /\ SubSeq(q, m, z) \in Seq(Nat)
          /\ Len(SubSeq(q, m, z)) = IF m <= z THEN z - m + 1 ELSE 0
          /\ \A j \in 1..(z - m + 1) : SubSeq(q, m, z)[j] = q[m + j - 1]
      BY ONLY <3>1, SubSeqProperties
    <3> QED
      BY ONLY <2>7, <3>2
  <2>9. Len(u) = L /\ z - m + 1 = L
    BY ONLY <2>2, <2>7, <2>8
  <2>10. \A j \in 1..L : u[j] = arg[j]
    BY ONLY <2>4, <2>8, <2>9
  <2>11. u = arg
    BY ONLY <2>1, <2>2, <2>8, <2>9, <2>10, SeqEqual
  <2> QED
    BY <2>1, <2>3, <2>7, <2>11
<1>15. ArgsOf(q, bulks, K) = [i \in 1..K |-> args[i]]
  BY <1>14 DEF ArgsOf
<1>16. args = [i \in 1..K |-> args[i]]
  BY <1>1
<1> QED
  BY <1>13, <1>15, <1>16

-----------------------------------------------------------------------------
(* The words of a line                                                     *)

NextWords(s, i, before) ==
  IF s[i] \in Blank THEN before
  ELSE IF i = 1 \/ s[i - 1] \in Blank THEN Append(before, <<s[i]>>)
  ELSE Front(before) \o <<Append(Last(before), s[i])>>

AreWords(s, words) == words[0] = <<>> /\ \A i \in 1..Len(s) : words[i] = NextWords(s, i, words[i - 1])

LEMMA FrontLast ==
  ASSUME NEW D, NEW s \in Seq(D), s # <<>>
  PROVE  Front(s) \in Seq(D) /\ Last(s) \in D /\ s = Append(Front(s), Last(s))
<1>1. PICK n : n = Len(s)
  OBVIOUS
<1>2. n \in Nat /\ n >= 1
  BY <1>1
<1>3. PICK f, e : f = SubSeq(s, 1, n - 1) /\ e = s[n]
  OBVIOUS
<1>4. Front(s) = f /\ Last(s) = e
  BY <1>1, <1>3 DEF Front, Last
<1>5. /\ f \in Seq(D) /\ Len(f) = (IF 1 <= n - 1 THEN n - 1 - 1 + 1 ELSE 0)
      /\ \A i \in 1..(n - 1 - 1 + 1) : f[i] = s[1 + i - 1]
  <2>1. \A i \in 1..(n - 1) : s[i] \in D
    BY <1>1, <1>2
  <2>2. 1 \in Int /\ n - 1 \in Int
    BY <1>2
  <2> QED
    BY ONLY <1>3, <2>1, <2>2, SubSeqProperties
<1>6. e \in D
  BY <1>1, <1>2, <1>3
<1>7. PICK a : a = Append(f, e)
  OBVIOUS
<1>8. /\ a \in Seq(D) /\ Len(a) = Len(f) + 1
      /\ \A i \in 1..Len(f) : a[i] = f[i]
      /\ a[Len(f) + 1] = e
  BY ONLY <1>5, <1>6, <1>7, AppendProperties
<1>9. Len(f) = n - 1
  BY <1>2, <1>5
<1>10. \A i \in 1..n : s[i] = a[i]
  <2> TAKE i \in 1..n
  <2>1. CASE i = n
    BY <1>2, <1>3, <1>8, <1>9, <2>1
  <2>2. CASE i # n
    <3>1. i \in 1..(n - 1 - 1 + 1) /\ i \in 1..Len(f) /\ 1 + i - 1 = i
      BY <1>2, <1>9, <2>2
    <3> QED
      BY ONLY <1>5, <1>8, <3>1
  <2> QED
    BY <2>1, <2>2
<1>11. Len(a) = n
  BY <1>2, <1>8, <1>9
<1>12. s = a
  BY ONLY s \in Seq(D), <1>1, <1>8, <1>10, <1>11, SeqEqual
<1> QED
  BY <1>4, <1>5, <1>6, <1>7, <1>12

LEMMA FrontLastOf ==
  ASSUME NEW D, NEW s \in Seq(D), NEW e \in D
  PROVE  Front(Append(s, e)) = s /\ Last(Append(s, e)) = e
<1>1. PICK a : a = Append(s, e)
  OBVIOUS
<1>2. a \in Seq(D) /\ a # <<>>
  BY ONLY <1>1, s \in Seq(D), e \in D, AppendProperties
<1>3. PICK f, l : f = Front(a) /\ l = Last(a)
  OBVIOUS
<1>4. f \in Seq(D) /\ l \in D /\ a = Append(f, l)
  BY ONLY <1>2, <1>3, FrontLast
<1>5. Append(s, e) = Append(f, l) <=> s = f /\ e = l
  BY ONLY <1>4, s \in Seq(D), e \in D, AppendInjective
<1> QED
  BY <1>1, <1>3, <1>4, <1>5

LEMMA WordsAre ==
  ASSUME NEW s \in Seq(Nat)
  PROVE  \E words : AreWords(s, words) /\ simpleTokenizer(s) = words[Len(s)]
<1>a. PICK n \in Nat : n = Len(s) /\ \A i \in 1..n : s[i] \in Nat
  OBVIOUS
<1>b. PICK D : D = Seq(Seq(Nat))
  OBVIOUS
<1>1. n = Len(s) /\ D = Seq(Seq(Nat)) /\ \A i \in 1..n : s[i] \in Nat
  BY ONLY <1>a, <1>b
<1> DEFINE words == CHOOSE f : f = [i \in 0..n |-> IF i = 0 THEN <<>> ELSE NextWords(s, i, f[i - 1])]
<1>2. simpleTokenizer(s) = words[n]
  BY <1>1 DEF simpleTokenizer, NextWords
<1> DEFINE Goes(i) == s[i] \notin Blank /\ ~(i = 1 \/ s[i - 1] \in Blank)
           Safe(i, before) == IF Goes(i) /\ before = <<>> THEN <<>> ELSE NextWords(s, i, before)
<1>3. <<>> \in D
  BY <1>1
<1>4. \A i \in 1..n : \A w \in D : Safe(i, w) \in D
  <2> TAKE i \in 1..n
  <2> TAKE w \in D
  <2>1. CASE s[i] \in Blank
    BY <2>1 DEF NextWords
  <2>2. CASE s[i] \notin Blank /\ (i = 1 \/ s[i - 1] \in Blank)
    <3>1. <<s[i]>> \in Seq(Nat)
      BY <1>1
    <3>2. Append(w, <<s[i]>>) \in D
      BY <1>1, <3>1
    <3> QED
      BY <2>2, <3>2 DEF NextWords
  <2>3. CASE Goes(i)
    <3>1. CASE w = <<>>
      BY <1>3, <2>3, <3>1
    <3>2. CASE w # <<>>
      <4>1. w \in Seq(Seq(Nat))
        BY <1>1
      <4>2. Front(w) \in Seq(Seq(Nat)) /\ Last(w) \in Seq(Nat)
        BY ONLY <3>2, <4>1, FrontLast
      <4>3. Append(Last(w), s[i]) \in Seq(Nat)
        BY <1>1, <4>2
      <4>4. <<Append(Last(w), s[i])>> \in Seq(Seq(Nat))
        BY <4>3
      <4>5. Front(w) \o <<Append(Last(w), s[i])>> \in Seq(Seq(Nat))
        BY ONLY <4>2, <4>4, ConcatProperties
      <4> QED
        BY <1>1, <2>3, <3>2, <4>5 DEF NextWords
    <3> QED
      BY <3>1, <3>2
  <2> QED
    BY <2>1, <2>2, <2>3
<1>5. PICK Step : Step = [x \in D \X (1..n) |-> Safe(x[2], x[1])]
  OBVIOUS
<1> HIDE DEF Safe
<1>6. Step \in [D \X (1..n) -> D]
  BY <1>4, <1>5
<1>7. PICK f \in [0..n -> D] : f[0] = <<>> /\ \A i \in 1..n : f[i] = Step[<<f[i - 1], i>>]
  <2>1. Solvable(n, D, <<>>, Step)
    BY <1>3, <1>6, Solution
  <2> QED
    BY <2>1 DEF Solvable
<1>8. \A i \in 1..n : f[i] = Safe(i, f[i - 1]) /\ f[i - 1] \in D
  <2> TAKE i \in 1..n
  <2>1. f[i - 1] \in D
    BY <1>7
  <2>2. Step[<<f[i - 1], i>>] = Safe(i, f[i - 1])
    BY <1>5, <2>1
  <2> QED
    BY <1>7, <2>1, <2>2
<1> DEFINE T == {i \in 0..n : i = 0 \/ s[i] \in Blank \/ f[i] # <<>>}
<1>9. 0 \in T
  OBVIOUS
<1>10. ASSUME NEW i \in 1..n, i - 1 \in T
       PROVE  i \in T /\ f[i] = NextWords(s, i, f[i - 1])
  <2>1. f[i] = Safe(i, f[i - 1]) /\ f[i - 1] \in D
    BY <1>8
  <2>2. CASE s[i] \in Blank
    BY <2>1, <2>2 DEF Safe
  <2>3. CASE s[i] \notin Blank /\ (i = 1 \/ s[i - 1] \in Blank)
    <3>1. f[i] = NextWords(s, i, f[i - 1]) /\ f[i] = Append(f[i - 1], <<s[i]>>)
      BY <2>1, <2>3 DEF Safe, NextWords
    <3>2. PICK w, e, E : w = f[i - 1] /\ e = <<s[i]>> /\ E = Seq(Nat)
      OBVIOUS
    <3>4. e \in E /\ w \in Seq(E)
      BY <1>1, <2>1, <3>2
    <3>5. Append(w, e) # <<>>
      BY ONLY <3>4, AppendProperties
    <3>3. Append(f[i - 1], <<s[i]>>) # <<>>
      BY ONLY <3>2, <3>5
    <3> QED
      BY <3>1, <3>3
  <2>4. CASE Goes(i)
    <3>1. f[i - 1] # <<>>
      <4>1. i - 1 # 0
        BY <2>4
      <4> QED
        BY <1>10, <2>4, <4>1
    <3>2. f[i] = NextWords(s, i, f[i - 1])
          /\ f[i] = Front(f[i - 1]) \o <<Append(Last(f[i - 1]), s[i])>>
      BY <2>1, <2>4, <3>1 DEF Safe, NextWords
    <3>3. PICK w : w = f[i - 1] /\ w \in Seq(Seq(Nat)) /\ w # <<>>
      BY <1>1, <2>1, <3>1
    <3>4. Front(w) \in Seq(Seq(Nat)) /\ Last(w) \in Seq(Nat)
      BY ONLY <3>3, FrontLast
    <3>a. PICK e : e = Append(Last(w), s[i])
      OBVIOUS
    <3>5. e = Append(Last(w), s[i]) /\ e \in Seq(Nat)
      <4>1. s[i] \in Nat
        BY <1>1
      <4> QED
        BY ONLY <3>4, <3>a, <4>1, AppendProperties
    <3>6. <<e>> \in Seq(Seq(Nat)) /\ Len(<<e>>) = 1
      BY <3>5
    <3>7. Len(Front(w) \o <<e>>) = Len(Front(w)) + Len(<<e>>)
      BY ONLY <3>4, <3>6, ConcatProperties
    <3>8. Len(Front(w)) \in Nat
      BY <3>4
    <3>9. Len(f[i]) > 0
      BY <3>2, <3>3, <3>5, <3>6, <3>7, <3>8
    <3>10. f[i] # <<>>
      BY <3>9
    <3> QED
      BY <3>2, <3>10
  <2> QED
    BY <2>2, <2>3, <2>4
<1>11. \A i \in 1..n : f[i] = NextWords(s, i, f[i - 1])
  <2>1. \A i \in 1..n : i - 1 \in T => i \in T
    BY <1>10
  <2>2. \A i \in 1..n : i - 1 \in 0..n
    OBVIOUS
  <2>3. \A i \in 1..n : i - 1 \in T => f[i] = NextWords(s, i, f[i - 1])
    BY <1>10
  <2> HIDE DEF T
  <2>4. \A i \in 0..n : i \in T
    BY <1>9, <2>1, UpTo
  <2> QED
    BY <2>2, <2>3, <2>4
<1>12. f = [i \in 0..n |-> IF i = 0 THEN <<>> ELSE NextWords(s, i, f[i - 1])]
  BY <1>7, <1>11
<1>13. words = [i \in 0..n |-> IF i = 0 THEN <<>> ELSE NextWords(s, i, words[i - 1])]
  BY <1>12
<1> HIDE DEF words
<1>14. words[0] = <<>> /\ \A i \in 1..n : words[i] = NextWords(s, i, words[i - 1])
  BY <1>13
<1> QED
  BY <1>1, <1>2, <1>14 DEF AreWords

(* Word i of q is behind o, the words one behind the other.                *)
Start(at, i) == IF i = 1 THEN 0 ELSE at[i - 1] + 1

IsLine(q, at, args) ==
  /\ q \in Seq(Nat) /\ at \in [0..Len(args) -> Nat] /\ at[0] = 0 /\ Len(q) = at[Len(args)] + 2
  /\ q[at[Len(args)] + 1] = CR /\ q[at[Len(args)] + 2] = LF
  /\ \A i \in 1..Len(args) :
       /\ at[i] = Start(at, i) + Len(args[i]) /\ at[i] <= at[Len(args)]
       /\ i # 1 => q[Start(at, i)] = Space
       /\ \A j \in 1..Len(args[i]) : q[Start(at, i) + j] = args[i][j]

IsWord(word) == Len(word) >= 1 /\ \A j \in 1..Len(word) : word[j] \notin Blank

(* A word begins behind o, where nothing does or a word before it ends.    *)
HasWord(s, o, word, x) ==
  /\ word \in Seq(Nat) /\ IsWord(word) /\ x = o + Len(word) /\ x <= Len(s)
  /\ o = 0 \/ s[o] \in Blank
  /\ \A j \in 1..Len(word) : s[o + j] = word[j]

AreBefore(words, o, before) == before \in Seq(Seq(Nat)) /\ words[o] = before
IsReadAt(words, x, before, word) == words[x] = Append(before, word)

LEMMA WordIsRead ==
  ASSUME NEW s \in Seq(Nat), NEW words, AreWords(s, words), NEW o \in Nat,
         NEW word, NEW end, HasWord(s, o, word, end), NEW before, AreBefore(words, o, before)
  PROVE  IsReadAt(words, end, before, word)
<1>0. /\ word \in Seq(Nat) /\ IsWord(word) /\ o + Len(word) <= Len(s)
      /\ o = 0 \/ s[o] \in Blank
      /\ \A j \in 1..Len(word) : s[o + j] = word[j]
      /\ end = o + Len(word)
  BY DEF HasWord
<1>b. before \in Seq(Seq(Nat)) /\ words[o] = before
  BY DEF AreBefore
<1>1. PICK L : L = Len(word)
  OBVIOUS
<1>2. L \in Nat /\ L >= 1 /\ o + L <= Len(s) /\ Len(s) \in Nat
  BY <1>0, <1>1 DEF IsWord
<1>3. \A j \in 1..L : /\ s[o + j] = word[j] /\ word[j] \notin Blank /\ word[j] \in Nat
  <2>1. \A j \in 1..L : word[j] \in Nat
    BY ONLY <1>0, <1>1, ElementOfSeq
  <2> QED
    BY ONLY <1>0, <1>1, <2>1 DEF IsWord
<1>4. \A j \in 1..L : words[o + j] = NextWords(s, o + j, words[o + j - 1])
  <2> TAKE j \in 1..L
  <2>1. o + j \in 1..Len(s)
    BY <1>2
  <2> QED
    BY ONLY <2>1, AreWords(s, words) DEF AreWords
<1> DEFINE T == {k \in 0..(L - 1) : words[o + (k + 1)] = Append(before, SubSeq(word, 1, k + 1))}
<1>5. 0 \in T
  <2>1. 1 \in 1..L /\ o + 1 - 1 = o
    BY <1>2
  <2>2. words[o + 1] = NextWords(s, o + 1, before)
    BY <1>4, <1>b, <2>1
  <2>3. s[o + 1] = word[1] /\ s[o + 1] \notin Blank
    BY <1>3, <2>1
  <2>4. o + 1 = 1 \/ s[o + 1 - 1] \in Blank
    BY <1>0, <2>1
  <2>5. words[o + 1] = Append(before, <<word[1]>>)
    <3>1. PICK x, z : x = o + 1 /\ z = word[1]
      OBVIOUS
    <3>2. words[x] = NextWords(s, x, before) /\ s[x] = z /\ s[x] \notin Blank
          /\ (x = 1 \/ s[x - 1] \in Blank)
      BY ONLY <2>2, <2>3, <2>4, <3>1
    <3>3. words[x] = Append(before, <<z>>)
      BY ONLY <3>2 DEF NextWords
    <3> QED
      BY ONLY <3>1, <3>3
  <2>6. SubSeq(word, 1, 1) = <<word[1]>>
    <3>1. 1 \in 1..Len(word) /\ 1 \in 1..Len(word)
      BY <1>1, <2>1
    <3>2. SubSeq(word, 1, 1) = SubSeq(word, 1, 1 - 1) \o <<word[1]>>
      BY ONLY <1>0, <3>1, SubSeqRecursiveSecond
    <3>3. SubSeq(word, 1, 1 - 1) = <<>>
      BY SubSeqEmpty
    <3>4. <<word[1]>> \in Seq(Nat)
      BY <1>3, <2>1
    <3>5. <<>> \o <<word[1]>> = <<word[1]>>
      BY ONLY <3>4, ConcatEmptySeq
    <3> QED
      BY ONLY <3>2, <3>3, <3>5
  <2>7. 0 + 1 = 1 /\ 0 \in 0..(L - 1)
    BY <1>2
  <2> QED
    BY <2>5, <2>6, <2>7
<1>6. ASSUME NEW k \in 1..(L - 1), k - 1 \in T
      PROVE  k \in T
  <2>1. PICK j, x, u : j = k + 1 /\ x = o + j /\ u = SubSeq(word, 1, k)
    OBVIOUS
  <2>2. j \in 1..L /\ k \in 1..L /\ x - 1 = o + k /\ k - 1 + 1 = k /\ o + (k + 1) = x /\ x # 1
        /\ o + j - 1 = o + k /\ k \in Nat /\ o + ((k - 1) + 1) = o + k
    BY <1>2, <2>1
  <2>3. words[o + k] = Append(before, u)
    BY <1>6, <2>1, <2>2
  <2>4. words[x] = NextWords(s, x, words[o + k])
    BY <1>4, <2>1, <2>2
  <2>5. s[x] = word[j] /\ s[x] \notin Blank /\ s[x - 1] \notin Blank
    BY <1>3, <2>1, <2>2
  <2>6. words[x] = Front(Append(before, u)) \o <<Append(Last(Append(before, u)), word[j])>>
    BY <2>2, <2>3, <2>4, <2>5 DEF NextWords
  <2>7. u \in Seq(Nat)
    <3>1. \A i \in 1..k : i \in 1..L
      BY ONLY <1>2, <2>2
    <3>2. 1 \in Int /\ k \in Int /\ \A i \in 1..k : word[i] \in Nat
      BY ONLY <1>3, <2>2, <3>1
    <3>3. SubSeq(word, 1, k) \in Seq(Nat)
      BY ONLY <3>2, SubSeqProperties
    <3> QED
      BY ONLY <2>1, <3>3
  <2>8. Front(Append(before, u)) = before /\ Last(Append(before, u)) = u
    BY ONLY <2>7, <1>b, FrontLastOf
  <2>9. word[j] \in Nat
    BY <1>3, <2>2
  <2>10. Append(u, word[j]) = SubSeq(word, 1, k + 1)
    <3>1. Append(u, word[j]) = u \o <<word[j]>>
      BY ONLY <2>7, <2>9, AppendIsConcat
    <3>2. 1 \in 1..Len(word) /\ j \in 1..Len(word) /\ j - 1 = k
      BY <1>1, <1>2, <2>1, <2>2
    <3>3. SubSeq(word, 1, j) = SubSeq(word, 1, j - 1) \o <<word[j]>>
      BY ONLY <3>2, <1>0, SubSeqRecursiveSecond
    <3> QED
      BY ONLY <2>1, <3>1, <3>2, <3>3
  <2>11. PICK v : v = SubSeq(word, 1, k + 1) /\ v = Append(u, word[j])
    BY <2>10
  <2>12. v \in Seq(Nat)
    <3>1. PICK e : e = word[j]
      OBVIOUS
    <3>2. e \in Nat
      BY ONLY <2>9, <3>1
    <3>3. Append(u, e) \in Seq(Nat)
      BY ONLY <2>7, <3>2, AppendProperties
    <3> QED
      BY ONLY <2>11, <3>1, <3>3
  <2>13. words[x] = before \o <<v>>
    BY <2>6, <2>8, <2>11
  <2>14. before \o <<v>> = Append(before, v)
    BY ONLY <2>12, <1>b, AppendIsConcat
  <2>15. words[o + (k + 1)] = Append(before, SubSeq(word, 1, k + 1))
    BY <2>2, <2>11, <2>13, <2>14
  <2> QED
    BY <2>15
<1>7. L - 1 \in T
  <2>1. L - 1 \in Nat /\ L - 1 \in 0..(L - 1)
    BY <1>2
  <2>2. \A k \in 0..(L - 1) : k \in T
    <3> HIDE DEF T
    <3> QED
      BY <1>5, <1>6, <2>1, UpTo
  <2> QED
    BY <2>1, <2>2
<1>8. L - 1 + 1 = L /\ o + (L - 1 + 1) = o + L
  BY <1>2
<1>9. words[o + L] = Append(before, SubSeq(word, 1, L))
  BY <1>7, <1>8
<1>10. SubSeq(word, 1, L) = word
  BY ONLY <1>1, <1>0, SubSeqFull
<1> QED
  BY <1>0, <1>1, <1>9, <1>10 DEF IsReadAt

LEMMA LineIs ==
  ASSUME NEW args \in Seq(Seq(Nat))
  PROVE  \E at : IsLine(Line(args), at, args)
<1>1. PICK K \in Nat : K = Len(args) /\ DOMAIN args = 1..K /\ \A i \in 1..K : args[i] \in Seq(Nat)
  OBVIOUS
<1>2. PICK parts : parts = [i \in DOMAIN args |-> IF i = 1 THEN args[i] ELSE <<Space>> \o args[i]]
  OBVIOUS
<1>3. ASSUME NEW i \in 1..K
      PROVE  /\ parts[i] \in Seq(Nat) /\ Len(args[i]) \in Nat
             /\ i = 1 => parts[i] = args[i]
             /\ i # 1 => /\ Len(parts[i]) = 1 + Len(args[i]) /\ parts[i][1] = Space
                         /\ \A j \in 1..Len(args[i]) : parts[i][1 + j] = args[i][j]
  <2>1. PICK arg, n, sp, u : arg = args[i] /\ n = 1 /\ sp = <<Space>> /\ u = sp \o arg
    OBVIOUS
  <2>2. arg \in Seq(Nat)
    BY <1>1, <2>1
  <2>3. sp \in Seq(Nat) /\ Len(sp) = n /\ u = sp \o arg
    BY <2>1 DEF Space
  <2>4. IsBehind(u, sp, arg, n, Nat)
    BY ONLY <2>2, <2>3, Behind
  <2>5. parts[i] = IF i = 1 THEN arg ELSE u
    BY <1>1, <1>2, <2>1
  <2>6. u \in Seq(Nat) /\ Len(u) = 1 + Len(arg) /\ \A j \in 1..Len(arg) : u[1 + j] = arg[j]
    BY ONLY <2>1, <2>4 DEF IsBehind
  <2>7. u[1] = Space
    <3>1. 1 \in 1..n /\ sp[1] = Space
      BY ONLY <2>1
    <3> QED
      BY ONLY <2>4, <3>1 DEF IsBehind
  <2> QED
    BY <2>1, <2>2, <2>5, <2>6, <2>7
<1>4. Len(parts) = K /\ parts \in Seq(Seq(Nat))
  <2>1. parts = [i \in 1..K |-> parts[i]]
    BY <1>1, <1>2
  <2>2. \A i \in 1..K : parts[i] \in Seq(Nat)
    BY <1>3
  <2> QED
    BY <2>1, <2>2
<1>5. PICK at, r : IsLayout(at, parts) /\ r = Joined(parts) /\ IsJoined(r, at, parts, Nat)
  BY <1>4, JoinedIs
<1>6. /\ r \in Seq(Nat) /\ Len(r) = at[K] /\ at \in [0..K -> Nat] /\ at[0] = 0
      /\ \A i \in 1..K : at[i] = at[i - 1] + Len(parts[i])
      /\ \A i \in 1..K : \A j \in 1..Len(parts[i]) : r[at[i - 1] + j] = parts[i][j]
  BY <1>4, <1>5 DEF IsJoined, IsLayout
<1>7. PICK q, n : q = r \o CRLF /\ n = at[K]
  OBVIOUS
<1>8. Line(args) = q
  BY <1>2, <1>5, <1>7 DEF Line
<1>9. CRLF \in Seq(Nat) /\ Len(CRLF) = 2 /\ CRLF[1] = CR /\ CRLF[2] = LF
  BY DEF CRLF, CR, LF
<1>10. /\ q \in Seq(Nat) /\ Len(q) = n + 2 /\ n \in Nat
       /\ \A x \in 1..n : q[x] = r[x]
       /\ \A j \in 1..2 : q[n + j] = CRLF[j]
  <2>1. r \in Seq(Nat) /\ CRLF \in Seq(Nat) /\ Len(r) = n /\ q = r \o CRLF
    BY ONLY <1>6, <1>7, <1>9
  <2>2. IsBehind(q, r, CRLF, n, Nat)
    BY ONLY <2>1, Behind
  <2> QED
    BY ONLY <1>9, <2>2 DEF IsBehind
<1>11. q[n + 1] = CR /\ q[n + 2] = LF
  BY ONLY <1>9, <1>10
<1>12. ASSUME NEW i \in 1..K
       PROVE  /\ at[i] = Start(at, i) + Len(args[i]) /\ at[i] <= n
              /\ i # 1 => q[Start(at, i)] = Space
              /\ \A j \in 1..Len(args[i]) : q[Start(at, i) + j] = args[i][j]
  <2>1. PICK p, l, L : p = at[i - 1] /\ l = Len(parts[i]) /\ L = Len(args[i])
    OBVIOUS
  <2>2. /\ p \in Nat /\ at[i] = p + l /\ at[i] \in Nat /\ l \in Nat /\ L \in Nat
        /\ \A j \in 1..l : r[p + j] = parts[i][j]
    <3>1. i \in 0..K /\ i - 1 \in 0..K
      OBVIOUS
    <3>2. l \in Nat /\ L \in Nat
      BY <1>3, <2>1
    <3>3. p \in Nat /\ at[i] \in Nat
      BY ONLY <1>6, <2>1, <3>1
    <3> QED
      BY ONLY <1>6, <2>1, <3>2, <3>3, i \in 1..K
  <2>3. at[i] <= n
    <3>1. \A k \in 1..Len(parts) : Len(parts[k]) \in Nat
      BY <1>3, <1>4
    <3>2. i \in 0..Len(parts) /\ K \in 0..Len(parts) /\ i <= K /\ Len(parts) \in Nat
      BY <1>4
    <3>3. at[i] <= at[K]
      BY ONLY <3>1, <3>2, <1>5, LayoutGrows
    <3> QED
      BY <1>7, <3>3
  <2>4. \A j \in 1..l : q[p + j] = parts[i][j]
    <3> TAKE j \in 1..l
    <3>1. p + j \in 1..n
      BY ONLY <1>10, <2>2, <2>3, j \in 1..l
    <3> QED
      BY ONLY <1>10, <2>2, <3>1, j \in 1..l
  <2>5. CASE i = 1
    <3>1. p = 0 /\ Start(at, i) = 0
      BY <1>6, <2>1, <2>5 DEF Start
    <3>2. l = L /\ parts[i] = args[i]
      BY <1>3, <2>1, <2>5
    <3> QED
      BY <2>1, <2>2, <2>3, <2>4, <2>5, <3>1, <3>2
  <2>6. CASE i # 1
    <3>1. Start(at, i) = p + 1
      BY <2>1, <2>6 DEF Start
    <3>2. /\ l = 1 + L /\ parts[i][1] = Space
          /\ \A j \in 1..L : parts[i][1 + j] = args[i][j]
      BY <1>3, <2>1, <2>6
    <3>3. q[p + 1] = Space
      <4>1. 1 \in 1..l
        BY <2>2, <3>2
      <4> QED
        BY ONLY <2>4, <3>2, <4>1
    <3>4. \A j \in 1..L : q[p + 1 + j] = args[i][j]
      <4> TAKE j \in 1..L
      <4>1. 1 + j \in 1..l /\ p + (1 + j) = p + 1 + j
        BY ONLY <2>2, <3>2, j \in 1..L
      <4> QED
        BY ONLY <2>4, <3>2, <4>1, j \in 1..L
    <3>5. at[i] = p + 1 + L
      BY ONLY <2>2, <3>2
    <3> QED
      BY ONLY <2>1, <2>3, <3>1, <3>3, <3>4, <3>5
  <2> QED
    BY <2>5, <2>6
<1>13. IsLine(q, at, args)
  BY ONLY <1>1, <1>6, <1>7, <1>10, <1>11, <1>12 DEF IsLine
<1> QED
  BY <1>8, <1>13

LEMMA LineIsRead ==
  ASSUME NEW args \in Seq(Seq(Nat)), \A i \in 1..Len(args) : IsWord(args[i]),
         NEW q, NEW at, IsLine(q, at, args)
  PROVE  simpleTokenizer(q) = args
<1>a. PICK K \in Nat : K = Len(args)
  OBVIOUS
<1>b. \A i \in 1..K : args[i] \in Seq(Nat)
  BY ONLY <1>a, args \in Seq(Seq(Nat)), ElementOfSeq
<1>1. K = Len(args) /\ \A i \in 1..K : args[i] \in Seq(Nat) /\ IsWord(args[i])
  BY ONLY <1>a, <1>b, \A i \in 1..Len(args) : IsWord(args[i])
<1>2. /\ q \in Seq(Nat) /\ at \in [0..K -> Nat] /\ at[0] = 0 /\ Len(q) = at[K] + 2
      /\ q[at[K] + 1] = CR /\ q[at[K] + 2] = LF
  BY <1>1 DEF IsLine
<1>3. \A i \in 1..K :
        /\ at[i] = Start(at, i) + Len(args[i]) /\ at[i] <= at[K]
        /\ i # 1 => q[Start(at, i)] = Space
        /\ \A j \in 1..Len(args[i]) : q[Start(at, i) + j] = args[i][j]
  BY <1>1 DEF IsLine
<1>4. PICK words : AreWords(q, words) /\ simpleTokenizer(q) = words[Len(q)]
  BY <1>2, WordsAre
<1>5. words[0] = <<>> /\ \A x \in 1..Len(q) : words[x] = NextWords(q, x, words[x - 1])
  BY <1>4 DEF AreWords
<1>6. \A x \in 1..Len(q) : q[x] \in Blank => words[x] = words[x - 1]
  BY <1>5 DEF NextWords
<1>7. \A i \in 0..K : SubSeq(args, 1, i) \in Seq(Seq(Nat))
  <2> TAKE i \in 0..K
  <2>1. 1 \in Int /\ i \in Int /\ \A x \in 1..i : args[x] \in Seq(Nat)
    BY <1>1
  <2> QED
    BY ONLY <2>1, SubSeqProperties
<1> DEFINE T == {i \in 0..K : words[at[i]] = SubSeq(args, 1, i)}
<1>8. 0 \in T
  <2>1. SubSeq(args, 1, 0) = <<>>
    BY SubSeqEmpty
  <2>2. 0 \in 0..K
    OBVIOUS
  <2>3. words[at[0]] = SubSeq(args, 1, 0)
    BY ONLY <1>2, <1>5, <2>1
  <2> QED
    BY ONLY <2>2, <2>3
<1>9. ASSUME NEW i \in 1..K, i - 1 \in T
      PROVE  i \in T
  <2>1. PICK p, o, word, before, L :
          /\ p = at[i - 1] /\ o = Start(at, i) /\ word = args[i]
          /\ before = SubSeq(args, 1, i - 1) /\ L = Len(word)
    OBVIOUS
  <2>2. /\ i - 1 \in 0..K /\ i \in 0..K /\ words[p] = before
    BY <1>9, <2>1
  <2>3. /\ p \in Nat /\ word \in Seq(Nat) /\ IsWord(word) /\ before \in Seq(Seq(Nat)) /\ L \in Nat
        /\ at[i] = o + L /\ at[i] <= at[K] /\ at[K] \in Nat
        /\ \A j \in 1..L : q[o + j] = word[j]
    <3>1. p \in Nat /\ at[K] \in Nat
      BY ONLY <1>2, <2>1, <2>2, K \in Nat
    <3>2. word \in Seq(Nat) /\ IsWord(word) /\ L \in Nat
      BY <1>1, <2>1
    <3>3. before \in Seq(Seq(Nat))
      BY ONLY <1>7, <2>1, <2>2
    <3> QED
      BY ONLY <1>3, <2>1, <3>1, <3>2, <3>3, i \in 1..K
  <2>4. o \in Nat /\ words[o] = before /\ (o = 0 \/ q[o] \in Blank)
    <3>1. CASE i = 1
      BY <1>2, <2>1, <2>2, <3>1 DEF Start
    <3>2. CASE i # 1
      <4>1. o = p + 1 /\ q[o] = Space
        BY <1>3, <2>1, <3>2 DEF Start
      <4>2. q[o] \in Blank
        BY <4>1 DEF Blank
      <4>3. o \in 1..Len(q) /\ o - 1 = p
        BY ONLY <1>2, <2>3, <4>1
      <4> QED
        BY ONLY <1>6, <2>2, <2>3, <4>1, <4>2, <4>3
    <3> QED
      BY <3>1, <3>2
  <2>5. o + Len(word) <= Len(q)
    BY ONLY <1>2, <2>1, <2>3, <2>4, SMTT(20)
  <2>6. words[o + Len(word)] = Append(before, word)
    <3>1. \A j \in 1..Len(word) : q[o + j] = word[j]
      BY ONLY <2>1, <2>3
    <3>2. q \in Seq(Nat) /\ AreWords(q, words) /\ o \in Nat /\ word \in Seq(Nat) /\ IsWord(word)
      BY ONLY <1>2, <1>4, <2>3, <2>4
    <3>3. (o = 0 \/ q[o] \in Blank) /\ before \in Seq(Seq(Nat)) /\ words[o] = before
      BY ONLY <2>3, <2>4
    <3>4. PICK x : x = o + Len(word)
      OBVIOUS
    <3>5. HasWord(q, o, word, x) /\ AreBefore(words, o, before)
      BY ONLY <2>5, <3>1, <3>2, <3>3, <3>4 DEF HasWord, AreBefore
    <3>6. IsReadAt(words, x, before, word)
      BY ONLY <3>2, <3>5, WordIsRead
    <3> QED
      BY ONLY <3>4, <3>6 DEF IsReadAt
  <2>7. Append(before, word) = SubSeq(args, 1, i)
    <3>1. 1 \in 1..Len(args) /\ i \in 1..Len(args)
      BY <1>1
    <3>2. SubSeq(args, 1, i) = SubSeq(args, 1, i - 1) \o <<args[i]>>
      BY ONLY <3>1, args \in Seq(Seq(Nat)), SubSeqRecursiveSecond
    <3>3. Append(before, word) = before \o <<word>>
      BY ONLY <2>3, AppendIsConcat
    <3> QED
      BY ONLY <2>1, <3>2, <3>3
  <2>8. words[at[i]] = SubSeq(args, 1, i)
    BY ONLY <2>1, <2>3, <2>6, <2>7
  <2> QED
    BY <2>8
<1>10. words[at[K]] = args
  <2>1. \A i \in 0..K : i \in T
    <3> HIDE DEF T
    <3> QED
      BY <1>8, <1>9, UpTo
  <2>2. K \in 0..K
    OBVIOUS
  <2>3. words[at[K]] = SubSeq(args, 1, K)
    BY <2>1, <2>2
  <2>4. SubSeq(args, 1, K) = args
    BY ONLY <1>1, args \in Seq(Seq(Nat)), SubSeqFull
  <2> QED
    BY <2>3, <2>4
<1>11. PICK n : n = at[K]
  OBVIOUS
<1>12. /\ n \in Nat /\ Len(q) = n + 2 /\ n + 1 \in 1..Len(q) /\ n + 2 \in 1..Len(q)
       /\ n + 1 - 1 = n /\ n + 2 - 1 = n + 1
  <2>1. n \in Nat
    BY <1>2, <1>11
  <2> QED
    BY ONLY <1>2, <1>11, <2>1
<1>13. words[n + 1] = words[n]
  <2>1. q[n + 1] \in Blank
    BY <1>2, <1>11 DEF Blank
  <2> QED
    BY ONLY <1>6, <1>12, <2>1
<1>14. words[n + 2] = words[n + 1]
  <2>1. q[n + 2] \in Blank
    BY <1>2, <1>11 DEF Blank
  <2> QED
    BY ONLY <1>6, <1>12, <2>1
<1> QED
  BY ONLY <1>4, <1>10, <1>11, <1>12, <1>13, <1>14

-----------------------------------------------------------------------------
(* The bytes of a message                                                  *)

LEMMA ArgsType ==
  ASSUME NEW m \in Messages
  PROVE  IsMessage(m) /\ m.args \in Seq(Seq(Nat)) /\ m.lost \in Nat
<1>1. IsMessage(m)
  BY ConnectionAssumption
<1>2. m.args \in Seq(Seq(Byte)) /\ m.lost \in Nat
  BY <1>1 DEF IsMessage
<1>3. Byte \subseteq Nat
  BY DEF Byte
<1>4. Seq(Byte) \subseteq Seq(Nat)
  BY ONLY <1>3, SeqMonotonic
<1>5. m.args \in Seq(Seq(Nat))
  BY ONLY <1>2, <1>4, SeqMonotonic
<1> QED
  BY <1>1, <1>2, <1>5

LEMMA Removed ==
  ASSUME NEW q \in Seq(Nat), NEW d \in 1..Len(q)
  PROVE  /\ RemoveAt(q, d) \in Seq(Nat) /\ Len(RemoveAt(q, d)) = Len(q) - 1
         /\ \A x \in 1..(Len(q) - 1) : RemoveAt(q, d)[x] = IF x < d THEN q[x] ELSE q[x + 1]
<1>1. PICK n : n = Len(q)
  OBVIOUS
<1>2. n \in Nat /\ d \in 1..n /\ \A x \in 1..n : q[x] \in Nat
  BY <1>1
<1>3. PICK y, z, s, t, r : /\ y = d - 1 /\ z = d + 1 /\ s = SubSeq(q, 1, y) /\ t = SubSeq(q, z, n)
                           /\ r = s \o t
  OBVIOUS
<1>4. RemoveAt(q, d) = r
  BY <1>1, <1>3 DEF RemoveAt
<1>5. y \in Int /\ z \in Int /\ n \in Int /\ 1 \in Int /\ y - 1 + 1 = d - 1 /\ n - z + 1 = n - d
  BY ONLY <1>2, <1>3
<1>6. /\ s \in Seq(Nat) /\ Len(s) = (IF 1 <= y THEN y - 1 + 1 ELSE 0)
      /\ \A i \in 1..(y - 1 + 1) : s[i] = q[1 + i - 1]
  <2>1. \A x \in 1..y : q[x] \in Nat
    BY ONLY <1>2, <1>3
  <2> QED
    BY ONLY <1>3, <1>5, <2>1, SubSeqProperties
<1>7. /\ t \in Seq(Nat) /\ Len(t) = (IF z <= n THEN n - z + 1 ELSE 0)
      /\ \A i \in 1..(n - z + 1) : t[i] = q[z + i - 1]
  <2>1. \A x \in z..n : q[x] \in Nat
    BY ONLY <1>2, <1>3
  <2> QED
    BY ONLY <1>3, <1>5, <2>1, SubSeqProperties
<1>8. Len(s) = y /\ Len(t) = n - d /\ y \in Nat
  BY ONLY <1>2, <1>3, <1>5, <1>6, <1>7
<1>9. /\ r \in Seq(Nat) /\ Len(r) = y + Len(t)
      /\ \A i \in 1..y : r[i] = s[i]
      /\ \A j \in 1..Len(t) : r[y + j] = t[j]
  <2>1. s \in Seq(Nat) /\ t \in Seq(Nat) /\ Len(s) = y /\ r = s \o t
    BY ONLY <1>3, <1>6, <1>7, <1>8
  <2>2. IsBehind(r, s, t, y, Nat)
    BY ONLY <2>1, Behind
  <2> QED
    BY ONLY <2>2 DEF IsBehind
<1>10. Len(r) = n - 1
  BY ONLY <1>2, <1>3, <1>8, <1>9
<1>11. ASSUME NEW x \in 1..(n - 1)
       PROVE  r[x] = IF x < d THEN q[x] ELSE q[x + 1]
  <2>1. CASE x < d
    <3>1. x \in 1..y /\ x \in 1..(y - 1 + 1) /\ 1 + x - 1 = x
      BY ONLY <1>2, <1>3, <2>1, x \in 1..(n - 1)
    <3>2. r[x] = s[x] /\ s[x] = q[1 + x - 1]
      BY ONLY <1>6, <1>9, <3>1
    <3> QED
      BY ONLY <2>1, <3>1, <3>2
  <2>2. CASE ~(x < d)
    <3>1. PICK j : j = x - y
      OBVIOUS
    <3>2. j \in 1..Len(t) /\ j \in 1..(n - z + 1) /\ y + j = x /\ z + j - 1 = x + 1
      BY ONLY <1>2, <1>3, <1>8, <2>2, <3>1, x \in 1..(n - 1)
    <3>3. r[y + j] = t[j] /\ t[j] = q[z + j - 1]
      BY ONLY <1>7, <1>9, <3>2
    <3> QED
      BY ONLY <2>2, <3>2, <3>3
  <2> QED
    BY <2>1, <2>2
<1> QED
  BY <1>1, <1>4, <1>9, <1>10, <1>11

ShortArgs(args) == Len(args) \in 0..9 /\ \A i \in 1..Len(args) : Len(args[i]) \in 0..9
PlainArgs(args) == Len(args) >= 1 /\ \A i \in 1..Len(args) : IsPlain(args[i])

(* What is left of q without its byte at d.                                *)
IsLeft(s, q, d) ==
  /\ d \in 2..Len(q) /\ Len(s) = Len(q) - 1
  /\ \A x \in 1..(Len(q) - 1) : s[x] = IF x < d THEN q[x] ELSE q[x + 1]

LEMMA RespBytes ==
  ASSUME NEW m \in Messages, m.form = "resp", NEW q, q = query_string(m.args)
  PROVE  /\ ShortArgs(m.args) /\ Bytes[m] \in Seq(Nat)
         /\ m.lost = 0 => Bytes[m] = q
         /\ m.lost # 0 => PlainArgs(m.args) /\ IsLeft(Bytes[m], q, m.lost)
         /\ \E b : IsQuery(q, b, m.args)
<1>1. IsMessage(m) /\ m.args \in Seq(Seq(Nat)) /\ m.lost \in Nat
  BY ArgsType
<1>2. PICK args : args = m.args
  OBVIOUS
<1>3. /\ args \in Seq(Seq(Byte)) /\ Len(args) < 10 /\ \A i \in DOMAIN args : Len(args[i]) < 10
      /\ m.lost # 0 => /\ m.lost \in 2..Len(q) /\ args # <<>>
                       /\ \A i \in DOMAIN args : args[i] # <<>> /\ args[i][1] # CR
  BY <1>1, <1>2 DEF IsMessage
<1>4. PICK K \in Nat : K = Len(args) /\ DOMAIN args = 1..K
  BY <1>1, <1>2
<1>5. \A i \in 1..K : args[i] \in Seq(Nat) /\ Len(args[i]) \in Nat
  BY <1>1, <1>2, <1>4, ElementOfSeq
<1>6. ShortArgs(args)
  <2>1. K \in 0..9
    <3>1. Len(args) < 10
      BY ONLY <1>3
    <3>2. \A l \in Nat : l < 10 => l \in 0..9
      OBVIOUS
    <3> QED
      BY ONLY <1>4, <3>1, <3>2, K \in Nat
  <2>2. \A i \in 1..K : Len(args[i]) \in 0..9
    <3> TAKE i \in 1..K
    <3>1. Len(args[i]) \in Nat /\ Len(args[i]) < 10
      BY ONLY <1>3, <1>4, <1>5, i \in 1..K
    <3>2. \A l \in Nat : l < 10 => l \in 0..9
      OBVIOUS
    <3> QED
      BY ONLY <3>1, <3>2
  <2> QED
    BY <1>4, <2>1, <2>2 DEF ShortArgs
<1>7. PICK b : IsQuery(q, b, args)
  BY <1>2, <1>3, QueryIs
<1>8. q \in Seq(Nat)
  BY <1>7 DEF IsQuery
<1>9. Bytes[m] = IF m.lost = 0 THEN q ELSE RemoveAt(q, m.lost)
  BY DEF Bytes
<1>10. ASSUME m.lost # 0
       PROVE  Bytes[m] \in Seq(Nat) /\ PlainArgs(args) /\ IsLeft(Bytes[m], q, m.lost)
  <2>1. PICK d, s : d = m.lost /\ s = RemoveAt(q, d)
    OBVIOUS
  <2>2. d \in 2..Len(q) /\ args # <<>> /\ \A i \in 1..K : args[i] # <<>> /\ args[i][1] # CR
    BY ONLY <1>3, <1>4, <1>10, <2>1
  <2>3. d \in 1..Len(q)
    BY <1>8, <2>2
  <2>4. /\ s \in Seq(Nat) /\ Len(s) = Len(q) - 1
        /\ \A x \in 1..(Len(q) - 1) : s[x] = IF x < d THEN q[x] ELSE q[x + 1]
    BY ONLY <1>8, <2>1, <2>3, Removed
  <2>5. PlainArgs(args)
    <3>1. K >= 1
      BY <1>1, <1>2, <1>4, <2>2, EmptySeq
    <3>2. \A i \in 1..K : Len(args[i]) >= 1
      <4> TAKE i \in 1..K
      <4>1. args[i] \in Seq(Nat) /\ args[i] # <<>>
        BY <1>5, <2>2
      <4>2. Len(args[i]) \in Nat \ {0}
        BY ONLY <4>1, EmptySeq
      <4> QED
        BY <4>2
    <3> QED
      BY <1>4, <2>2, <3>1, <3>2 DEF PlainArgs, IsPlain
  <2>6. Bytes[m] = s
    BY <1>9, <1>10, <2>1
  <2> QED
    BY ONLY <2>1, <2>2, <2>4, <2>5, <2>6 DEF IsLeft
<1>11. Bytes[m] \in Seq(Nat)
  BY <1>8, <1>9, <1>10
<1> QED
  BY <1>2, <1>6, <1>7, <1>9, <1>10, <1>11

LEMMA LineBytes ==
  ASSUME NEW m \in Messages, m.form # "resp"
  PROVE  /\ m.lost = 0 /\ Bytes[m] = Line(m.args)
         /\ m.args # <<>> => m.args[1][1] # Star
         /\ \A i \in 1..Len(m.args) : IsWord(m.args[i])
<1>1. IsMessage(m) /\ m.args \in Seq(Seq(Nat)) /\ m.lost \in Nat
  BY ArgsType
<1>2. /\ m.lost = 0 /\ (m.args # <<>> => m.args[1][1] # Star)
      /\ \A i \in DOMAIN m.args : m.args[i] # <<>> /\ ToSet(m.args[i]) \cap Blank = {}
  BY <1>1 DEF IsMessage
<1>3. Bytes[m] = Line(m.args)
  BY <1>2 DEF Bytes
<1>4. ASSUME NEW i \in 1..Len(m.args)
      PROVE  IsWord(m.args[i])
  <2>1. PICK word : word = m.args[i]
    OBVIOUS
  <2>2. word \in Seq(Nat)
    BY ONLY <1>1, <2>1, i \in 1..Len(m.args), ElementOfSeq
  <2>3. word # <<>> /\ ToSet(word) \cap Blank = {}
    BY <1>1, <1>2, <2>1
  <2>4. Len(word) \in Nat \ {0}
    BY ONLY <2>2, <2>3, EmptySeq
  <2>5. \A j \in 1..Len(word) : word[j] \in ToSet(word)
    BY <2>2 DEF ToSet
  <2>6. \A j \in 1..Len(word) : word[j] \notin Blank
    BY <2>3, <2>5
  <2> QED
    BY <2>1, <2>4, <2>6 DEF IsWord
<1> QED
  BY <1>2, <1>3, <1>4

IsBytes(s, m) == s \in Seq(Nat) /\ Len(s) \in Nat /\ Len(s) >= 1 /\ s[1] # LF
                 /\ (m.form = "resp") = (s[1] = Star)

LEMMA BytesAre ==
  ASSUME NEW m \in Messages
  PROVE  IsBytes(Bytes[m], m)
<1>1. CASE m.form = "resp"
  <2>1. PICK q, s : q = query_string(m.args) /\ s = Bytes[m]
    OBVIOUS
  <2>2. /\ s \in Seq(Nat) /\ (m.lost = 0 => s = q)
        /\ (m.lost # 0 => IsLeft(s, q, m.lost))
        /\ \E b : IsQuery(q, b, m.args)
    BY <1>1, <2>1, RespBytes
  <2>3. q \in Seq(Nat) /\ Len(q) \in Nat /\ Len(q) >= 4 /\ q[1] = Star
    BY <2>2 DEF IsQuery
  <2>4. Len(s) >= 1 /\ s[1] = Star
    <3>1. CASE m.lost = 0
      BY <2>2, <2>3, <3>1
    <3>2. CASE m.lost # 0
      <4>1. /\ m.lost \in 2..Len(q) /\ Len(s) = Len(q) - 1
            /\ \A x \in 1..(Len(q) - 1) : s[x] = IF x < m.lost THEN q[x] ELSE q[x + 1]
        BY <2>2, <3>2 DEF IsLeft
      <4>2. 1 \in 1..(Len(q) - 1) /\ 1 < m.lost
        BY <2>3, <4>1
      <4>3. s[1] = q[1]
        BY ONLY <4>1, <4>2
      <4> QED
        BY <2>3, <4>1, <4>3
    <3> QED
      BY <3>1, <3>2
  <2>5. Len(s) \in Nat
    BY <2>2
  <2>6. Star # LF
    BY DEF Star, LF
  <2> QED
    BY <1>1, <2>1, <2>2, <2>4, <2>5, <2>6 DEF IsBytes
<1>2. CASE m.form # "resp"
  <2>1. PICK args, s : args = m.args /\ s = Bytes[m]
    OBVIOUS
  <2>2. s = Line(args) /\ (args # <<>> => args[1][1] # Star) /\ \A i \in 1..Len(args) : IsWord(args[i])
    BY <1>2, <2>1, LineBytes
  <2>3. args \in Seq(Seq(Nat))
    BY <2>1, ArgsType
  <2>4. PICK at : IsLine(s, at, args)
    BY <2>2, <2>3, LineIs
  <2>5. PICK K \in Nat : K = Len(args)
    BY <2>3
  <2>6. /\ s \in Seq(Nat) /\ at \in [0..K -> Nat] /\ at[0] = 0 /\ Len(s) = at[K] + 2
        /\ s[at[K] + 1] = CR
        /\ \A i \in 1..K : \A j \in 1..Len(args[i]) : s[Start(at, i) + j] = args[i][j]
    BY <2>4, <2>5 DEF IsLine
  <2>7. Len(s) \in Nat /\ Len(s) >= 1
    BY <2>6
  <2>8. s[1] # LF /\ s[1] # Star
    <3>1. CASE K = 0
      <4>1. s[1] = CR
        BY <2>6, <3>1
      <4> QED
        BY <4>1 DEF CR, LF, Star
    <3>2. CASE K # 0
      <4>1. 1 \in 1..K /\ args # <<>>
        BY <2>5, <3>2
      <4>2. IsWord(args[1])
        BY <2>2, <2>5, <4>1
      <4>3. 1 \in 1..Len(args[1]) /\ args[1][1] \notin Blank
        <5>1. args[1] \in Seq(Nat)
          BY <2>3, <2>5, <4>1, ElementOfSeq
        <5>2. Len(args[1]) \in Nat
          BY <5>1
        <5> QED
          BY <4>2, <5>2 DEF IsWord
      <4>4. Start(at, 1) + 1 = 1
        BY DEF Start
      <4>a. s[Start(at, 1) + 1] = args[1][1]
        BY ONLY <2>6, <4>1, <4>3
      <4>5. s[1] = args[1][1]
        BY ONLY <4>4, <4>a
      <4> QED
        BY <2>2, <4>1, <4>3, <4>5 DEF Blank
    <3> QED
      BY <3>1, <3>2
  <2> QED
    BY <1>2, <2>1, <2>6, <2>7, <2>8 DEF IsBytes
<1> QED
  BY <1>1, <1>2

(* A read that begins with m; what comes behind m is no LF.                *)
StartsWith(t, m) ==
  /\ Len(t) \in Nat
  /\ \A x \in 1..Len(t) : x <= Len(Bytes[m]) => t[x] = Bytes[m][x]
  /\ Len(t) > Len(Bytes[m]) => t[Len(Bytes[m]) + 1] # LF

LEMMA RespMessage ==
  ASSUME NEW m \in Messages, m.form = "resp", NEW t, StartsWith(t, m), respTokenizer(t) # NULL
  PROVE  \/ respTokenizer(t) = <<>> /\ Len(t) # Len(Bytes[m])
         \/ Len(t) = Len(Bytes[m]) /\ m.lost = 0
<1>1. PICK q, s, args, d : /\ q = query_string(m.args) /\ s = Bytes[m] /\ args = m.args
                           /\ d = IF m.lost = 0 THEN Len(q) + 1 ELSE m.lost
  OBVIOUS
<1>2. /\ ShortArgs(args) /\ s \in Seq(Nat)
      /\ m.lost = 0 => s = q
      /\ m.lost # 0 => PlainArgs(args) /\ IsLeft(s, q, m.lost)
  BY <1>1, RespBytes
<1>3. PICK b : IsQuery(q, b, args)
  BY <1>1, RespBytes
<1>4. /\ q \in Seq(Nat) /\ Len(q) \in Nat /\ Len(q) >= 4 /\ b[0] = 4
      /\ \A i \in 1..Len(args) : IsFrame(q, b[i - 1], args[i])
  BY <1>3 DEF IsQuery
<1>5. /\ Len(t) \in Nat /\ \A x \in 1..Len(t) : x <= Len(s) => t[x] = s[x]
      /\ Len(t) > Len(s) => t[Len(s) + 1] # LF
  BY <1>1 DEF StartsWith
<1>6. CASE m.lost = 0
  <2>1. d = Len(q) + 1 /\ s = q
    BY <1>1, <1>2, <1>6
  <2>2. d \in Nat /\ d >= 2 /\ ~(d <= Len(q))
    BY <1>4, <2>1
  <2>3. IsRead(t, q, d)
    BY ONLY <1>4, <1>5, <2>1 DEF IsRead
  <2>4. \/ respTokenizer(t) = <<>> /\ Len(t) = 3
        \/ Len(t) = Len(q) /\ d > Len(q)
    <3>1. Len(args) \in 0..9 /\ \A i \in 1..Len(args) : Len(args[i]) \in 0..9
      BY <1>2 DEF ShortArgs
    <3> QED
      BY <1>3, <2>2, <2>3, <3>1, RespRead
  <2> QED
    BY <1>1, <1>4, <1>6, <2>1, <2>4
<1>7. CASE m.lost # 0
  <2>1. /\ d = m.lost /\ PlainArgs(args) /\ d \in 2..Len(q) /\ Len(s) = Len(q) - 1
        /\ \A x \in 1..(Len(q) - 1) : s[x] = IF x < d THEN q[x] ELSE q[x + 1]
    BY <1>1, <1>2, <1>7 DEF IsLeft
  <2>2. d \in Nat /\ d >= 2 /\ d <= Len(q)
    BY <1>4, <2>1
  <2>3. IsRead(t, q, d)
    <3>1. PICK n, N : n = Len(t) /\ N = Len(q)
      OBVIOUS
    <3>2. n \in Nat /\ N \in Nat /\ d \in 2..N /\ Len(s) = N - 1
      BY <1>4, <1>5, <2>1, <3>1
    <3>3. ASSUME NEW x \in 1..n, x < N
          PROVE  t[x] = IF x < d THEN q[x] ELSE q[x + 1]
      <4>1. x <= Len(s) /\ x \in 1..(N - 1)
        BY <3>2, <3>3
      <4>2. t[x] = s[x]
        BY <1>5, <3>1, <4>1
      <4> QED
        BY <2>1, <3>1, <4>1, <4>2
    <3>4. \A x \in 1..n : x < d /\ x <= N => t[x] = q[x]
      <4> TAKE x \in 1..n
      <4>1. x < d => x < N
        BY <3>2
      <4> QED
        BY <3>3, <4>1
    <3>5. \A x \in 1..n : d <= x /\ x < N => t[x] = q[x + 1]
      <4> TAKE x \in 1..n
      <4>1. d <= x => ~(x < d)
        BY <3>2
      <4> QED
        BY <3>3, <4>1
    <3>6. d <= N /\ N <= n => t[N] # LF
      <4>1. N <= n => n > Len(s) /\ Len(s) + 1 = N
        BY <3>2
      <4> QED
        BY <1>5, <3>1, <4>1
    <3> QED
      BY <1>5, <3>1, <3>4, <3>5, <3>6 DEF IsRead
  <2>4. \/ respTokenizer(t) = <<>> /\ Len(t) = 3
        \/ Len(t) = Len(q) /\ d > Len(q)
    <3>1. Len(args) \in 0..9 /\ \A i \in 1..Len(args) : Len(args[i]) \in 0..9
      BY <1>2 DEF ShortArgs
    <3>2. \A i \in 1..Len(args) : IsPlain(args[i])
      BY <2>1 DEF PlainArgs
    <3> QED
      BY <1>3, <2>2, <2>3, <3>1, <3>2, RespRead
  <2>5. respTokenizer(t) = <<>> /\ Len(t) = 3
    BY <1>4, <2>2, <2>4
  <2>6. Len(s) # 3
    <3>1. 1 \in 1..Len(args) /\ Len(args[1]) \in Nat
      <4>1. Len(args) >= 1 /\ Len(args) \in 0..9 /\ \A i \in 1..Len(args) : Len(args[i]) \in 0..9
        BY <1>2, <2>1 DEF PlainArgs, ShortArgs
      <4> QED
        BY <4>1
    <3>2. IsFrame(q, 4, args[1])
      <4>1. 1 - 1 = 0
        OBVIOUS
      <4> QED
        BY <1>4, <3>1, <4>1
    <3>3. 4 + 6 + Len(args[1]) <= Len(q)
      BY <3>2 DEF IsFrame
    <3>4. Len(s) = Len(q) - 1
      BY ONLY <2>1
    <3>5. PICK l, N : l = Len(args[1]) /\ N = Len(q)
      OBVIOUS
    <3>6. l \in Nat /\ N \in Nat /\ 4 + 6 + l <= N /\ Len(s) = N - 1
      BY ONLY <1>4, <3>1, <3>3, <3>4, <3>5
    <3>7. N - 1 # 3
      BY ONLY <3>6
    <3> QED
      BY ONLY <3>6, <3>7
  <2> QED
    BY <1>1, <2>5, <2>6
<1> QED
  BY <1>6, <1>7

(* A message that is read alone and whole is read for what it asks.        *)
LEMMA WholeMessage ==
  ASSUME NEW m \in Messages
  PROVE  bufferTokenizer(Bytes[m]) = IF m.lost = 0 THEN m.args ELSE NULL
<1>1. PICK s, args : s = Bytes[m] /\ args = m.args
  OBVIOUS
<1>2. /\ s \in Seq(Nat) /\ Len(s) \in Nat /\ Len(s) >= 1 /\ (m.form = "resp") = (s[1] = Star)
  BY <1>1, BytesAre DEF IsBytes
<1>3. args \in Seq(Seq(Nat)) /\ m.lost \in Nat
  BY <1>1, ArgsType
<1>4. s # <<>>
  BY <1>2
<1>5. CASE m.form = "resp"
  <2>1. bufferTokenizer(s) = respTokenizer(s)
    BY <1>2, <1>4, <1>5 DEF bufferTokenizer
  <2>2. CASE m.lost = 0
    <3>1. PICK q : q = query_string(args)
      OBVIOUS
    <3>2. ShortArgs(args) /\ s = q /\ \E b : IsQuery(q, b, args)
      BY <1>1, <1>5, <2>2, <3>1, RespBytes
    <3>3. PICK b : IsQuery(q, b, args)
      BY <3>2
    <3>4. NULL \notin Spot
      BY ConnectionAssumption DEF Spot
    <3>5. Len(args) \in 0..9 /\ \A i \in 1..Len(args) : Len(args[i]) \in 0..9
      BY <3>2 DEF ShortArgs
    <3>6. respTokenizer(q) = args
      BY ONLY <1>3, <3>3, <3>4, <3>5, WholeIsRead
    <3> QED
      BY <1>1, <2>1, <2>2, <3>2, <3>6
  <2>3. CASE m.lost # 0
    <3>1. StartsWith(s, m)
      BY <1>1, <1>2 DEF StartsWith
    <3>2. respTokenizer(s) = NULL
      BY <1>1, <1>5, <2>3, <3>1, RespMessage
    <3> QED
      BY <1>1, <2>1, <2>3, <3>2
  <2> QED
    BY <2>2, <2>3
<1>6. CASE m.form # "resp"
  <2>1. bufferTokenizer(s) = simpleTokenizer(s)
    BY <1>2, <1>4, <1>6 DEF bufferTokenizer
  <2>2. m.lost = 0 /\ s = Line(args) /\ \A i \in 1..Len(args) : IsWord(args[i])
    BY <1>1, <1>6, LineBytes
  <2>3. PICK at : IsLine(s, at, args)
    BY <1>3, <2>2, LineIs
  <2>4. simpleTokenizer(s) = args
    BY ONLY <1>3, <2>2, <2>3, LineIsRead
  <2> QED
    BY <1>1, <2>1, <2>2, <2>4
<1> QED
  BY <1>5, <1>6

-----------------------------------------------------------------------------
(* What is under way and what a read takes of it                           *)

PartsOf(q) == [i \in DOMAIN q |-> Bytes[q[i]]]

(* ends[i] is where message i of q ends in all, the bytes of q.            *)
IsPacked(q, ends, all) ==
  /\ ends \in [0..Len(q) -> Nat] /\ ends[0] = 0
  /\ \A i \in 1..Len(q) : ends[i] = ends[i - 1] + Len(Bytes[q[i]])
  /\ all \in Seq(Nat) /\ Len(all) = ends[Len(q)]
  /\ \A i \in 1..Len(q) : \A j \in 1..Len(Bytes[q[i]]) : all[ends[i - 1] + j] = Bytes[q[i]][j]
  /\ \A i \in 0..Len(q) : \A k \in 0..Len(q) : i <= k => ends[i] <= ends[k]

LEMMA Packs ==
  ASSUME NEW q \in Seq(Messages)
  PROVE  IsPacked(q, Ends(q), Joined(PartsOf(q)))
<1>a. PICK K \in Nat : K = Len(q)
  OBVIOUS
<1>b. PICK parts : parts = PartsOf(q)
  OBVIOUS
<1>1. K = Len(q) /\ parts = PartsOf(q)
  BY <1>a, <1>b
<1>2. \A i \in 1..K : q[i] \in Messages
  BY <1>1, ElementOfSeq
<1>3. \A i \in 1..K : Bytes[q[i]] \in Seq(Nat) /\ Len(Bytes[q[i]]) \in Nat
  BY <1>2, BytesAre DEF IsBytes
<1>4. parts = [i \in 1..K |-> Bytes[q[i]]]
  BY <1>1 DEF PartsOf
<1>5. parts \in Seq(Seq(Nat)) /\ Len(parts) = K /\ \A i \in 1..K : parts[i] = Bytes[q[i]]
  BY <1>3, <1>4
<1>6. PICK at : IsLayout(at, parts) /\ IsJoined(Joined(parts), at, parts, Nat)
  BY <1>5, JoinedIs
<1>7. PICK all : all = Joined(parts)
  OBVIOUS
<1>8. /\ at \in [0..K -> Nat] /\ at[0] = 0
      /\ \A i \in 1..K : at[i] = at[i - 1] + Len(Bytes[q[i]])
      /\ all \in Seq(Nat) /\ Len(all) = at[K]
      /\ \A i \in 1..K : \A j \in 1..Len(Bytes[q[i]]) : all[at[i - 1] + j] = Bytes[q[i]][j]
  <2>1. /\ at \in [0..K -> Nat] /\ at[0] = 0
        /\ \A i \in 1..K : at[i] = at[i - 1] + Len(parts[i])
    BY ONLY <1>5, <1>6 DEF IsLayout
  <2>2. /\ all \in Seq(Nat) /\ Len(all) = at[K]
        /\ \A i \in 1..K : \A j \in 1..Len(parts[i]) : all[at[i - 1] + j] = parts[i][j]
    BY ONLY <1>5, <1>6, <1>7 DEF IsJoined
  <2>3. \A i \in 1..K : parts[i] = Bytes[q[i]]
    BY ONLY <1>5
  <2>4. \A i \in 1..K : at[i] = at[i - 1] + Len(Bytes[q[i]])
    BY ONLY <2>1, <2>3
  <2>5. \A i \in 1..K : \A j \in 1..Len(Bytes[q[i]]) : all[at[i - 1] + j] = Bytes[q[i]][j]
    BY ONLY <2>2, <2>3, SMTT(20)
  <2> QED
    BY ONLY <2>1, <2>2, <2>4, <2>5
<1>9. \A i \in 0..K : \A k \in 0..K : i <= k => at[i] <= at[k]
  <2> TAKE i \in 0..K
  <2> TAKE k \in 0..K
  <2> HAVE i <= k
  <2>1. \A l \in 1..Len(parts) : Len(parts[l]) \in Nat
    BY <1>3, <1>5
  <2>2. i \in 0..Len(parts) /\ k \in 0..Len(parts) /\ i <= k /\ Len(parts) \in Nat
    BY <1>5
  <2> QED
    BY ONLY <1>6, <2>1, <2>2, LayoutGrows
<1> DEFINE more(x, i) == x + Len(Bytes[q[i]])
           end == CHOOSE f : f = [i \in 0..K |-> IF i = 0 THEN 0 ELSE more(f[i - 1], i)]
<1>10. Ends(q) = end
  BY <1>1 DEF Ends
<1>11. \A i \in 1..K : at[i] = more(at[i - 1], i)
  BY <1>8
<1> HIDE DEF more
<1>12. at = [i \in 0..K |-> IF i = 0 THEN 0 ELSE more(at[i - 1], i)]
  <2>1. at \in [0..K -> Nat] /\ at[0] = 0
    BY <1>8
  <2>2. \A i \in 0..K : i # 0 => i \in 1..K
    OBVIOUS
  <2>3. \A i \in 0..K : at[i] = IF i = 0 THEN 0 ELSE more(at[i - 1], i)
    BY ONLY <1>11, <2>1, <2>2
  <2> QED
    BY ONLY <2>1, <2>3
<1>13. end = [i \in 0..K |-> IF i = 0 THEN 0 ELSE more(end[i - 1], i)]
  BY <1>12
<1> HIDE DEF end
<1>14. Agree(end, at, K)
  <2>1. end[0] = at[0] /\ \A i \in 1..K : end[i - 1] = at[i - 1] => end[i] = at[i]
    BY <1>8, <1>11, <1>13
  <2> QED
    BY <2>1, SameSolution
<1>15. end = at
  BY <1>8, <1>13, <1>14 DEF Agree
<1>16. IsPacked(q, at, all)
  BY <1>1, <1>8, <1>9 DEF IsPacked
<1> QED
  BY <1>1, <1>7, <1>10, <1>15, <1>16

(* r bytes are the first k messages and a part of the next one.            *)
IsWhole(ends, N, r, k) == k \in 0..N /\ ends[k] <= r /\ (k = N \/ ends[k + 1] > r)

LEMMA WholeExists ==
  ASSUME NEW N \in Nat, NEW ends \in [0..N -> Nat], ends[0] = 0, NEW r \in Nat
  PROVE  \E k \in 0..N : IsWhole(ends, N, r, k)
<1>1. PICK over : over = {k \in 1..N : ends[k] > r}
  OBVIOUS
<1>2. CASE over = {}
  <2>1. ends[N] <= r
    <3>1. CASE N = 0
      BY <3>1
    <3>2. CASE N # 0
      <4>1. N \in 1..N /\ N \notin over
        BY <1>2, <3>2
      <4>2. ~(ends[N] > r) /\ ends[N] \in Nat
        BY <1>1, <4>1
      <4> QED
        BY <4>2
    <3> QED
      BY <3>1, <3>2
  <2> QED
    BY <2>1 DEF IsWhole
<1>3. CASE over # {}
  <2>1. over \in SUBSET Nat
    BY <1>1
  <2>2. PICK m \in over : \A k \in over : m <= k
    BY ONLY <1>3, <2>1, LeastNumber
  <2>3. m \in 1..N /\ ends[m] > r
    BY <1>1, <2>2
  <2>4. PICK k : k = m - 1
    OBVIOUS
  <2>5. k \in 0..N /\ k + 1 = m
    BY <2>3, <2>4
  <2>6. ends[k] <= r
    <3>1. CASE k = 0
      BY <3>1
    <3>2. CASE k # 0
      <4>1. k \in 1..N /\ k \notin over
        BY <2>2, <2>3, <2>4, <2>5, <3>2
      <4>2. ~(ends[k] > r) /\ ends[k] \in Nat
        BY <1>1, <2>5, <4>1
      <4> QED
        BY <4>2
    <3> QED
      BY <3>1, <3>2
  <2> QED
    BY <2>3, <2>5, <2>6 DEF IsWhole
<1> QED
  BY <1>2, <1>3

(* What is under way is messages, and a part of the first one is read.     *)
IsUnder(q, o) ==
  q \in Seq(Messages) /\ (IF q = <<>> THEN o = 0 ELSE o \in 0..(Len(Bytes[q[1]]) - 1))

(* A read of n bytes leaves q2 and o2 of q and o, k messages less.         *)
IsTaken(q, o, n, k, q2, o2) ==
  /\ k \in 0..Len(q) /\ q2 \in Seq(Messages) /\ Len(q2) = Len(q) - k
  /\ \A i \in 1..(Len(q) - k) : q2[i] = q[k + i]
  /\ IsUnder(q2, o2)
  /\ k = 0 => o2 # 0
  /\ o = 0 /\ n = Len(Bytes[q[1]]) => k = 1 /\ o2 = 0

LEMMA Takes ==
  ASSUME NEW q, NEW o, IsUnder(q, o), q # <<>>, NEW n \in Nat, n >= 1,
         o + n <= Ends(q)[Len(q)],
         NEW k, IsWhole(Ends(q), Len(q), o + n, k)
  PROVE  IsTaken(q, o, n, k, SubSeq(q, k + 1, Len(q)), o + n - Ends(q)[k])
<1>1. PICK N, ends, all, q2, o2 : /\ N = Len(q) /\ ends = Ends(q) /\ all = Joined(PartsOf(q))
                                  /\ q2 = SubSeq(q, k + 1, N) /\ o2 = o + n - ends[k]
  OBVIOUS
<1>2. q \in Seq(Messages) /\ o \in 0..(Len(Bytes[q[1]]) - 1)
  BY DEF IsUnder
<1>3. N \in Nat /\ N >= 1
  BY <1>1, <1>2, EmptySeq
<1>4. \A i \in 1..N : q[i] \in Messages
  BY ONLY <1>1, <1>2, ElementOfSeq
<1>5. \A i \in 1..N : Len(Bytes[q[i]]) \in Nat /\ Len(Bytes[q[i]]) >= 1
  BY <1>4, BytesAre DEF IsBytes
<1>6. IsPacked(q, ends, all)
  BY <1>1, <1>2, Packs
<1>7. /\ ends \in [0..N -> Nat] /\ ends[0] = 0
      /\ \A i \in 1..N : ends[i] = ends[i - 1] + Len(Bytes[q[i]])
      /\ \A i \in 0..N : \A l \in 0..N : i <= l => ends[i] <= ends[l]
  BY ONLY <1>1, <1>6 DEF IsPacked
<1>8. o \in Nat /\ 1 \in 1..N
  <2>1. 1 \in 1..N
    BY <1>3
  <2> QED
    BY <1>2, <1>5, <2>1
<1>9. k \in 0..N /\ ends[k] <= o + n /\ (k = N \/ ends[k + 1] > o + n) /\ ends[k] \in Nat
  BY <1>1, <1>7 DEF IsWhole
<1>10. /\ q2 \in Seq(Messages) /\ Len(q2) = N - k
       /\ \A i \in 1..(N - k) : q2[i] = q[k + i]
  <2>1. PICK y : y = k + 1
    OBVIOUS
  <2>2. y \in Int /\ N \in Int /\ \A x \in y..N : q[x] \in Messages
    BY ONLY <1>3, <1>4, <1>9, <2>1
  <2>3. /\ SubSeq(q, y, N) \in Seq(Messages)
        /\ Len(SubSeq(q, y, N)) = IF y <= N THEN N - y + 1 ELSE 0
        /\ \A i \in 1..(N - y + 1) : SubSeq(q, y, N)[i] = q[y + i - 1]
    BY ONLY <2>2, SubSeqProperties
  <2>4. q2 = SubSeq(q, y, N)
    BY ONLY <1>1, <2>1
  <2>5. Len(q2) = N - k
    BY ONLY <1>3, <1>9, <2>1, <2>3, <2>4
  <2>6. \A i \in 1..(N - k) : q2[i] = q[k + i]
    <3> TAKE i \in 1..(N - k)
    <3>1. i \in 1..(N - y + 1) /\ y + i - 1 = k + i
      BY ONLY <1>3, <1>9, <2>1, i \in 1..(N - k)
    <3> QED
      BY ONLY <2>3, <2>4, <3>1
  <2> QED
    BY ONLY <2>3, <2>4, <2>5, <2>6
<1>11. o2 \in Nat
  BY ONLY <1>1, <1>8, <1>9, n \in Nat
<1>12. k = N => o2 = 0
  BY ONLY <1>1, <1>8, <1>9, n \in Nat, o + n <= Ends(q)[Len(q)]
<1>13. k # N => o2 < Len(Bytes[q[k + 1]]) /\ Len(Bytes[q[k + 1]]) \in Nat
  <2> HAVE k # N
  <2>1. PICK z : z = k + 1
    OBVIOUS
  <2>2. z \in 1..N /\ z - 1 = k
    BY ONLY <1>3, <1>9, <2>1, k # N
  <2>3. ends[z] = ends[k] + Len(Bytes[q[z]]) /\ ends[z] > o + n /\ Len(Bytes[q[z]]) \in Nat
    BY ONLY <1>5, <1>7, <1>9, <2>1, <2>2, k # N
  <2>4. o2 < Len(Bytes[q[z]])
    BY ONLY <1>1, <1>8, <1>9, <2>3, n \in Nat, SMTT(20)
  <2> QED
    BY ONLY <2>1, <2>3, <2>4
<1>14. IsUnder(q2, o2)
  <2>1. CASE k = N
    <3>1. Len(q2) = 0
      BY ONLY <1>3, <1>10, <2>1
    <3>2. q2 = <<>>
      BY <1>10, <3>1
    <3> QED
      BY <1>10, <1>12, <2>1, <3>2 DEF IsUnder
  <2>2. CASE k # N
    <3>1. 1 \in 1..(N - k) /\ k + 1 = k + 1
      BY ONLY <1>3, <1>9, <2>2
    <3>2. q2[1] = q[k + 1]
      BY ONLY <1>10, <3>1
    <3>3. q2 # <<>>
      BY <1>3, <1>9, <1>10, <2>2
    <3>4. PICK l : l = Len(Bytes[q[k + 1]])
      OBVIOUS
    <3>5. o2 \in 0..(l - 1)
      BY ONLY <1>11, <1>13, <2>2, <3>4
    <3> QED
      BY ONLY <1>10, <3>2, <3>3, <3>4, <3>5 DEF IsUnder
  <2> QED
    BY <2>1, <2>2
<1>15. k = 0 => o2 # 0
  BY ONLY <1>1, <1>7, <1>8, n \in Nat, n >= 1
<1>16. ASSUME o = 0, n = Len(Bytes[q[1]])
       PROVE  k = 1 /\ o2 = 0
  <2>1. ends[1] = n
    <3>1. ends[1] = ends[0] + Len(Bytes[q[1]])
      <4>1. 1 - 1 = 0
        OBVIOUS
      <4> QED
        BY ONLY <1>7, <1>8, <4>1
    <3> QED
      BY ONLY <1>7, <1>16, <3>1, n \in Nat
  <2>2. k # 0
    <3>1. k = 0 => k + 1 = 1
      OBVIOUS
    <3>2. ~(ends[1] > o + n)
      BY ONLY <1>16, <2>1, n \in Nat
    <3> QED
      BY <1>3, <1>9, <3>1, <3>2
  <2>3. ~(k >= 2)
    <3> SUFFICES ASSUME k >= 2 PROVE FALSE
      OBVIOUS
    <3>1. 2 \in 1..N /\ 2 \in 0..N /\ 2 - 1 = 1 /\ 2 <= k
      BY ONLY <1>3, <1>9, k >= 2
    <3>2. ends[2] = ends[1] + Len(Bytes[q[2]]) /\ Len(Bytes[q[2]]) \in Nat /\ Len(Bytes[q[2]]) >= 1
      BY ONLY <1>5, <1>7, <3>1
    <3>3. ends[2] <= ends[k]
      BY ONLY <1>7, <1>9, <3>1
    <3>4. PICK l, e : l = Len(Bytes[q[2]]) /\ e = ends[k]
      OBVIOUS
    <3>5. l >= 1 /\ l \in Nat /\ e \in Nat
      BY ONLY <1>9, <3>2, <3>4
    <3>6. ends[2] = n + l
      BY ONLY <2>1, <3>2, <3>4
    <3>7. n + l <= e
      BY ONLY <3>3, <3>4, <3>6
    <3>8. e <= 0 + n
      BY ONLY <1>9, <1>16, <3>4
    <3> QED
      BY ONLY <3>5, <3>7, <3>8, n \in Nat
  <2>4. k = 1
    BY ONLY <1>9, <2>2, <2>3, <1>3
  <2> QED
    BY ONLY <1>1, <1>16, <2>1, <2>4, n \in Nat
<1> QED
  BY ONLY <1>1, <1>9, <1>10, <1>14, <1>15, <1>16 DEF IsTaken

(* What client c may have under way, and the rest of its state.            *)
ClientOK(c) ==
  /\ IsUnder(sent[c], off[c]) /\ Len(sent[c]) <= MaxSent[c]
  /\ (pace[c] = "cut") = (off[c] # 0)
  /\ link[c] = "closed" => sent[c] = <<>> /\ reply[c] = Silent /\ pace[c] = "whole"

IsReply(r) == r = [c \in Clients |-> r[c]]

Shape ==
  /\ link \in [Clients -> {"open", "left", "closed"}]
  /\ sent \in [Clients -> Seq(Messages)] /\ off \in [Clients -> Nat]
  /\ pace \in [Clients -> {"whole", "cut", "back"}]
  /\ IsReply(reply) /\ down \in BOOLEAN

IInv == Shape /\ \A c \in Clients : ClientOK(c)

LEMMA UnreadIs ==
  ASSUME NEW c, IsUnder(sent[c], off[c]), sent[c] # <<>>,
         NEW all, all = Joined(PartsOf(sent[c])), NEW o, o = off[c]
  PROVE  /\ Len(Unread(c)) = Len(all) - o /\ Len(Unread(c)) \in Nat /\ Len(all) \in Nat
         /\ all \in Seq(Nat)
         /\ Ends(sent[c])[Len(sent[c])] = Len(all) /\ o \in Nat
         /\ \A x \in 1..(Len(all) - o) : Unread(c)[x] = all[o + x]
<1>1. PICK q : q = sent[c]
  OBVIOUS
<1>a. PICK u : u = Unread(c)
  OBVIOUS
<1>b. PICK N, ends : N = Len(q) /\ ends = Ends(q)
  OBVIOUS
<1>2. q \in Seq(Messages) /\ o \in 0..(Len(Bytes[q[1]]) - 1)
  BY <1>1 DEF IsUnder
<1>3. N \in Nat /\ N >= 1
  BY <1>1, <1>b, <1>2, EmptySeq
<1>4. IsPacked(q, ends, all)
  BY <1>1, <1>b, <1>2, Packs
<1>5. /\ ends \in [0..N -> Nat] /\ ends[0] = 0
      /\ \A i \in 1..N : ends[i] = ends[i - 1] + Len(Bytes[q[i]])
      /\ all \in Seq(Nat) /\ Len(all) = ends[N]
      /\ \A i \in 0..N : \A l \in 0..N : i <= l => ends[i] <= ends[l]
  BY ONLY <1>b, <1>4 DEF IsPacked
<1>6. 1 \in 1..N /\ 1 \in 0..N /\ N \in 0..N /\ 1 - 1 = 0
  BY ONLY <1>3
<1>7. q[1] \in Messages
  BY ONLY <1>b, <1>2, <1>6, ElementOfSeq
<1>8. Len(Bytes[q[1]]) \in Nat
  BY <1>7, BytesAre DEF IsBytes
<1>9. PICK l, e : l = Len(Bytes[q[1]]) /\ e = ends[N]
  OBVIOUS
<1>10. e \in Nat /\ l \in Nat
  BY ONLY <1>5, <1>6, <1>8, <1>9
<1>11. ends[1] = l
  <2>1. ends[1] = ends[0] + l
    BY ONLY <1>5, <1>6, <1>9
  <2> QED
    BY ONLY <1>5, <1>10, <2>1
<1>12. l <= e
  BY ONLY <1>3, <1>5, <1>6, <1>9, <1>11
<1>13. o \in Nat /\ o <= e
  BY ONLY <1>2, <1>9, <1>10, <1>12
<1>14. u = SubSeq(all, o + 1, e)
  BY ONLY <1>1, <1>a, <1>5, <1>9, all = Joined(PartsOf(sent[c])), o = off[c] DEF Unread, PartsOf
<1>15. /\ Len(u) = e - o
       /\ \A x \in 1..(e - o) : u[x] = all[o + x]
  <2>1. PICK y : y = o + 1
    OBVIOUS
  <2>2. y \in Int /\ e \in Int
    BY ONLY <1>10, <1>13, <2>1
  <2>3. \A x \in y..e : all[x] \in Nat
    <3> TAKE x \in y..e
    <3>1. x \in 1..Len(all)
      BY ONLY <1>5, <1>9, <1>10, <1>13, <2>1, x \in y..e
    <3> QED
      BY ONLY <1>5, <3>1, ElementOfSeq
  <2>4. /\ Len(SubSeq(all, y, e)) = IF y <= e THEN e - y + 1 ELSE 0
        /\ \A i \in 1..(e - y + 1) : SubSeq(all, y, e)[i] = all[y + i - 1]
    BY ONLY <2>2, <2>3, SubSeqProperties
  <2>5. u = SubSeq(all, y, e)
    BY ONLY <1>14, <2>1
  <2>6. Len(u) = e - o
    BY ONLY <1>10, <1>13, <2>1, <2>4, <2>5
  <2>7. \A x \in 1..(e - o) : u[x] = all[o + x]
    <3> TAKE x \in 1..(e - o)
    <3>1. x \in 1..(e - y + 1) /\ y + x - 1 = o + x
      BY ONLY <1>10, <1>13, <2>1, x \in 1..(e - o)
    <3> QED
      BY ONLY <2>4, <2>5, <3>1
  <2> QED
    BY ONLY <2>6, <2>7
<1>16. e = Len(all) /\ e - o \in Nat
  BY ONLY <1>5, <1>9, <1>10, <1>13
<1> QED
  BY <1>1, <1>a, <1>b, <1>5, <1>9, <1>10, <1>13, <1>15, <1>16

(* A read that starts where a message starts.                              *)
Starts(t, m, n) ==
  /\ StartsWith(t, m) /\ Len(t) = n /\ t # <<>> /\ t[1] = Bytes[m][1]
  /\ n = Len(Bytes[m]) => t = Bytes[m]

LEMMA ReadStarts ==
  ASSUME NEW c, IsUnder(sent[c], off[c]), sent[c] # <<>>, off[c] = 0,
         NEW n \in Nat, n >= 1, n <= Len(Unread(c)),
         NEW m, m = sent[c][1]
  PROVE  Starts(SubSeq(Unread(c), 1, n), m, n)
<1>1. PICK q : q = sent[c]
  OBVIOUS
<1>a. PICK u : u = Unread(c)
  OBVIOUS
<1>b. PICK all : all = Joined(PartsOf(q))
  OBVIOUS
<1>c. PICK N, ends : N = Len(q) /\ ends = Ends(q)
  OBVIOUS
<1>d. PICK s : s = Bytes[m]
  OBVIOUS
<1>e. PICK t : t = SubSeq(u, 1, n)
  OBVIOUS
<1>2. q \in Seq(Messages) /\ q # <<>>
  BY <1>1 DEF IsUnder
<1>3. N \in Nat /\ N >= 1
  BY <1>c, <1>2, EmptySeq
<1>4. \A i \in 1..N : q[i] \in Messages
  BY ONLY <1>c, <1>2, ElementOfSeq
<1>5. 1 \in 1..N /\ 1 - 1 = 0
  BY ONLY <1>3
<1>6. m \in Messages
  BY <1>1, <1>4, <1>5
<1>7. s \in Seq(Nat) /\ Len(s) \in Nat /\ Len(s) >= 1
  BY <1>d, <1>6, BytesAre DEF IsBytes
<1>8. Len(u) = Len(all) /\ Len(all) \in Nat /\ all \in Seq(Nat) /\ \A x \in 1..Len(all) : u[x] = all[x]
  <2>1. PICK o : o = off[c]
    OBVIOUS
  <2>2. /\ Len(u) = Len(all) - o /\ Len(all) \in Nat /\ all \in Seq(Nat)
        /\ \A x \in 1..(Len(all) - o) : u[x] = all[o + x]
    BY <1>1, <1>a, <1>b, <2>1, UnreadIs
  <2>3. o = 0
    BY <2>1
  <2>4. Len(u) = Len(all) /\ Len(all) - o = Len(all)
    BY ONLY <2>2, <2>3
  <2>5. \A x \in 1..Len(all) : o + x = x
    BY ONLY <2>3
  <2> QED
    BY ONLY <2>2, <2>4, <2>5
<1>9. n <= Len(all)
  BY ONLY <1>8, <1>a, n <= Len(Unread(c))
<1>10. Len(t) = n /\ \A x \in 1..n : t[x] = all[x]
  <2>1. PICK y : y = 1
    OBVIOUS
  <2>2. \A x \in y..n : u[x] \in Nat
    <3> TAKE x \in y..n
    <3>1. x \in 1..Len(all)
      BY ONLY <1>8, <1>9, <2>1, n \in Nat, x \in y..n
    <3> QED
      BY ONLY <1>8, <3>1, ElementOfSeq
  <2>3. y \in Int /\ n \in Int
    BY ONLY <2>1, n \in Nat
  <2>4. /\ Len(SubSeq(u, y, n)) = IF y <= n THEN n - y + 1 ELSE 0
        /\ \A i \in 1..(n - y + 1) : SubSeq(u, y, n)[i] = u[y + i - 1]
    BY ONLY <2>2, <2>3, SubSeqProperties
  <2>5. t = SubSeq(u, y, n)
    BY ONLY <1>e, <2>1
  <2>6. Len(t) = n
    BY ONLY <2>1, <2>4, <2>5, n \in Nat, n >= 1
  <2>7. \A x \in 1..n : x \in 1..(n - y + 1) /\ y + x - 1 = x /\ x \in 1..Len(all)
    BY ONLY <1>8, <1>9, <2>1, n \in Nat
  <2>8. \A x \in 1..n : t[x] = u[x]
    BY ONLY <2>4, <2>5, <2>7
  <2> QED
    BY ONLY <1>8, <2>6, <2>7, <2>8
<1>11. IsPacked(q, ends, all)
  BY <1>b, <1>c, <1>2, Packs
<1>12. /\ ends \in [0..N -> Nat] /\ ends[0] = 0 /\ Len(all) = ends[N]
       /\ \A i \in 1..N : ends[i] = ends[i - 1] + Len(Bytes[q[i]])
       /\ \A i \in 1..N : \A j \in 1..Len(Bytes[q[i]]) : all[ends[i - 1] + j] = Bytes[q[i]][j]
  BY ONLY <1>c, <1>11 DEF IsPacked
<1>13. \A j \in 1..Len(s) : all[j] = s[j]
  <2>1. \A j \in 1..Len(s) : all[ends[1 - 1] + j] = s[j]
    BY ONLY <1>1, <1>5, <1>12, <1>d, m = sent[c][1]
  <2>2. \A j \in 1..Len(s) : 0 + j = j
    OBVIOUS
  <2> QED
    BY ONLY <1>5, <1>12, <2>1, <2>2
<1>14. ends[1] = Len(s)
  <2>1. ends[1] = ends[0] + Len(s)
    BY ONLY <1>1, <1>5, <1>12, <1>d, m = sent[c][1]
  <2> QED
    BY ONLY <1>7, <1>12, <2>1
<1>15. ASSUME n > Len(s)
       PROVE  t[Len(s) + 1] # LF
  <2>1. PICK z : z = 2
    OBVIOUS
  <2>2. N >= z
    <3>1. N = 1 => Len(all) = Len(s)
      BY ONLY <1>12, <1>14
    <3>2. N # 1
      BY ONLY <1>7, <1>9, <1>15, <3>1, n \in Nat
    <3> QED
      BY ONLY <1>3, <2>1, <3>2
  <2>3. z \in 1..N /\ z - 1 = 1
    BY ONLY <1>3, <2>1, <2>2
  <2>4. q[z] \in Messages
    BY ONLY <1>4, <2>3
  <2>5. Len(Bytes[q[z]]) \in Nat /\ Len(Bytes[q[z]]) >= 1 /\ Bytes[q[z]][1] # LF
    BY <2>4, BytesAre DEF IsBytes
  <2>6. all[ends[z - 1] + 1] = Bytes[q[z]][1]
    <3>1. 1 \in 1..Len(Bytes[q[z]])
      BY ONLY <2>5
    <3> QED
      BY ONLY <1>12, <2>3, <3>1
  <2>7. all[Len(s) + 1] # LF
    BY ONLY <1>14, <2>3, <2>5, <2>6
  <2>8. Len(s) + 1 \in 1..n
    BY ONLY <1>7, <1>15, n \in Nat
  <2> QED
    BY ONLY <1>10, <2>7, <2>8
<1>16. \A x \in 1..Len(t) : x <= Len(s) => t[x] = s[x]
  <2>1. \A x \in 1..n : x <= Len(s) => x \in 1..Len(s)
    BY ONLY <1>7, n \in Nat
  <2> QED
    BY ONLY <1>10, <1>13, <2>1
<1>17. StartsWith(t, m)
  BY ONLY <1>10, <1>15, <1>16, <1>d, n \in Nat DEF StartsWith
<1>18. t[1] = s[1] /\ t # <<>>
  <2>1. 1 \in 1..n /\ 1 \in 1..Len(s)
    BY ONLY <1>7, n \in Nat, n >= 1
  <2>2. Len(<<>>) = 0
    OBVIOUS
  <2>3. t # <<>>
    BY ONLY <1>10, <2>2, n \in Nat, n >= 1
  <2> QED
    BY ONLY <1>10, <1>13, <2>1, <2>3
<1>19. ASSUME n = Len(s)
       PROVE  t = s
  <2>1. t \in Seq(Nat)
    <3>1. \A x \in 1..n : u[x] \in Nat
      <4> TAKE x \in 1..n
      <4>1. x \in 1..Len(all)
        BY ONLY <1>8, <1>9, n \in Nat, x \in 1..n
      <4> QED
        BY ONLY <1>8, <4>1, ElementOfSeq
    <3>2. n \in Int /\ 1 \in Int
      BY ONLY n \in Nat
    <3>3. SubSeq(u, 1, n) \in Seq(Nat)
      BY ONLY <3>1, <3>2, SubSeqProperties
    <3> QED
      BY ONLY <1>e, <3>3
  <2>2. Len(t) = Len(s) /\ \A x \in 1..Len(t) : t[x] = s[x]
    BY ONLY <1>10, <1>13, <1>19
  <2> QED
    BY ONLY <1>7, <2>1, <2>2, SeqEqual
<1> QED
  BY ONLY <1>a, <1>d, <1>e, <1>10, <1>17, <1>18, <1>19 DEF Starts

-----------------------------------------------------------------------------
(* The requests no byte of which has been read                             *)

Asked == {Request(m) : m \in Messages}
FirstOf(o) == IF o = 0 THEN 1 ELSE 2
Waiting(q, o) == [i \in 1..(Len(q) - FirstOf(o) + 1) |-> Request(q[FirstOf(o) + i - 1])]

IsWaiting(w, q, o) ==
  /\ w \in Seq(Asked) /\ Len(w) = Len(q) - FirstOf(o) + 1 /\ Len(w) \in Nat
  /\ \A i \in 1..Len(w) : w[i] = Request(q[FirstOf(o) + i - 1])

LEMMA WaitingIs ==
  ASSUME NEW q, NEW o, IsUnder(q, o)
  PROVE  IsWaiting(Waiting(q, o), q, o)
<1>1. PICK N, f, w : N = Len(q) /\ f = FirstOf(o) /\ w = Waiting(q, o)
  OBVIOUS
<1>2. q \in Seq(Messages) /\ (q = <<>> => o = 0)
  BY DEF IsUnder
<1>3. N \in Nat /\ (N = 0 => q = <<>>)
  BY <1>1, <1>2, EmptySeq
<1>4. f \in 1..2 /\ (N = 0 => f = 1)
  BY <1>1, <1>2, <1>3 DEF FirstOf
<1>5. PICK L : L = N - f + 1
  OBVIOUS
<1>6. L \in Nat
  BY ONLY <1>3, <1>4, <1>5
<1>7. w = [i \in 1..L |-> Request(q[f + i - 1])]
  BY ONLY <1>1, <1>5 DEF Waiting
<1>8. \A i \in 1..L : Request(q[f + i - 1]) \in Asked
  <2> TAKE i \in 1..L
  <2>1. f + i - 1 \in 1..N
    BY ONLY <1>3, <1>4, <1>5, i \in 1..L
  <2>2. q[f + i - 1] \in Messages
    BY ONLY <1>1, <1>2, <2>1, ElementOfSeq
  <2> QED
    BY ONLY <2>2 DEF Asked
<1>9. w \in Seq(Asked) /\ Len(w) = L
  BY ONLY <1>6, <1>7, <1>8
<1>10. \A i \in 1..L : w[i] = Request(q[f + i - 1])
  BY ONLY <1>7
<1> QED
  BY ONLY <1>1, <1>5, <1>6, <1>9, <1>10 DEF IsWaiting

(* What the client sends is asked for last.                                *)
LEMMA WaitingAppends ==
  ASSUME NEW q, NEW o, IsUnder(q, o), NEW m \in Messages
  PROVE  /\ IsUnder(Append(q, m), o) /\ Len(Append(q, m)) = Len(q) + 1
         /\ Waiting(Append(q, m), o) = Append(Waiting(q, o), Request(m))
<1>1. PICK N, f, w, q2 : /\ N = Len(q) /\ f = FirstOf(o) /\ w = Waiting(q, o)
                         /\ q2 = Append(q, m)
  OBVIOUS
<1>2. q \in Seq(Messages) /\ (q = <<>> => o = 0)
  BY DEF IsUnder
<1>3. N \in Nat /\ (N = 0 => q = <<>>) /\ (q = <<>> => N = 0)
  BY <1>1, <1>2, EmptySeq
<1>4. q2 \in Seq(Messages) /\ Len(q2) = N + 1 /\ q2[N + 1] = m /\ \A i \in 1..N : q2[i] = q[i]
  BY ONLY <1>1, <1>2, m \in Messages, AppendProperties
<1>5. IsUnder(q2, o)
  <2>1. q2 # <<>>
    <3>1. Len(<<>>) = 0
      OBVIOUS
    <3> QED
      BY ONLY <1>3, <1>4, <3>1
  <2>2. CASE N = 0
    <3>1. o = 0
      BY <1>2, <1>3, <2>2
    <3>2. Len(Bytes[q2[1]]) \in Nat /\ Len(Bytes[q2[1]]) >= 1
      <4>1. q2[1] = m
        BY ONLY <1>4, <2>2
      <4> QED
        BY <4>1, BytesAre DEF IsBytes
    <3>3. PICK l : l = Len(Bytes[q2[1]])
      OBVIOUS
    <3>4. o \in 0..(l - 1)
      BY ONLY <3>1, <3>2, <3>3
    <3> QED
      BY ONLY <1>4, <2>1, <3>3, <3>4 DEF IsUnder
  <2>3. CASE N # 0
    <3>1. q # <<>>
      BY ONLY <1>3, <2>3
    <3>2. q2[1] = q[1]
      BY ONLY <1>3, <1>4, <2>3
    <3> QED
      BY ONLY <1>4, <2>1, <3>1, <3>2, IsUnder(q, o) DEF IsUnder
  <2> QED
    BY <2>2, <2>3
<1>6. IsWaiting(w, q, o) /\ IsWaiting(Waiting(q2, o), q2, o)
  BY <1>1, <1>5, WaitingIs
<1>7. PICK v : v = Waiting(q2, o)
  OBVIOUS
<1>8. PICK L : L = Len(w)
  OBVIOUS
<1>9. /\ w \in Seq(Asked) /\ L = N - f + 1 /\ L \in Nat
      /\ \A i \in 1..L : w[i] = Request(q[f + i - 1])
  BY ONLY <1>1, <1>6, <1>8 DEF IsWaiting
<1>10. /\ v \in Seq(Asked) /\ Len(v) = (N + 1) - f + 1
       /\ \A i \in 1..Len(v) : v[i] = Request(q2[f + i - 1])
  BY ONLY <1>1, <1>4, <1>6, <1>7 DEF IsWaiting
<1>11. Request(m) \in Asked
  BY DEF Asked
<1>12. PICK x, r : x = Append(w, r) /\ r = Request(m)
  OBVIOUS
<1>13. x \in Seq(Asked) /\ Len(x) = L + 1 /\ x[L + 1] = r /\ \A i \in 1..L : x[i] = w[i]
  <2>1. w \in Seq(Asked) /\ r \in Asked
    BY ONLY <1>9, <1>11, <1>12
  <2>2. /\ Append(w, r) \in Seq(Asked) /\ Len(Append(w, r)) = Len(w) + 1
        /\ \A i \in 1..Len(w) : Append(w, r)[i] = w[i]
        /\ Append(w, r)[Len(w) + 1] = r
    BY ONLY <2>1, AppendProperties
  <2> QED
    BY ONLY <1>8, <1>12, <2>2
<1>14. f \in 1..2
  BY <1>1 DEF FirstOf
<1>15. Len(v) = L + 1
  BY ONLY <1>3, <1>9, <1>10, <1>14
<1>16. \A i \in 1..(L + 1) : v[i] = x[i]
  <2> TAKE i \in 1..(L + 1)
  <2>1. v[i] = Request(q2[f + i - 1])
    BY ONLY <1>10, <1>15
  <2>2. CASE i = L + 1
    <3>1. f + i - 1 = N + 1
      BY ONLY <1>3, <1>9, <1>14, <2>2
    <3> QED
      BY ONLY <1>4, <1>12, <1>13, <2>1, <2>2, <3>1
  <2>3. CASE i # L + 1
    <3>1. i \in 1..L /\ f + i - 1 \in 1..N
      BY ONLY <1>3, <1>9, <1>14, <2>3, i \in 1..(L + 1)
    <3> QED
      BY ONLY <1>4, <1>9, <1>13, <2>1, <3>1
  <2> QED
    BY <2>2, <2>3
<1>17. Len(v) = Len(x) /\ \A i \in 1..Len(v) : v[i] = x[i]
  BY ONLY <1>13, <1>15, <1>16
<1>18. v = x
  BY ONLY <1>10, <1>13, <1>17, SeqEqual
<1> QED
  BY <1>1, <1>4, <1>5, <1>7, <1>12, <1>18

(* What a read touches are the first of the requests.                      *)
LEMMA WaitingDrops ==
  ASSUME NEW q, NEW o, IsUnder(q, o), q # <<>>, NEW n, NEW k, NEW q2, NEW o2,
         IsTaken(q, o, n, k, q2, o2)
  PROVE  \E j \in 0..Len(Waiting(q, o)) :
           /\ j = k + FirstOf(o2) - FirstOf(o)
           /\ Waiting(q2, o2) = SubSeq(Waiting(q, o), j + 1, Len(Waiting(q, o)))
<1>1. PICK N, f, f2, w, v : /\ N = Len(q) /\ f = FirstOf(o) /\ w = Waiting(q, o)
                            /\ f2 = FirstOf(o2) /\ v = Waiting(q2, o2)
  OBVIOUS
<1>2. q \in Seq(Messages)
  BY DEF IsUnder
<1>3. N \in Nat /\ N >= 1
  BY <1>1, <1>2, EmptySeq
<1>4. /\ k \in 0..N /\ q2 \in Seq(Messages) /\ Len(q2) = N - k /\ IsUnder(q2, o2)
      /\ (k = 0 => o2 # 0) /\ \A i \in 1..(N - k) : q2[i] = q[k + i]
  BY ONLY <1>1, IsTaken(q, o, n, k, q2, o2) DEF IsTaken
<1>5. f \in 1..2 /\ f2 \in 1..2 /\ (k = 0 => f2 = 2)
  BY <1>1, <1>4 DEF FirstOf
<1>6. IsWaiting(w, q, o) /\ IsWaiting(v, q2, o2)
  BY <1>1, <1>4, WaitingIs
<1>7. PICK L : L = Len(w)
  OBVIOUS
<1>8. /\ w \in Seq(Asked) /\ L = N - f + 1 /\ L \in Nat
      /\ \A i \in 1..L : w[i] = Request(q[f + i - 1])
  BY ONLY <1>1, <1>6, <1>7 DEF IsWaiting
<1>9. /\ v \in Seq(Asked) /\ Len(v) = (N - k) - f2 + 1 /\ Len(v) \in Nat
      /\ \A i \in 1..Len(v) : v[i] = Request(q2[f2 + i - 1])
  BY ONLY <1>1, <1>4, <1>6 DEF IsWaiting
<1>10. PICK j : j = k + f2 - f
  OBVIOUS
<1>11. j \in 0..L /\ Len(v) = L - j
  BY ONLY <1>3, <1>4, <1>5, <1>8, <1>9, <1>10
<1>12. PICK y : y = j + 1
  OBVIOUS
<1>13. PICK x : x = SubSeq(w, y, L)
  OBVIOUS
<1>14. /\ x \in Seq(Asked) /\ Len(x) = IF y <= L THEN L - y + 1 ELSE 0
       /\ \A i \in 1..(L - y + 1) : x[i] = w[y + i - 1]
  <2>1. y \in Int /\ L \in Int
    BY ONLY <1>8, <1>11, <1>12
  <2>2. \A i \in y..L : w[i] \in Asked
    <3> TAKE i \in y..L
    <3>1. i \in 1..Len(w)
      BY ONLY <1>7, <1>8, <1>11, <1>12, i \in y..L
    <3> QED
      BY ONLY <1>8, <3>1, ElementOfSeq
  <2> QED
    BY ONLY <1>13, <2>1, <2>2, SubSeqProperties
<1>15. Len(x) = L - j
  BY ONLY <1>8, <1>11, <1>12, <1>14
<1>16. \A i \in 1..Len(v) : v[i] = x[i]
  <2> TAKE i \in 1..Len(v)
  <2>1. v[i] = Request(q2[f2 + i - 1])
    BY ONLY <1>9
  <2>2. i \in 1..(L - y + 1) /\ y + i - 1 = j + i /\ j + i \in 1..L
    BY ONLY <1>8, <1>11, <1>12, i \in 1..Len(v)
  <2>3. x[i] = w[j + i]
    BY ONLY <1>14, <2>2
  <2>4. w[j + i] = Request(q[f + (j + i) - 1])
    BY ONLY <1>8, <2>2
  <2>5. f2 + i - 1 \in 1..(N - k) /\ k + (f2 + i - 1) = f + (j + i) - 1
    BY ONLY <1>3, <1>4, <1>5, <1>9, <1>10, i \in 1..Len(v)
  <2>6. q2[f2 + i - 1] = q[f + (j + i) - 1]
    BY ONLY <1>4, <2>5
  <2> QED
    BY ONLY <2>1, <2>3, <2>4, <2>6
<1>17. Len(v) = Len(x)
  BY ONLY <1>11, <1>15
<1>18. v = x
  BY ONLY <1>9, <1>14, <1>16, <1>17, SeqEqual
<1>19. SubSeq(w, j + 1, Len(w)) = v
  BY ONLY <1>7, <1>12, <1>13, <1>18
<1> QED
  BY ONLY <1>1, <1>7, <1>10, <1>11, <1>19

(* A read of the first message alone takes the first request.              *)
LEMMA WaitingServes ==
  ASSUME NEW q, NEW o, IsUnder(q, o), q # <<>>, o = 0, NEW q2, NEW o2,
         IsTaken(q, o, Len(Bytes[q[1]]), 1, q2, o2), o2 = 0
  PROVE  /\ Waiting(q, o) # <<>> /\ Head(Waiting(q, o)) = Request(q[1])
         /\ Waiting(q2, o2) = Tail(Waiting(q, o))
<1>1. PICK w : w = Waiting(q, o)
  OBVIOUS
<1>2. PICK N, f : N = Len(q) /\ f = FirstOf(o)
  OBVIOUS
<1>3. f = 1 /\ FirstOf(o2) = 1
  BY <1>2 DEF FirstOf
<1>4. IsWaiting(w, q, o)
  BY <1>1, WaitingIs
<1>5. q \in Seq(Messages)
  BY DEF IsUnder
<1>6. N \in Nat /\ N >= 1
  BY <1>2, <1>5, EmptySeq
<1>7. w \in Seq(Asked) /\ Len(w) = N - f + 1 /\ \A i \in 1..Len(w) : w[i] = Request(q[f + i - 1])
  BY ONLY <1>2, <1>4 DEF IsWaiting
<1>8. Len(w) = N
  BY ONLY <1>3, <1>6, <1>7
<1>9. w # <<>>
  <2>1. Len(<<>>) = 0
    OBVIOUS
  <2> QED
    BY ONLY <1>6, <1>8, <2>1
<1>10. Head(w) = Request(q[1])
  <2>1. 1 \in 1..Len(w) /\ f + 1 - 1 = 1
    BY ONLY <1>3, <1>6, <1>8
  <2>2. w[1] = Request(q[1])
    BY ONLY <1>7, <2>1
  <2>3. Head(w) = w[1]
    BY ONLY <1>7, <1>9
  <2> QED
    BY ONLY <2>2, <2>3
<1>11. PICK n, k : n = Len(Bytes[q[1]]) /\ k = 1
  OBVIOUS
<1>12. PICK j \in 0..Len(w) : j = k + FirstOf(o2) - FirstOf(o) /\ Waiting(q2, o2) = SubSeq(w, j + 1, Len(w))
  <2>1. IsTaken(q, o, n, k, q2, o2)
    BY <1>11
  <2> QED
    BY ONLY <1>1, <2>1, IsUnder(q, o), q # <<>>, WaitingDrops
<1>13. j + 1 = 2
  <2>1. FirstOf(o) = 1 /\ FirstOf(o2) = 1
    BY ONLY <1>2, <1>3
  <2>2. j = 1 + 1 - 1
    BY ONLY <1>11, <1>12, <2>1
  <2> QED
    BY ONLY <2>2
<1>14. Tail(w) = SubSeq(w, 2, Len(w))
  BY ONLY <1>7, <1>9, TailIsSubSeq
<1> QED
  BY ONLY <1>1, <1>9, <1>10, <1>12, <1>13, <1>14

-----------------------------------------------------------------------------
(* A step is of one client                                                 *)

(* Client c goes on with the values given, and down with any.              *)
Becomes(c, l, q, o, r, p) ==
  /\ link' = [link EXCEPT ![c] = l] /\ sent' = [sent EXCEPT ![c] = q]
  /\ off' = [off EXCEPT ![c] = o] /\ reply' = [reply EXCEPT ![c] = r]
  /\ pace' = [pace EXCEPT ![c] = p]

IsClient(l, q, o, r, p, most) ==
  /\ l \in {"open", "left", "closed"} /\ p \in {"whole", "cut", "back"}
  /\ IsUnder(q, o) /\ Len(q) <= most
  /\ (p = "cut") = (o # 0)
  /\ l = "closed" => q = <<>> /\ r = Silent /\ p = "whole"

LEMMA UnderTypes ==
  ASSUME NEW q, NEW o, IsUnder(q, o)
  PROVE  q \in Seq(Messages) /\ o \in Nat
<1>1. q \in Seq(Messages)
  BY DEF IsUnder
<1>2. CASE q = <<>>
  BY <1>1, <1>2 DEF IsUnder
<1>3. CASE q # <<>>
  <2>1. Len(q) \in Nat /\ Len(q) >= 1
    BY <1>1, <1>3, EmptySeq
  <2>2. 1 \in 1..Len(q)
    BY ONLY <2>1
  <2>3. q[1] \in Messages
    BY ONLY <1>1, <2>2, ElementOfSeq
  <2>4. Len(Bytes[q[1]]) \in Nat
    BY <2>3, BytesAre DEF IsBytes
  <2>5. o \in 0..(Len(Bytes[q[1]]) - 1)
    BY <1>3 DEF IsUnder
  <2> QED
    BY ONLY <1>1, <2>4, <2>5
<1> QED
  BY <1>2, <1>3

LEMMA OneClient ==
  ASSUME IInv, NEW c \in Clients, NEW l, NEW q, NEW o, NEW r, NEW p,
         IsClient(l, q, o, r, p, MaxSent[c]), Becomes(c, l, q, o, r, p), down' \in BOOLEAN
  PROVE  IInv'
<1>1. q \in Seq(Messages) /\ o \in Nat
  BY UnderTypes DEF IsClient
<1>2. /\ link \in [Clients -> {"open", "left", "closed"}]
      /\ sent \in [Clients -> Seq(Messages)] /\ off \in [Clients -> Nat]
      /\ pace \in [Clients -> {"whole", "cut", "back"}]
      /\ reply = [d \in Clients |-> reply[d]]
  BY DEF IInv, Shape, IsReply
<1>3. Shape'
  <2>1. link' \in [Clients -> {"open", "left", "closed"}]
    BY ONLY <1>2, IsClient(l, q, o, r, p, MaxSent[c]), Becomes(c, l, q, o, r, p) DEF IsClient, Becomes
  <2>2. sent' \in [Clients -> Seq(Messages)]
    BY ONLY <1>1, <1>2, Becomes(c, l, q, o, r, p) DEF Becomes
  <2>3. off' \in [Clients -> Nat]
    BY ONLY <1>1, <1>2, Becomes(c, l, q, o, r, p) DEF Becomes
  <2>4. pace' \in [Clients -> {"whole", "cut", "back"}]
    BY ONLY <1>2, IsClient(l, q, o, r, p, MaxSent[c]), Becomes(c, l, q, o, r, p) DEF IsClient, Becomes
  <2>5. reply' = [d \in Clients |-> reply'[d]]
    BY ONLY <1>2, Becomes(c, l, q, o, r, p) DEF Becomes
  <2> QED
    BY <2>1, <2>2, <2>3, <2>4, <2>5 DEF Shape, IsReply
<1>4. ASSUME NEW d \in Clients
      PROVE  ClientOK(d)'
  <2>1. CASE d = c
    <3>1. link'[d] = l /\ sent'[d] = q /\ off'[d] = o /\ reply'[d] = r /\ pace'[d] = p
      BY ONLY <1>2, <2>1, c \in Clients, Becomes(c, l, q, o, r, p) DEF Becomes
    <3> QED
      BY ONLY <2>1, <3>1, IsClient(l, q, o, r, p, MaxSent[c]) DEF IsClient, ClientOK
  <2>2. CASE d # c
    <3>1. /\ link'[d] = link[d] /\ sent'[d] = sent[d] /\ off'[d] = off[d]
          /\ reply'[d] = reply[d] /\ pace'[d] = pace[d]
      BY ONLY <1>2, <1>4, <2>2, Becomes(c, l, q, o, r, p) DEF Becomes
    <3>2. ClientOK(d)
      BY <1>4 DEF IInv
    <3> QED
      BY ONLY <3>1, <3>2 DEF ClientOK
  <2> QED
    BY <2>1, <2>2
<1> QED
  BY <1>3, <1>4 DEF IInv

(* What the service knows of a client.                                     *)
PendingOf(l, q, o) == IF l = "open" THEN Waiting(q, o) ELSE <<>>
ReplyOf(l, r) == IF l = "open" THEN r ELSE Silent
PaceOf(l, p) == IF l = "open" THEN p ELSE "whole"

Known(c, w, r, p) == OpenPending[c] = w /\ OpenReply[c] = r /\ OpenPace[c] = p

(* It goes on with these values for client c.                              *)
KnownBecomes(c, w, r, p) ==
  /\ OpenPending' = [OpenPending EXCEPT ![c] = w]
  /\ OpenReply' = [OpenReply EXCEPT ![c] = r]
  /\ OpenPace' = [OpenPace EXCEPT ![c] = p]

LEMMA KnownIs ==
  /\ OpenPending = [d \in Clients |-> PendingOf(link[d], sent[d], off[d])]
  /\ OpenReply = [d \in Clients |-> ReplyOf(link[d], reply[d])]
  /\ OpenPace = [d \in Clients |-> PaceOf(link[d], pace[d])]
<1>1. \A d : Untouched(d) = Waiting(sent[d], off[d])
  BY DEF Untouched, Waiting, FirstOf
<1>2. \A d : (IF Open(d) THEN Untouched(d) ELSE <<>>) = PendingOf(link[d], sent[d], off[d])
  BY <1>1 DEF PendingOf, Open
<1>3. OpenPending = [d \in Clients |-> PendingOf(link[d], sent[d], off[d])]
  BY ONLY <1>2 DEF OpenPending
<1>4. OpenReply = [d \in Clients |-> ReplyOf(link[d], reply[d])]
  BY ONLY DEF OpenReply, ReplyOf, Open
<1>5. OpenPace = [d \in Clients |-> PaceOf(link[d], pace[d])]
  BY ONLY DEF OpenPace, PaceOf, Open
<1> QED
  BY <1>3, <1>4, <1>5

LEMMA OneKnown ==
  ASSUME IInv, NEW c \in Clients, NEW l, NEW q, NEW o, NEW r, NEW p,
         Becomes(c, l, q, o, r, p)
  PROVE  /\ Known(c, PendingOf(link[c], sent[c], off[c]), ReplyOf(link[c], reply[c]),
                  PaceOf(link[c], pace[c]))
         /\ KnownBecomes(c, PendingOf(l, q, o), ReplyOf(l, r), PaceOf(l, p))
<1>1. /\ OpenPending = [d \in Clients |-> PendingOf(link[d], sent[d], off[d])]
      /\ OpenReply = [d \in Clients |-> ReplyOf(link[d], reply[d])]
      /\ OpenPace = [d \in Clients |-> PaceOf(link[d], pace[d])]
  BY ONLY KnownIs
<1>2. /\ OpenPending' = [d \in Clients |-> PendingOf(link'[d], sent'[d], off'[d])]
      /\ OpenReply' = [d \in Clients |-> ReplyOf(link'[d], reply'[d])]
      /\ OpenPace' = [d \in Clients |-> PaceOf(link'[d], pace'[d])]
  <2>1. \A d : Untouched(d)' = Waiting(sent'[d], off'[d])
    BY DEF Untouched, Waiting, FirstOf
  <2>2. \A d : (IF Open(d) THEN Untouched(d) ELSE <<>>)' = PendingOf(link'[d], sent'[d], off'[d])
    BY <2>1 DEF PendingOf, Open
  <2>3. OpenPending' = [d \in Clients |-> PendingOf(link'[d], sent'[d], off'[d])]
    BY ONLY <2>2 DEF OpenPending
  <2>4. OpenReply' = [d \in Clients |-> ReplyOf(link'[d], reply'[d])]
    BY ONLY DEF OpenReply, ReplyOf, Open
  <2>5. OpenPace' = [d \in Clients |-> PaceOf(link'[d], pace'[d])]
    BY ONLY DEF OpenPace, PaceOf, Open
  <2> QED
    BY <2>3, <2>4, <2>5
<1>3. /\ link = [d \in Clients |-> link[d]] /\ sent = [d \in Clients |-> sent[d]]
      /\ off = [d \in Clients |-> off[d]] /\ pace = [d \in Clients |-> pace[d]]
      /\ reply = [d \in Clients |-> reply[d]]
  BY DEF IInv, Shape, IsReply
<1>4. link'[c] = l /\ sent'[c] = q /\ off'[c] = o /\ reply'[c] = r /\ pace'[c] = p
  BY ONLY <1>3, c \in Clients, Becomes(c, l, q, o, r, p) DEF Becomes
<1>5. \A d \in Clients : d # c => /\ link'[d] = link[d] /\ sent'[d] = sent[d] /\ off'[d] = off[d]
                                  /\ reply'[d] = reply[d] /\ pace'[d] = pace[d]
  BY ONLY <1>3, Becomes(c, l, q, o, r, p) DEF Becomes
<1>6. OpenPending' = [OpenPending EXCEPT ![c] = PendingOf(l, q, o)]
  BY ONLY <1>1, <1>2, <1>4, <1>5, c \in Clients
<1>7. OpenReply' = [OpenReply EXCEPT ![c] = ReplyOf(l, r)]
  BY ONLY <1>1, <1>2, <1>4, <1>5, c \in Clients
<1>8. OpenPace' = [OpenPace EXCEPT ![c] = PaceOf(l, p)]
  BY ONLY <1>1, <1>2, <1>4, <1>5, c \in Clients
<1> QED
  BY ONLY <1>1, <1>6, <1>7, <1>8, c \in Clients DEF Known, KnownBecomes

LEMMA Kept ==
  ASSUME NEW f, f = [d \in Clients |-> f[d]], NEW c \in Clients
  PROVE  f = [f EXCEPT ![c] = f[c]]
  OBVIOUS

LEMMA KnownKept ==
  ASSUME NEW c \in Clients, NEW w, NEW r, NEW p, Known(c, w, r, p),
         NEW w2, NEW r2, NEW p2, KnownBecomes(c, w2, r2, p2)
  PROVE  /\ w2 = w => OpenPending' = OpenPending
         /\ r2 = r => OpenReply' = OpenReply
         /\ p2 = p => OpenPace' = OpenPace
         /\ OpenReply'[c] = r2
<1>1. /\ OpenPending = [d \in Clients |-> PendingOf(link[d], sent[d], off[d])]
      /\ OpenReply = [d \in Clients |-> ReplyOf(link[d], reply[d])]
      /\ OpenPace = [d \in Clients |-> PaceOf(link[d], pace[d])]
  BY ONLY KnownIs
<1>2. PICK a, b, e : a = OpenPending /\ b = OpenReply /\ e = OpenPace
  OBVIOUS
<1>3. /\ a = [d \in Clients |-> a[d]] /\ b = [d \in Clients |-> b[d]] /\ e = [d \in Clients |-> e[d]]
  BY ONLY <1>1, <1>2
<1>4. /\ a = [a EXCEPT ![c] = a[c]] /\ b = [b EXCEPT ![c] = b[c]] /\ e = [e EXCEPT ![c] = e[c]]
  BY ONLY <1>3, c \in Clients, Kept
<1>5. w = a[c] /\ r = b[c] /\ p = e[c]
  BY ONLY <1>2, Known(c, w, r, p) DEF Known
<1>6. /\ OpenPending' = [a EXCEPT ![c] = w2] /\ OpenReply' = [b EXCEPT ![c] = r2]
      /\ OpenPace' = [e EXCEPT ![c] = p2]
  BY ONLY <1>2, KnownBecomes(c, w2, r2, p2) DEF KnownBecomes
<1>7. OpenReply'[c] = r2
  BY ONLY <1>3, <1>6, c \in Clients
<1> QED
  BY ONLY <1>2, <1>4, <1>5, <1>6, <1>7

-----------------------------------------------------------------------------
(* What the service does when client c goes on so                          *)

LEMMA ServiceSends ==
  ASSUME NEW c \in Clients, NEW w, NEW r, NEW p, Known(c, w, r, p), NEW m \in Messages,
         KnownBecomes(c, Append(w, Request(m)), Silent, p), ~down, down' = down
  PROVE  S!Next
<1>1. PICK w2, r2 : w2 = Append(w, Request(m)) /\ r2 = Silent
  OBVIOUS
<1>2. KnownBecomes(c, w2, r2, p)
  BY <1>1
<1>3. OpenPace' = OpenPace
  BY ONLY <1>2, c \in Clients, Known(c, w, r, p), KnownKept
<1>4. OpenPending[c] = w
  BY DEF Known
<1>5. S!Send(c, Request(m))
  BY <1>1, <1>2, <1>3, <1>4 DEF S!Send, KnownBecomes
<1> QED
  BY <1>5 DEF S!Next

LEMMA ServiceServes ==
  ASSUME NEW c \in Clients, NEW w, NEW r, NEW p, Known(c, w, r, p), p # "cut", w # <<>>,
         NEW a, a = Answer(Head(w)), NEW r2, r2 = IF a = Silent THEN r ELSE a,
         NEW w2, w2 = Tail(w), NEW p2, p2 = "whole",
         KnownBecomes(c, w2, r2, p2), ~down, down' = down
  PROVE  S!Next
<1>1. OpenPending[c] = w /\ OpenPace[c] = p
  BY DEF Known
<1>2. r2 = r => OpenReply' = OpenReply
  BY ONLY c \in Clients, Known(c, w, r, p), KnownBecomes(c, w2, r2, p2), KnownKept
<1>3. OpenReply' = IF a = Silent THEN OpenReply ELSE [OpenReply EXCEPT ![c] = a]
  BY <1>2 DEF KnownBecomes
<1>4. S!Serve(c)
  BY <1>1, <1>3 DEF S!Serve, KnownBecomes
<1> QED
  BY <1>4 DEF S!Next

LEMMA ServiceMisreads ==
  ASSUME NEW c \in Clients, NEW w, NEW r, NEW p, Known(c, w, r, p),
         NEW j \in 0..Len(w), NEW w2, w2 = SubSeq(w, j + 1, Len(w)),
         NEW r2, NEW p2 \in {"cut", "back"},
         KnownBecomes(c, w2, r2, p2), ~down, down' = down
  PROVE  S!Next
<1>1. OpenPending[c] = w
  BY DEF Known
<1>2. OpenReply'[c] = r2
  BY ONLY c \in Clients, Known(c, w, r, p), KnownBecomes(c, w2, r2, p2), KnownKept
<1>3. /\ OpenPending' = [OpenPending EXCEPT ![c] = w2]
      /\ OpenReply' = [OpenReply EXCEPT ![c] = OpenReply'[c]]
      /\ OpenPace' = [OpenPace EXCEPT ![c] = p2]
  BY <1>2 DEF KnownBecomes
<1>4. \E n \in 0..Len(OpenPending[c]) :
        OpenPending' = [OpenPending EXCEPT ![c] = SubSeq(@, n + 1, Len(@))]
  BY <1>1, <1>3
<1>5. S!Misread(c)
  BY <1>3, <1>4 DEF S!Misread
<1> QED
  BY <1>5 DEF S!Next

LEMMA ServiceLeaves ==
  ASSUME NEW c \in Clients, KnownBecomes(c, <<>>, Silent, "whole"), ~down, down' = down
  PROVE  S!Next
<1>1. S!Leave(c)
  BY DEF S!Leave, KnownBecomes
<1> QED
  BY <1>1 DEF S!Next

LEMMA ServiceStutters ==
  ASSUME NEW c \in Clients, NEW w, NEW r, NEW p, Known(c, w, r, p), KnownBecomes(c, w, r, p),
         down' = down
  PROVE  UNCHANGED S!vars
<1>1. OpenPending' = OpenPending /\ OpenReply' = OpenReply /\ OpenPace' = OpenPace
  BY ONLY c \in Clients, Known(c, w, r, p), KnownBecomes(c, w, r, p), KnownKept
<1> QED
  BY <1>1 DEF S!vars

-----------------------------------------------------------------------------
(* A step of the program                                                   *)

Follows == IInv' /\ [S!Next]_S!vars

LEMMA ClientBefore ==
  ASSUME IInv, NEW c \in Clients
  PROVE  /\ ClientOK(c) /\ down \in BOOLEAN
         /\ IsClient(link[c], sent[c], off[c], reply[c], pace[c], MaxSent[c])
         /\ link = [link EXCEPT ![c] = link[c]] /\ sent = [sent EXCEPT ![c] = sent[c]]
         /\ off = [off EXCEPT ![c] = off[c]] /\ reply = [reply EXCEPT ![c] = reply[c]]
         /\ pace = [pace EXCEPT ![c] = pace[c]]
         /\ MaxSent[c] \in Nat
<1>1. /\ link \in [Clients -> {"open", "left", "closed"}]
      /\ sent \in [Clients -> Seq(Messages)] /\ off \in [Clients -> Nat]
      /\ pace \in [Clients -> {"whole", "cut", "back"}]
      /\ reply = [d \in Clients |-> reply[d]] /\ down \in BOOLEAN
  BY DEF IInv, Shape, IsReply
<1>2. ClientOK(c)
  BY DEF IInv
<1>3. link[c] \in {"open", "left", "closed"} /\ pace[c] \in {"whole", "cut", "back"}
  BY ONLY <1>1, c \in Clients
<1>4. IsClient(link[c], sent[c], off[c], reply[c], pace[c], MaxSent[c])
  BY ONLY <1>2, <1>3 DEF IsClient, ClientOK
<1>5. link = [link EXCEPT ![c] = link[c]] /\ sent = [sent EXCEPT ![c] = sent[c]]
  BY ONLY <1>1, c \in Clients
<1>6. off = [off EXCEPT ![c] = off[c]] /\ reply = [reply EXCEPT ![c] = reply[c]]
  BY ONLY <1>1, c \in Clients
<1>7. pace = [pace EXCEPT ![c] = pace[c]]
  BY ONLY <1>1, c \in Clients
<1>8. MaxSent[c] \in Nat
  BY ConnectionAssumption
<1> QED
  BY <1>1, <1>2, <1>4, <1>5, <1>6, <1>7, <1>8

LEMMA SendFollows ==
  ASSUME IInv, NEW c \in Clients, ~down, send(c)
  PROVE  Follows
<1>1. PICK m \in Sends[c] : sent' = [sent EXCEPT ![c] = Append(@, m)]
  BY DEF send
<1>2. m \in Messages
  BY DEF Messages
<1>3. PICK q, o, q2, b : q = sent[c] /\ o = off[c] /\ q2 = Append(q, m) /\ b = MaxSent[c]
  OBVIOUS
<1>4. /\ link[c] = "open" /\ Len(q) < b /\ reply' = [reply EXCEPT ![c] = Silent]
      /\ link' = link /\ off' = off /\ pace' = pace /\ down' = down
  BY <1>3 DEF send
<1>5. IsClient(link[c], q, o, reply[c], pace[c], b) /\ b \in Nat /\ down \in BOOLEAN
  BY <1>3, ClientBefore
<1>6. IsUnder(q, o) /\ Len(q) <= b /\ (pace[c] = "cut") = (o # 0)
      /\ pace[c] \in {"whole", "cut", "back"}
  BY ONLY <1>5 DEF IsClient
<1>7. IsUnder(q2, o) /\ Len(q2) = Len(q) + 1 /\ Waiting(q2, o) = Append(Waiting(q, o), Request(m))
  BY ONLY <1>2, <1>3, <1>6, WaitingAppends
<1>8. Len(q2) <= b
  <2>1. q \in Seq(Messages)
    BY ONLY <1>6 DEF IsUnder
  <2>2. Len(q) \in Nat
    BY ONLY <2>1
  <2> QED
    BY ONLY <1>4, <1>5, <1>7, <2>2
<1>9. IsClient(link[c], q2, o, Silent, pace[c], b)
  BY ONLY <1>4, <1>6, <1>7, <1>8 DEF IsClient
<1>10. Becomes(c, link[c], q2, o, Silent, pace[c])
  <2>1. link' = [link EXCEPT ![c] = link[c]] /\ off' = [off EXCEPT ![c] = o]
        /\ pace' = [pace EXCEPT ![c] = pace[c]]
    BY <1>3, <1>4, ClientBefore
  <2>2. sent' = [sent EXCEPT ![c] = q2]
    BY ONLY <1>1, <1>3
  <2> QED
    BY ONLY <1>4, <2>1, <2>2 DEF Becomes
<1>11. IInv'
  BY <1>3, <1>4, <1>5, <1>9, <1>10, OneClient
<1>12. S!Next
  <2>1. PICK w, r, p : w = Waiting(q, o) /\ r = ReplyOf(link[c], reply[c]) /\ p = PaceOf(link[c], pace[c])
    OBVIOUS
  <2>2. /\ Known(c, PendingOf(link[c], q, o), r, p)
        /\ KnownBecomes(c, PendingOf(link[c], q2, o), ReplyOf(link[c], Silent), p)
    BY <1>3, <1>10, <2>1, OneKnown
  <2>3. /\ PendingOf(link[c], q, o) = w /\ ReplyOf(link[c], Silent) = Silent
        /\ PendingOf(link[c], q2, o) = Append(w, Request(m))
    BY ONLY <1>4, <1>7, <2>1 DEF PendingOf, ReplyOf
  <2>4. Known(c, w, r, p) /\ KnownBecomes(c, Append(w, Request(m)), Silent, p)
    BY ONLY <2>2, <2>3
  <2> QED
    BY <1>2, <1>4, <2>4, ServiceSends
<1> QED
  BY <1>11, <1>12 DEF Follows

LEMMA LeaveFollows ==
  ASSUME IInv, NEW c \in Clients, ~down, leave(c)
  PROVE  Follows
<1>1. PICK q, o, p, b : q = sent[c] /\ o = off[c] /\ p = pace[c] /\ b = MaxSent[c]
  OBVIOUS
<1>2. /\ link[c] = "open" /\ link' = [link EXCEPT ![c] = "left"]
      /\ reply' = [reply EXCEPT ![c] = Silent] /\ sent' = sent /\ off' = off /\ pace' = pace
      /\ down' = down
  BY DEF leave
<1>3. IsClient(link[c], q, o, reply[c], p, b) /\ down \in BOOLEAN
  BY <1>1, ClientBefore
<1>4. IsClient("left", q, o, Silent, p, b)
  BY ONLY <1>3 DEF IsClient
<1>5. Becomes(c, "left", q, o, Silent, p)
  <2>1. sent' = [sent EXCEPT ![c] = q] /\ off' = [off EXCEPT ![c] = o] /\ pace' = [pace EXCEPT ![c] = p]
    BY <1>1, <1>2, ClientBefore
  <2> QED
    BY ONLY <1>2, <2>1 DEF Becomes
<1>6. IInv'
  BY <1>1, <1>2, <1>3, <1>4, <1>5, OneClient
<1>7. KnownBecomes(c, PendingOf("left", q, o), ReplyOf("left", Silent), PaceOf("left", p))
  BY <1>5, OneKnown
<1>8. KnownBecomes(c, <<>>, Silent, "whole")
  BY ONLY <1>7 DEF PendingOf, ReplyOf, PaceOf
<1> QED
  BY <1>2, <1>6, <1>8, ServiceLeaves DEF Follows

LEMMA NoneUnder ==
  /\ IsUnder(<<>>, 0) /\ Waiting(<<>>, 0) = <<>>
  /\ Len(<<>>) = 0
<1>1. Len(<<>>) = 0 /\ <<>> \in Seq(Messages)
  BY EmptySeq
<1>2. IsUnder(<<>>, 0)
  BY <1>1 DEF IsUnder
<1>3. FirstOf(0) = 1
  BY DEF FirstOf
<1>4. Len(<<>>) - FirstOf(0) + 1 = 0
  BY ONLY <1>1, <1>3
<1>5. Waiting(<<>>, 0) = [i \in 1..0 |-> Request(<<>>[FirstOf(0) + i - 1])]
  BY ONLY <1>4 DEF Waiting
<1>6. Waiting(<<>>, 0) = <<>>
  BY ONLY <1>5
<1> QED
  BY <1>1, <1>2, <1>6

LEMMA ErrorFollows ==
  ASSUME IInv, NEW c \in Clients, ~down, errorCallback(c)
  PROVE  Follows
<1>1. /\ link[c] = "left" /\ link' = [link EXCEPT ![c] = "closed"]
      /\ sent' = [sent EXCEPT ![c] = <<>>] /\ off' = [off EXCEPT ![c] = 0]
      /\ reply' = [reply EXCEPT ![c] = Silent] /\ pace' = [pace EXCEPT ![c] = "whole"]
      /\ down' = down
  BY DEF errorCallback
<1>2. MaxSent[c] \in Nat /\ down \in BOOLEAN
  BY ClientBefore
<1>3. IsClient("closed", <<>>, 0, Silent, "whole", MaxSent[c])
  BY ONLY <1>2, NoneUnder DEF IsClient
<1>4. Becomes(c, "closed", <<>>, 0, Silent, "whole")
  BY ONLY <1>1 DEF Becomes
<1>5. IInv'
  BY <1>1, <1>2, <1>3, <1>4, OneClient
<1>6. /\ Known(c, PendingOf(link[c], sent[c], off[c]), ReplyOf(link[c], reply[c]), PaceOf(link[c], pace[c]))
      /\ KnownBecomes(c, PendingOf("closed", <<>>, 0), ReplyOf("closed", Silent), PaceOf("closed", "whole"))
  BY <1>4, OneKnown
<1>7. Known(c, <<>>, Silent, "whole") /\ KnownBecomes(c, <<>>, Silent, "whole")
  BY ONLY <1>1, <1>6 DEF PendingOf, ReplyOf, PaceOf
<1>8. UNCHANGED S!vars
  BY <1>1, <1>7, ServiceStutters
<1> QED
  BY <1>5, <1>8 DEF Follows

LEMMA AcceptFollows ==
  ASSUME IInv, NEW c \in Clients, ~down, doAccept(c)
  PROVE  Follows
<1>1. /\ link[c] = "closed" /\ link' = [link EXCEPT ![c] = "open"]
      /\ sent' = sent /\ off' = off /\ reply' = reply /\ pace' = pace /\ down' = down
  BY DEF doAccept
<1>2. PICK q, o, r, p, b : q = sent[c] /\ o = off[c] /\ r = reply[c] /\ p = pace[c] /\ b = MaxSent[c]
  OBVIOUS
<1>3. IsClient(link[c], q, o, r, p, b) /\ down \in BOOLEAN
  BY <1>2, ClientBefore
<1>4. q = <<>> /\ o = 0 /\ r = Silent /\ p = "whole"
  BY ONLY <1>1, <1>3 DEF IsClient, IsUnder
<1>5. IsClient("open", q, o, r, p, b)
  BY ONLY <1>3, <1>4 DEF IsClient
<1>6. Becomes(c, "open", q, o, r, p)
  <2>1. /\ sent' = [sent EXCEPT ![c] = q] /\ off' = [off EXCEPT ![c] = o]
        /\ reply' = [reply EXCEPT ![c] = r] /\ pace' = [pace EXCEPT ![c] = p]
    BY <1>1, <1>2, ClientBefore
  <2> QED
    BY ONLY <1>1, <2>1 DEF Becomes
<1>7. IInv'
  BY <1>1, <1>2, <1>3, <1>5, <1>6, OneClient
<1>8. /\ Known(c, PendingOf(link[c], q, o), ReplyOf(link[c], r), PaceOf(link[c], p))
      /\ KnownBecomes(c, PendingOf("open", q, o), ReplyOf("open", r), PaceOf("open", p))
  BY <1>2, <1>6, OneKnown
<1>9. Waiting(q, o) = <<>>
  BY ONLY <1>4, NoneUnder
<1>10. Known(c, <<>>, Silent, "whole") /\ KnownBecomes(c, <<>>, Silent, "whole")
  BY ONLY <1>1, <1>4, <1>8, <1>9 DEF PendingOf, ReplyOf, PaceOf
<1>11. UNCHANGED S!vars
  BY <1>1, <1>10, ServiceStutters
<1> QED
  BY <1>7, <1>11 DEF Follows

LEMMA OverrunFollows ==
  ASSUME IInv, NEW c \in Clients, ~down, readOverrun(c)
  PROVE  Follows
<1>1. down' = TRUE /\ link' = link /\ sent' = sent /\ off' = off /\ reply' = reply /\ pace' = pace
  BY DEF readOverrun
<1>2. IInv'
  <2>1. Shape'
    BY <1>1 DEF IInv, Shape, IsReply
  <2>2. \A d \in Clients : ClientOK(d)'
    <3> TAKE d \in Clients
    <3>1. ClientOK(d)
      BY DEF IInv
    <3> QED
      BY ONLY <1>1, <3>1 DEF ClientOK
  <2> QED
    BY <2>1, <2>2 DEF IInv
<1>3. OpenPending' = OpenPending
  BY ONLY <1>1 DEF OpenPending, Open, Untouched
<1>4. OpenReply' = OpenReply /\ OpenPace' = OpenPace
  BY ONLY <1>1 DEF OpenReply, OpenPace, Open
<1>5. S!Next
  BY <1>1, <1>3, <1>4 DEF S!Next
<1> QED
  BY <1>2, <1>5 DEF Follows

LEMMA ConsumeIs ==
  ASSUME NEW c, IsUnder(sent[c], off[c]), sent[c] # <<>>, NEW n \in Nat, Consume(c, n)
  PROVE  \E k : /\ IsWhole(Ends(sent[c]), Len(sent[c]), off[c] + n, k)
                /\ sent' = [sent EXCEPT ![c] = SubSeq(@, k + 1, Len(@))]
                /\ off' = [off EXCEPT ![c] = @ + n - Ends(sent[c])[k]]
                /\ pace' = [pace EXCEPT ![c] =
                              IF Whole(c, n) THEN "whole" ELSE IF off'[c] # 0 THEN "cut" ELSE "back"]
<1>1. PICK N, ends, r : N = Len(sent[c]) /\ ends = Ends(sent[c]) /\ r = off[c] + n
  OBVIOUS
<1>2. sent[c] \in Seq(Messages) /\ off[c] \in Nat
  BY UnderTypes
<1>3. N \in Nat /\ r \in Nat
  BY <1>1, <1>2
<1>4. IsPacked(sent[c], Ends(sent[c]), Joined(PartsOf(sent[c])))
  BY <1>2, Packs
<1>5. ends \in [0..N -> Nat] /\ ends[0] = 0
  BY ONLY <1>1, <1>4 DEF IsPacked
<1>6. \E k \in 0..N : IsWhole(ends, N, r, k)
  BY ONLY <1>3, <1>5, WholeExists
<1>7. \E k \in DOMAIN ends : ends[k] <= r /\ (k = N \/ ends[k + 1] > r)
  BY ONLY <1>5, <1>6 DEF IsWhole
<1>8. PICK k : k = CHOOSE i \in DOMAIN ends : ends[i] <= r /\ (i = N \/ ends[i + 1] > r)
  OBVIOUS
<1>9. k \in DOMAIN ends /\ ends[k] <= r /\ (k = N \/ ends[k + 1] > r)
  BY ONLY <1>7, <1>8
<1>10. IsWhole(ends, N, r, k)
  BY ONLY <1>5, <1>9 DEF IsWhole
<1>11. /\ sent' = [sent EXCEPT ![c] = SubSeq(@, k + 1, Len(@))]
       /\ off' = [off EXCEPT ![c] = @ + n - ends[k]]
       /\ pace' = [pace EXCEPT ![c] =
                     IF Whole(c, n) THEN "whole" ELSE IF off'[c] # 0 THEN "cut" ELSE "back"]
  BY ONLY <1>1, <1>8, Consume(c, n) DEF Consume
<1> QED
  BY ONLY <1>1, <1>10, <1>11

(* A read of n bytes that leaves q2 and o2, k messages less.               *)
IsReadOf(c, n, k, q2, o2, r2, p2) ==
  /\ n \in Nat /\ n >= 1 /\ n <= Len(Unread(c))
  /\ IsTaken(sent[c], off[c], n, k, q2, o2)
  /\ p2 = IF Whole(c, n) THEN "whole" ELSE IF o2 # 0 THEN "cut" ELSE "back"
  /\ r2 = IF Answer(Tokens(c, n)) = Silent THEN reply[c] ELSE Answer(Tokens(c, n))
  /\ Becomes(c, link[c], q2, o2, r2, p2)

LEMMA ReadIs ==
  ASSUME IInv, NEW c \in Clients, readCallback(c)
  PROVE  \E n, k, q2, o2, r2, p2 : IsReadOf(c, n, k, q2, o2, r2, p2)
<1>1. sent[c] # <<>> /\ link' = link
  BY DEF readCallback
<1>2. PICK n \in 1..Len(Unread(c)) : Consume(c, n) /\ readAnswered(c, n)
  BY DEF readCallback
<1>3. PICK q, o, ends : q = sent[c] /\ o = off[c] /\ ends = Ends(sent[c])
  OBVIOUS
<1>4. IsUnder(q, o) /\ q # <<>>
  BY <1>1, <1>3, ClientBefore DEF ClientOK
<1>5. q \in Seq(Messages) /\ o \in Nat
  BY ONLY <1>4, UnderTypes
<1>6. PICK all : all = Joined(PartsOf(sent[c]))
  OBVIOUS
<1>7. /\ Len(Unread(c)) = Len(all) - o /\ Len(Unread(c)) \in Nat /\ Len(all) \in Nat
      /\ Ends(sent[c])[Len(sent[c])] = Len(all)
  BY <1>3, <1>4, <1>6, UnreadIs
<1>8. n \in Nat /\ n >= 1 /\ n <= Len(Unread(c))
  BY ONLY <1>2, <1>7
<1>9. o + n <= Ends(q)[Len(q)]
  BY ONLY <1>3, <1>5, <1>7, <1>8
<1>10. PICK k : /\ IsWhole(ends, Len(q), o + n, k)
                /\ sent' = [sent EXCEPT ![c] = SubSeq(@, k + 1, Len(@))]
                /\ off' = [off EXCEPT ![c] = @ + n - ends[k]]
                /\ pace' = [pace EXCEPT ![c] =
                              IF Whole(c, n) THEN "whole" ELSE IF off'[c] # 0 THEN "cut" ELSE "back"]
  BY ONLY <1>2, <1>3, <1>4, <1>8, ConsumeIs
<1>11. PICK q2, o2 : q2 = SubSeq(q, k + 1, Len(q)) /\ o2 = o + n - ends[k]
  OBVIOUS
<1>12. IsTaken(q, o, n, k, q2, o2)
  <2>1. IsWhole(Ends(q), Len(q), o + n, k)
    BY ONLY <1>3, <1>10
  <2>2. IsTaken(q, o, n, k, SubSeq(q, k + 1, Len(q)), o + n - Ends(q)[k])
    BY ONLY <1>4, <1>8, <1>9, <2>1, Takes
  <2> QED
    BY ONLY <1>3, <1>11, <2>2
<1>13. off \in [Clients -> Nat]
  BY DEF IInv, Shape
<1>14. sent' = [sent EXCEPT ![c] = q2] /\ off' = [off EXCEPT ![c] = o2]
  BY ONLY <1>3, <1>10, <1>11
<1>15. off'[c] = o2
  BY ONLY <1>13, <1>14, c \in Clients
<1>16. PICK p2 : p2 = IF Whole(c, n) THEN "whole" ELSE IF o2 # 0 THEN "cut" ELSE "back"
  OBVIOUS
<1>17. pace' = [pace EXCEPT ![c] = p2]
  BY ONLY <1>10, <1>15, <1>16
<1>18. PICK a : a = Answer(Tokens(c, n))
  OBVIOUS
<1>19. PICK r2 : r2 = IF a = Silent THEN reply[c] ELSE a
  OBVIOUS
<1>20. reply' = [reply EXCEPT ![c] = r2]
  <2>1. reply' = IF a = Silent THEN reply ELSE [reply EXCEPT ![c] = a]
    BY ONLY <1>2, <1>18 DEF readAnswered
  <2>2. reply = [reply EXCEPT ![c] = reply[c]]
    BY ClientBefore
  <2> QED
    BY ONLY <1>19, <2>1, <2>2
<1>21. link' = [link EXCEPT ![c] = link[c]]
  BY <1>1, ClientBefore
<1>22. Becomes(c, link[c], q2, o2, r2, p2)
  BY ONLY <1>14, <1>17, <1>20, <1>21 DEF Becomes
<1>23. IsReadOf(c, n, k, q2, o2, r2, p2)
  BY ONLY <1>3, <1>8, <1>12, <1>16, <1>18, <1>19, <1>22 DEF IsReadOf
<1> QED
  BY <1>23

(* A whole message is answered for what it asks.                           *)
LEMMA WholeAnswered ==
  ASSUME NEW c, IsUnder(sent[c], off[c]), sent[c] # <<>>,
         NEW n \in Nat, n >= 1, n <= Len(Unread(c)), Whole(c, n)
  PROVE  Answer(Tokens(c, n)) = Answer(Request(sent[c][1]))
<1>1. PICK m, t : m = sent[c][1] /\ t = SubSeq(Unread(c), 1, n)
  OBVIOUS
<1>2. off[c] = 0 /\ n = Len(Bytes[m])
  BY <1>1 DEF Whole
<1>3. Starts(t, m, n)
  BY <1>1, <1>2, ReadStarts
<1>4. t = Bytes[m]
  BY ONLY <1>2, <1>3 DEF Starts
<1>5. m \in Messages
  <2>1. sent[c] \in Seq(Messages)
    BY DEF IsUnder
  <2>2. Len(sent[c]) \in Nat /\ Len(sent[c]) >= 1
    BY ONLY <2>1, sent[c] # <<>>, EmptySeq
  <2>3. 1 \in 1..Len(sent[c])
    BY ONLY <2>2
  <2> QED
    BY ONLY <1>1, <2>1, <2>3, ElementOfSeq
<1>6. bufferTokenizer(Bytes[m]) = IF m.lost = 0 THEN m.args ELSE NULL
  BY ONLY <1>5, WholeMessage
<1>7. Tokens(c, n) = IF n <= InputBuffer THEN bufferTokenizer(t) ELSE NULL
  BY ONLY <1>1 DEF Tokens
<1>8. Tokens(c, n) = Request(m)
  BY ONLY <1>2, <1>4, <1>6, <1>7 DEF Request
<1> QED
  BY ONLY <1>1, <1>8

LEMMA ReadFollows ==
  ASSUME IInv, NEW c \in Clients, ~down, readCallback(c)
  PROVE  Follows
<1>1. sent[c] # <<>> /\ link[c] # "closed" /\ down' = down
  BY DEF readCallback
<1>2. PICK n, k, q2, o2, r2, p2 : IsReadOf(c, n, k, q2, o2, r2, p2)
  BY ReadIs
<1>3. PICK q, o, l, b : q = sent[c] /\ o = off[c] /\ l = link[c] /\ b = MaxSent[c]
  OBVIOUS
<1>4. /\ n \in Nat /\ n >= 1 /\ n <= Len(Unread(c)) /\ IsTaken(q, o, n, k, q2, o2)
      /\ p2 = (IF Whole(c, n) THEN "whole" ELSE IF o2 # 0 THEN "cut" ELSE "back")
      /\ r2 = (IF Answer(Tokens(c, n)) = Silent THEN reply[c] ELSE Answer(Tokens(c, n)))
      /\ Becomes(c, l, q2, o2, r2, p2)
  BY ONLY <1>2, <1>3 DEF IsReadOf
<1>5. /\ IsClient(l, q, o, reply[c], pace[c], b) /\ b \in Nat /\ down \in BOOLEAN
  BY <1>3, ClientBefore
<1>6. /\ IsUnder(q, o) /\ q # <<>> /\ Len(q) <= b /\ l \in {"open", "left", "closed"} /\ l # "closed"
      /\ (pace[c] = "cut") = (o # 0)
  BY ONLY <1>1, <1>3, <1>5 DEF IsClient
<1>7. /\ k \in 0..Len(q) /\ Len(q2) = Len(q) - k /\ IsUnder(q2, o2)
      /\ (o = 0 /\ n = Len(Bytes[q[1]]) => k = 1 /\ o2 = 0)
  BY ONLY <1>4 DEF IsTaken
<1>8. Whole(c, n) => o = 0 /\ n = Len(Bytes[q[1]]) /\ k = 1 /\ o2 = 0
  BY ONLY <1>3, <1>7 DEF Whole
<1>9. IsClient(l, q2, o2, r2, p2, b)
  <2>1. Len(q2) <= b
    <3>1. q \in Seq(Messages)
      BY ONLY <1>6 DEF IsUnder
    <3>2. Len(q) \in Nat
      BY ONLY <3>1
    <3> QED
      BY ONLY <1>5, <1>6, <1>7, <3>2
  <2>2. p2 \in {"whole", "cut", "back"} /\ (p2 = "cut") = (o2 # 0)
    BY ONLY <1>4, <1>8
  <2> QED
    BY ONLY <1>6, <1>7, <2>1, <2>2 DEF IsClient
<1>10. IInv'
  BY <1>1, <1>3, <1>4, <1>5, <1>9, OneClient
<1>11. PICK w, r, p : /\ w = PendingOf(l, q, o) /\ r = ReplyOf(l, reply[c])
                      /\ p = PaceOf(l, pace[c])
  OBVIOUS
<1>12. /\ Known(c, w, r, p)
       /\ KnownBecomes(c, PendingOf(l, q2, o2), ReplyOf(l, r2), PaceOf(l, p2))
  BY <1>3, <1>4, <1>11, OneKnown
<1>13. [S!Next]_S!vars
  <2>1. CASE l # "open"
    <3>1. /\ w = PendingOf(l, q2, o2) /\ r = ReplyOf(l, r2) /\ p = PaceOf(l, p2)
      BY ONLY <1>11, <2>1 DEF PendingOf, ReplyOf, PaceOf
    <3>2. KnownBecomes(c, w, r, p)
      BY ONLY <1>12, <3>1
    <3> QED
      BY <1>1, <1>12, <3>2, ServiceStutters
  <2>2. CASE l = "open"
    <3>1. /\ w = Waiting(q, o) /\ r = reply[c] /\ p = pace[c]
          /\ KnownBecomes(c, Waiting(q2, o2), r2, p2)
      BY ONLY <1>11, <1>12, <2>2 DEF PendingOf, ReplyOf, PaceOf
    <3>2. CASE Whole(c, n)
      <4>1. o = 0 /\ k = 1 /\ o2 = 0 /\ n = Len(Bytes[q[1]])
        BY <1>8, <3>2
      <4>2. /\ w # <<>> /\ Head(w) = Request(q[1]) /\ Waiting(q2, o2) = Tail(w)
        <5>1. IsTaken(q, o, Len(Bytes[q[1]]), 1, q2, o2)
          BY ONLY <1>4, <4>1
        <5>2. /\ Waiting(q, o) # <<>> /\ Head(Waiting(q, o)) = Request(q[1])
              /\ Waiting(q2, o2) = Tail(Waiting(q, o))
          BY ONLY <1>6, <4>1, <5>1, WaitingServes
        <5> QED
          BY ONLY <3>1, <5>2
      <4>3. p # "cut" /\ p2 = "whole"
        BY ONLY <1>4, <1>6, <3>1, <3>2, <4>1
      <4>4. PICK a : a = Answer(Head(w))
        OBVIOUS
      <4>5. Answer(Tokens(c, n)) = a
        <5>1. IsUnder(sent[c], off[c]) /\ sent[c] # <<>>
          BY ONLY <1>3, <1>6
        <5>2. Answer(Tokens(c, n)) = Answer(Request(sent[c][1]))
          BY ONLY <1>4, <3>2, <5>1, WholeAnswered
        <5> QED
          BY ONLY <1>3, <4>2, <4>4, <5>2
      <4>6. r2 = IF a = Silent THEN r ELSE a
        BY ONLY <1>4, <3>1, <4>5
      <4>7. PICK w2 : w2 = Tail(w)
        OBVIOUS
      <4>8. KnownBecomes(c, w2, r2, p2)
        BY ONLY <3>1, <4>2, <4>7
      <4>9. S!Next
        BY <1>1, <1>12, <4>2, <4>3, <4>4, <4>6, <4>7, <4>8, ServiceServes
      <4> QED
        BY <4>9
    <3>3. CASE ~Whole(c, n)
      <4>1. p2 \in {"cut", "back"}
        BY ONLY <1>4, <3>3
      <4>2. PICK j \in 0..Len(w) : Waiting(q2, o2) = SubSeq(w, j + 1, Len(w))
        <5>1. \E j \in 0..Len(Waiting(q, o)) :
                /\ j = k + FirstOf(o2) - FirstOf(o)
                /\ Waiting(q2, o2) = SubSeq(Waiting(q, o), j + 1, Len(Waiting(q, o)))
          BY ONLY <1>4, <1>6, WaitingDrops
        <5> QED
          BY ONLY <3>1, <5>1
      <4>3. PICK w2 : w2 = Waiting(q2, o2)
        OBVIOUS
      <4>4. KnownBecomes(c, w2, r2, p2) /\ w2 = SubSeq(w, j + 1, Len(w))
        BY ONLY <3>1, <4>2, <4>3
      <4>5. S!Next
        BY <1>1, <1>12, <4>1, <4>4, ServiceMisreads
      <4> QED
        BY <4>5
    <3> QED
      BY <3>2, <3>3
  <2> QED
    BY <2>1, <2>2
<1> QED
  BY <1>10, <1>13 DEF Follows

-----------------------------------------------------------------------------
(* The theorems                                                            *)

LEMMA InitOK ==
  ASSUME Init
  PROVE  IInv /\ S!Init
<1>1. /\ link = [c \in Clients |-> "open"] /\ sent = [c \in Clients |-> <<>>]
      /\ off = [c \in Clients |-> 0] /\ reply = [c \in Clients |-> Silent]
      /\ pace = [c \in Clients |-> "whole"] /\ down = FALSE
  BY DEF Init
<1>2. <<>> \in Seq(Messages)
  BY EmptySeq
<1>3. Shape
  BY ONLY <1>1, <1>2 DEF Shape, IsReply
<1>4. ASSUME NEW c \in Clients
      PROVE  ClientOK(c)
  <2>1. /\ link[c] = "open" /\ sent[c] = <<>> /\ off[c] = 0 /\ reply[c] = Silent
        /\ pace[c] = "whole"
    BY ONLY <1>1, <1>4
  <2>2. MaxSent[c] \in Nat
    BY <1>4, ConnectionAssumption
  <2>3. 0 <= MaxSent[c]
    BY ONLY <2>2
  <2> QED
    BY ONLY <2>1, <2>3, NoneUnder DEF ClientOK
<1>5. IInv
  BY <1>3, <1>4 DEF IInv
<1>6. S!Init
  <2>1. /\ OpenPending = [d \in Clients |-> PendingOf(link[d], sent[d], off[d])]
        /\ OpenReply = [d \in Clients |-> ReplyOf(link[d], reply[d])]
        /\ OpenPace = [d \in Clients |-> PaceOf(link[d], pace[d])]
    BY ONLY KnownIs
  <2>2. \A d \in Clients : /\ PendingOf(link[d], sent[d], off[d]) = <<>>
                           /\ ReplyOf(link[d], reply[d]) = Silent
                           /\ PaceOf(link[d], pace[d]) = "whole"
    BY ONLY <1>1, NoneUnder DEF PendingOf, ReplyOf, PaceOf
  <2>3. OpenPending = [d \in Clients |-> <<>>]
    BY ONLY <2>1, <2>2
  <2>4. OpenReply = [d \in Clients |-> Silent] /\ OpenPace = [d \in Clients |-> "whole"]
    BY ONLY <2>1, <2>2
  <2> QED
    BY <1>1, <2>3, <2>4 DEF S!Init
<1> QED
  BY <1>5, <1>6

LEMMA StutterFollows ==
  ASSUME IInv, UNCHANGED vars
  PROVE  Follows
<1>1. /\ link' = link /\ sent' = sent /\ off' = off /\ reply' = reply /\ pace' = pace
      /\ down' = down
  BY DEF vars
<1>2. Shape'
  BY <1>1 DEF IInv, Shape, IsReply
<1>3. \A d \in Clients : ClientOK(d)'
  <2> TAKE d \in Clients
  <2>1. ClientOK(d)
    BY DEF IInv
  <2> QED
    BY ONLY <1>1, <2>1 DEF ClientOK
<1>4. OpenPending' = OpenPending
  BY ONLY <1>1 DEF OpenPending, Open, Untouched
<1>5. OpenReply' = OpenReply /\ OpenPace' = OpenPace
  BY ONLY <1>1 DEF OpenReply, OpenPace, Open
<1>6. UNCHANGED S!vars
  BY <1>1, <1>4, <1>5 DEF S!vars
<1> QED
  BY <1>2, <1>3, <1>6 DEF IInv, Follows

LEMMA StepFollows ==
  ASSUME IInv, [Next]_vars
  PROVE  Follows
<1>1. CASE UNCHANGED vars
  BY <1>1, StutterFollows
<1>2. CASE Next
  <2>1. ~down
    BY <1>2 DEF Next
  <2>2. PICK c \in Clients : \/ send(c) \/ readCallback(c) \/ readOverrun(c)
                             \/ leave(c) \/ errorCallback(c) \/ doAccept(c)
    BY <1>2 DEF Next
  <2>3. CASE send(c)
    BY <2>1, <2>3, SendFollows
  <2>4. CASE readCallback(c)
    BY <2>1, <2>4, ReadFollows
  <2>5. CASE readOverrun(c)
    BY <2>1, <2>5, OverrunFollows
  <2>6. CASE leave(c)
    BY <2>1, <2>6, LeaveFollows
  <2>7. CASE errorCallback(c)
    BY <2>1, <2>7, ErrorFollows
  <2>8. CASE doAccept(c)
    BY <2>1, <2>8, AcceptFollows
  <2> QED
    BY <2>2, <2>3, <2>4, <2>5, <2>6, <2>7, <2>8
<1> QED
  BY <1>1, <1>2

(* Whatever clients send and wherever reads end: what server/              *)
(* redisserver.c keeps of a connection has its type, the inductive         *)
(* invariant that a part read is a part of the first message under way     *)
(* and that a closed connection has left nothing behind.                   *)
THEOREM Invariant == Spec => []IInv
<1>1. Init => IInv
  BY InitOK
<1>2. IInv /\ [Next]_vars => IInv'
  BY StepFollows DEF Follows
<1> QED
  BY <1>1, <1>2, PTL DEF Spec

(* TypeOK, for any clients, messages, commands and buffer: no read goes    *)
(* past what was sent, and errorCallback leaves nothing of a connection.   *)
THEOREM TypeCorrect == Spec => []TypeOK
<1>1. IInv => TypeOK
  <2> SUFFICES ASSUME IInv PROVE TypeOK
    OBVIOUS
  <2>1. /\ link \in [Clients -> {"open", "left", "closed"}]
        /\ pace \in [Clients -> {"whole", "cut", "back"}] /\ down \in BOOLEAN
    BY DEF IInv, Shape
  <2>2. ASSUME NEW c \in Clients
        PROVE  /\ sent[c] \in Seq(Messages) /\ Len(sent[c]) <= MaxSent[c]
               /\ IF sent[c] = <<>> THEN off[c] = 0 ELSE off[c] \in 0..(Len(Bytes[sent[c][1]]) - 1)
               /\ (pace[c] = "cut") = (off[c] # 0)
               /\ link[c] = "closed" => sent[c] = <<>>
    <3>1. ClientOK(c)
      BY <2>2 DEF IInv
    <3> QED
      BY ONLY <3>1 DEF ClientOK, IsUnder
  <2> QED
    BY ONLY <2>1, <2>2 DEF TypeOK
<1> QED
  BY <1>1, Invariant, PTL

LEMMA StepRunsWholeMessages ==
  ASSUME IInv, [Next]_vars, NEW c \in Clients,
         sent[c] # <<>>, off[c] = 0, sent[c][1].form = "resp",
         reply'[c] \notin {reply[c], Silent, ProtocolError}
  PROVE  sent[c][1].lost = 0 /\ off'[c] = 0 /\ sent'[c] = Tail(sent[c])
<1>1. reply = [d \in Clients |-> reply[d]]
  BY DEF IInv, Shape, IsReply
<1>2. readCallback(c)
  <2>1. reply' # reply
    BY ONLY reply'[c] \notin {reply[c], Silent, ProtocolError}
  <2>2. Next
    BY <2>1 DEF vars
  <2>3. PICK d \in Clients : \/ send(d) \/ readCallback(d) \/ readOverrun(d)
                             \/ leave(d) \/ errorCallback(d) \/ doAccept(d)
    BY <2>2 DEF Next
  <2>4. \/ reply' = [reply EXCEPT ![d] = Silent] \/ readCallback(d)
    BY <2>1, <2>3 DEF send, readOverrun, leave, errorCallback, doAccept
  <2>5. readCallback(d)
    <3>1. reply' # [reply EXCEPT ![d] = Silent]
      BY ONLY <1>1, c \in Clients, d \in Clients, reply'[c] \notin {reply[c], Silent, ProtocolError}
    <3> QED
      BY <2>4, <3>1
  <2>6. d = c
    <3>1. PICK n, k, q2, o2, r2, p2 : IsReadOf(d, n, k, q2, o2, r2, p2)
      BY <2>5, ReadIs
    <3>2. reply' = [reply EXCEPT ![d] = r2]
      BY ONLY <3>1 DEF IsReadOf, Becomes
    <3> QED
      BY ONLY <1>1, <3>2, c \in Clients, d \in Clients, reply'[c] \notin {reply[c], Silent, ProtocolError}
  <2> QED
    BY <2>5, <2>6
<1>3. PICK n, k, q2, o2, r2, p2 : IsReadOf(c, n, k, q2, o2, r2, p2)
  BY <1>2, ReadIs
<1>4. PICK q, o, m : q = sent[c] /\ o = off[c] /\ m = sent[c][1]
  OBVIOUS
<1>5. /\ n \in Nat /\ n >= 1 /\ n <= Len(Unread(c)) /\ IsTaken(q, o, n, k, q2, o2)
      /\ r2 = (IF Answer(Tokens(c, n)) = Silent THEN reply[c] ELSE Answer(Tokens(c, n)))
      /\ Becomes(c, link[c], q2, o2, r2, p2)
  BY ONLY <1>3, <1>4 DEF IsReadOf
<1>6. IsUnder(q, o) /\ q # <<>> /\ o = 0
  BY <1>4, ClientBefore DEF ClientOK
<1>7. /\ sent \in [Clients -> Seq(Messages)] /\ off \in [Clients -> Nat]
  BY DEF IInv, Shape
<1>8. reply'[c] = r2 /\ sent'[c] = q2 /\ off'[c] = o2
  BY ONLY <1>1, <1>5, <1>7, c \in Clients DEF Becomes
<1>9. PICK t : t = SubSeq(Unread(c), 1, n)
  OBVIOUS
<1>10. Starts(t, m, n)
  BY <1>4, <1>5, <1>9, ReadStarts DEF ClientOK, IInv
<1>11. m \in Messages
  <2>1. q \in Seq(Messages)
    BY ONLY <1>6 DEF IsUnder
  <2>2. Len(q) \in Nat /\ Len(q) >= 1
    BY ONLY <1>6, <2>1, EmptySeq
  <2>3. 1 \in 1..Len(q)
    BY ONLY <2>2
  <2>4. q[1] \in Messages
    BY ONLY <2>1, <2>3, ElementOfSeq
  <2> QED
    BY ONLY <1>4, <2>4
<1>12. Bytes[m][1] = Star
  BY <1>4, <1>11, BytesAre DEF IsBytes
<1>13. StartsWith(t, m) /\ Len(t) = n /\ t # <<>> /\ t[1] = Star
  BY ONLY <1>10, <1>12 DEF Starts
<1>14. Tokens(c, n) = IF n <= InputBuffer THEN respTokenizer(t) ELSE NULL
  <2>1. bufferTokenizer(t) = respTokenizer(t)
    BY ONLY <1>13 DEF bufferTokenizer
  <2> QED
    BY ONLY <1>9, <2>1 DEF Tokens
<1>15. Tokens(c, n) # NULL /\ Tokens(c, n) # <<>>
  <2>1. Answer(NULL) = ProtocolError
    BY ONLY DEF Answer
  <2>2. Tokens(c, n) # NULL
    BY ONLY <1>5, <1>8, <2>1, reply'[c] \notin {reply[c], Silent, ProtocolError}
  <2>3. Tokens(c, n) = <<>> => Answer(Tokens(c, n)) = Silent
    BY ONLY <2>2 DEF Answer
  <2> QED
    BY ONLY <1>5, <1>8, <2>2, <2>3, reply'[c] \notin {reply[c], Silent, ProtocolError}
<1>16. respTokenizer(t) # NULL /\ respTokenizer(t) # <<>>
  BY ONLY <1>14, <1>15
<1>17. Len(t) = Len(Bytes[m]) /\ m.lost = 0
  <2>1. m.form = "resp"
    BY <1>4
  <2>2. \/ respTokenizer(t) = <<>> /\ Len(t) # Len(Bytes[m])
        \/ Len(t) = Len(Bytes[m]) /\ m.lost = 0
    BY ONLY <1>11, <1>13, <1>16, <2>1, RespMessage
  <2> QED
    BY ONLY <1>16, <2>2
<1>18. IsTaken(q, o, Len(Bytes[q[1]]), 1, q2, o2) /\ o2 = 0
  <2>1. n = Len(Bytes[q[1]])
    BY ONLY <1>4, <1>13, <1>17
  <2>2. k = 1 /\ o2 = 0
    BY ONLY <1>5, <1>6, <2>1 DEF IsTaken
  <2> QED
    BY ONLY <1>5, <2>1, <2>2
<1>19. q2 = Tail(q)
  <2>1. q \in Seq(Messages)
    BY ONLY <1>6 DEF IsUnder
  <2>2. PICK x : x = Tail(q)
    OBVIOUS
  <2>3. x \in Seq(Messages) /\ Len(x) = Len(q) - 1 /\ \A i \in 1..Len(x) : x[i] = q[i + 1]
    BY ONLY <1>6, <2>1, <2>2, HeadTailProperties
  <2>4. q2 \in Seq(Messages) /\ Len(q2) = Len(q) - 1 /\ \A i \in 1..(Len(q) - 1) : q2[i] = q[1 + i]
    BY ONLY <1>18 DEF IsTaken
  <2>5. Len(q) \in Nat
    BY ONLY <2>1
  <2>6. \A i \in 1..(Len(q) - 1) : 1 + i = i + 1
    OBVIOUS
  <2>7. Len(q2) = Len(x) /\ \A i \in 1..Len(q2) : q2[i] = x[i]
    BY ONLY <2>3, <2>4, <2>6
  <2>8. q2 = x
    BY ONLY <2>3, <2>4, <2>7, SeqEqual
  <2> QED
    BY ONLY <2>2, <2>8
<1> QED
  BY ONLY <1>4, <1>8, <1>17, <1>18, <1>19

(* For any clients, messages, commands and buffer, wherever reads end and  *)
(* whatever byte is lost: of messages in RESP, respTokenizer takes nothing *)
(* but a whole and undamaged one for a command.                            *)
THEOREM OnlyWholeMessagesDoRun == Spec => OnlyWholeMessagesRun
<1> DEFINE Runs ==
      \A c \in Clients :
        (/\ sent[c] # <<>> /\ off[c] = 0 /\ sent[c][1].form = "resp"
         /\ reply'[c] \notin {reply[c], Silent, ProtocolError})
        => /\ sent[c][1].lost = 0 /\ off'[c] = 0
           /\ sent'[c] = Tail(sent[c])
<1>1. IInv /\ [Next]_vars => Runs
  BY StepRunsWholeMessages
<1>2. IInv /\ [Next]_vars => [Runs]_vars
  BY <1>1
<1> HIDE DEF Runs
<1>3. Spec => [][Runs]_vars
  BY <1>2, Invariant, PTL DEF Spec
<1> QED
  BY <1>3 DEF Runs, OnlyWholeMessagesRun

(* The reads of server/redisserver.c implement Service: each client is     *)
(* served alone and in order, whatever the others do, and a request that   *)
(* comes in a read of its own is answered for what it says.                *)
THEOREM ConnectionImplementsService == Spec => ImplementsService
<1>1. Init => S!Init
  BY InitOK
<1>2. IInv /\ [Next]_vars => [S!Next]_S!vars
  BY StepFollows DEF Follows
<1>3. Spec => S!Spec
  BY <1>1, <1>2, Invariant, PTL DEF Spec, S!Spec
<1> QED
  BY <1>3 DEF ImplementsService
=============================================================================
