---------------------------- MODULE BitmapProofs ----------------------------
(***************************************************************************)
(* Bitmap is well typed, touches no word that is not its own before an     *)
(* allocation has failed, and implements BitSet.                           *)
(***************************************************************************)
EXTENDS Bitmap, Induction

-----------------------------------------------------------------------------
(* Division                                                                *)

LEMMA Division ==
  ASSUME NEW x \in Int, NEW k \in Nat \ {0}
  PROVE  /\ x \div k \in Int /\ x % k \in 0..(k - 1)
         /\ x = k * (x \div k) + (x % k)
         /\ x >= 0 => x \div k >= 0
OBVIOUS

LEMMA Quotient ==
  ASSUME NEW q \in Int, NEW k \in Nat \ {0}, NEW r \in 0..(k - 1)
  PROVE  (k * q + r) \div k = q /\ (k * q + r) % k = r
OBVIOUS

LEMMA Below ==
  ASSUME NEW x \in Nat, NEW k \in Nat \ {0}, NEW n \in Nat
  PROVE  x < n * k <=> x \div k < n
<1>1. x = k * (x \div k) + (x % k) /\ x \div k \in Nat /\ x % k \in 0..(k - 1)
  <2>1. x \div k \in Int /\ x % k \in 0..(k - 1)
    OBVIOUS
  <2>2. x = k * (x \div k) + (x % k)
    OBVIOUS
  <2>3. x \div k >= 0
    OBVIOUS
  <2> QED
    BY <2>1, <2>2, <2>3
<1>2. PICK q \in Nat, r \in 0..(k - 1) : x = k * q + r /\ q = x \div k
  BY <1>1
<1>3. k * q + r < n * k <=> q < n
  BY ONLY <1>2, k \in Nat \ {0}, n \in Nat
<1> QED
  BY <1>2, <1>3

LEMMA Small ==
  ASSUME NEW k \in Nat \ {0}, NEW x \in 0..(k - 1)
  PROVE  x % k = x /\ x \div k = 0
OBVIOUS

-----------------------------------------------------------------------------
(* What wraps around, and what does not                                    *)

LEMMA Widths ==
  \E m \in Nat :
    /\ m > 1 /\ 2^(LongBits - 1) = m /\ 2^LongBits = 2 * m
    /\ LL_MAX = m - 2 /\ OFFSET_MAX \in 0..(m - 3)
<1>1. PICK m \in Nat : m = 2^(LongBits - 1)
  BY PowersAssumption
<1>2. m > 1 /\ 2^LongBits = 2 * m
  BY <1>1, PowersAssumption
<1>3. LL_MAX = m - 2
  BY <1>1 DEF LL_MAX
<1>4. OFFSET_MAX \in Nat /\ OFFSET_MAX < LL_MAX
  BY BitmapAssumption
<1>5. OFFSET_MAX \in 0..(m - 3)
  BY ONLY <1>3, <1>4, m \in Nat
<1> QED
  BY <1>1, <1>2, <1>3, <1>5

LEMMA WrappedFacts ==
  ASSUME NEW x \in Int
  PROVE  /\ Wrapped(x, LongBits) \in Int /\ Wrapped(x, LongBits) <= LL_MAX + 1
         /\ x \in 0..(LL_MAX + 1) => Wrapped(x, LongBits) = x
<1>1. PICK m \in Nat : m > 1 /\ 2^(LongBits - 1) = m /\ 2^LongBits = 2 * m /\ LL_MAX = m - 2
  BY Widths
<1>2. Wrapped(x, LongBits) = ((x + m) % (2 * m)) - m
  BY <1>1 DEF Wrapped
<1>3. (x + m) % (2 * m) \in 0..(2 * m - 1)
  <2>1. 2 * m \in Nat \ {0} /\ x + m \in Int
    BY <1>1
  <2> QED
    BY <2>1
<1>4. ASSUME x \in 0..(LL_MAX + 1)
      PROVE  Wrapped(x, LongBits) = x
  <2>1. x + m \in 0..(2 * m - 1)
    BY <1>1, <1>4
  <2>2. (x + m) % (2 * m) = x + m
    BY ONLY <2>1, <1>1, m \in Nat, Small
  <2> QED
    BY <1>2, <2>2
<1> QED
  BY <1>1, <1>2, <1>3, <1>4

LEMMA UnsignedFacts ==
  ASSUME NEW pos \in Int
  PROVE  Unsigned(pos) \in Nat /\ (pos \in 0..OFFSET_MAX => Unsigned(pos) = pos)
<1>1. PICK m \in Nat : m > 1 /\ 2^LongBits = 2 * m /\ OFFSET_MAX \in 0..(m - 3)
  BY Widths
<1>2. Unsigned(pos) = pos % (2 * m)
  BY <1>1 DEF Unsigned
<1>3. 2 * m \in Nat \ {0}
  BY <1>1
<1>4. pos % (2 * m) \in 0..(2 * m - 1)
  BY <1>3
<1>5. pos \in 0..OFFSET_MAX => pos \in 0..(2 * m - 1)
  BY <1>1
<1>6. pos \in 0..OFFSET_MAX => pos % (2 * m) = pos
  BY <1>3, <1>5, Small
<1> QED
  BY <1>2, <1>4, <1>6

-----------------------------------------------------------------------------
(* The loops over digits, digit by digit                                   *)

Reads(n, s) ==
  /\ n \in [0..Len(s) -> Int] /\ n[0] = 0
  /\ \A i \in 1..Len(s) : n[i] = n[i - 1] * Base + s[i]

ReadsWrapped(n, s) ==
  /\ n \in [0..Len(s) -> Int] /\ n[0] = 0
  /\ \A i \in 1..Len(s) : n[i] = Wrapped(n[i - 1] * Base + s[i], LongBits)

LEMMA ValueReads ==
  ASSUME NEW s \in Seq(Int)
  PROVE  \E n : Reads(n, s) /\ Value(s) = n[Len(s)]
<1> DEFINE n == CHOOSE g : g = [i \in 0..Len(s) |-> IF i = 0 THEN 0 ELSE g[i - 1] * Base + s[i]]
           Step == [p \in Int \X (1..Len(s)) |-> p[1] * Base + s[p[2]]]
<1>1. Len(s) \in Nat /\ 0 \in Int /\ Base \in Int /\ \A i \in 1..Len(s) : s[i] \in Int
  BY NumbersAssumption
<1>2. Step \in [Int \X (1..Len(s)) -> Int]
  BY <1>1
<1>3. PICK f \in [0..Len(s) -> Int] :
        f[0] = 0 /\ \A i \in 1..Len(s) : f[i] = Step[<<f[i - 1], i>>]
  <2>1. PICK S, N, st : S = Int /\ N = Len(s) /\ st = Step
    OBVIOUS
  <2>2. N \in Nat /\ 0 \in S /\ st \in [S \X (1..N) -> S]
    BY <1>1, <1>2, <2>1
  <2>3. Solvable(N, S, 0, st)
    BY <2>2, Solution
  <2> QED
    BY <2>1, <2>3 DEF Solvable
<1>4. \A i \in 1..Len(s) : f[i] = f[i - 1] * Base + s[i]
  <2> SUFFICES ASSUME NEW i \in 1..Len(s) PROVE f[i] = f[i - 1] * Base + s[i]
    OBVIOUS
  <2>1. i - 1 \in 0..Len(s)
    BY <1>1
  <2>2. <<f[i - 1], i>> \in Int \X (1..Len(s))
    BY <1>3, <2>1
  <2> QED
    BY <1>3, <2>2
<1>5. f = [i \in 0..Len(s) |-> IF i = 0 THEN 0 ELSE f[i - 1] * Base + s[i]]
  BY <1>3, <1>4
<1>6. n = [i \in 0..Len(s) |-> IF i = 0 THEN 0 ELSE n[i - 1] * Base + s[i]]
  BY <1>5
<1>7. Value(s) = n[Len(s)]
  BY DEF Value
<1>8. n[0] = 0 /\ \A i \in 1..Len(s) : n[i] = n[i - 1] * Base + s[i]
  <2>1. 0 \in 0..Len(s) /\ \A i \in 1..Len(s) : i \in 0..Len(s) /\ i # 0
    BY <1>1
  <2> HIDE DEF n
  <2>2. n[0] = 0
    BY ONLY <1>6, <2>1
  <2> QED
    BY ONLY <1>6, <2>1, <2>2
<1> HIDE DEF n
<1>9. \A i \in 0..Len(s) : n[i] = f[i]
  <2>1. n[0] = f[0] /\ \A i \in 1..Len(s) : n[i - 1] = f[i - 1] => n[i] = f[i]
    BY <1>3, <1>4, <1>8
  <2>2. Agree(n, f, Len(s))
    BY <1>1, <2>1, SameSolution
  <2> QED
    BY <2>2 DEF Agree
<1>10. n \in [0..Len(s) -> Int]
  BY <1>3, <1>6, <1>9
<1> QED
  BY <1>7, <1>8, <1>10 DEF Reads

LEMMA AccumulatedReads ==
  ASSUME NEW s \in Seq(Int)
  PROVE  \E n : ReadsWrapped(n, s) /\ Accumulated(s, LongBits) = n[Len(s)]
<1> DEFINE n == CHOOSE g : g = [i \in 0..Len(s) |-> IF i = 0 THEN 0 ELSE Wrapped(g[i - 1] * Base + s[i], LongBits)]
           Step == [p \in Int \X (1..Len(s)) |-> 
                     Wrapped(p[1] * Base + s[p[2]], LongBits)]
<1>1. Len(s) \in Nat /\ 0 \in Int /\ Base \in Int /\ \A i \in 1..Len(s) : s[i] \in Int
  BY NumbersAssumption
<1>2. Step \in [Int \X (1..Len(s)) -> Int]
  <2>1. ASSUME NEW p \in Int \X (1..Len(s))
        PROVE  Wrapped(p[1] * Base + s[p[2]], LongBits) \in Int
    <3>1. p[1] * Base + s[p[2]] \in Int
      BY <1>1
    <3> QED
      BY <3>1, WrappedFacts
  <2> QED
    BY <2>1
<1>3. PICK f \in [0..Len(s) -> Int] :
        f[0] = 0 /\ \A i \in 1..Len(s) : f[i] = Step[<<f[i - 1], i>>]
  <2>1. PICK S, N, st : S = Int /\ N = Len(s) /\ st = Step
    OBVIOUS
  <2>2. N \in Nat /\ 0 \in S /\ st \in [S \X (1..N) -> S]
    BY <1>1, <1>2, <2>1
  <2>3. Solvable(N, S, 0, st)
    BY <2>2, Solution
  <2> QED
    BY <2>1, <2>3 DEF Solvable
<1>4. \A i \in 1..Len(s) : f[i] = Wrapped(f[i - 1] * Base + s[i], LongBits)
  <2> SUFFICES ASSUME NEW i \in 1..Len(s) PROVE f[i] = Wrapped(f[i - 1] * Base + s[i], LongBits)
    OBVIOUS
  <2>1. i - 1 \in 0..Len(s)
    BY <1>1
  <2>2. <<f[i - 1], i>> \in Int \X (1..Len(s))
    BY <1>3, <2>1
  <2> QED
    BY <1>3, <2>2
<1>5. f = [i \in 0..Len(s) |-> IF i = 0 THEN 0 ELSE Wrapped(f[i - 1] * Base + s[i], LongBits)]
  BY <1>3, <1>4
<1>6. n = [i \in 0..Len(s) |-> IF i = 0 THEN 0 ELSE Wrapped(n[i - 1] * Base + s[i], LongBits)]
  BY <1>5
<1>7. Accumulated(s, LongBits) = n[Len(s)]
  BY DEF Accumulated
<1>8. n[0] = 0 /\ \A i \in 1..Len(s) : n[i] = Wrapped(n[i - 1] * Base + s[i], LongBits)
  <2>1. 0 \in 0..Len(s) /\ \A i \in 1..Len(s) : i \in 0..Len(s) /\ i # 0
    BY <1>1
  <2> HIDE DEF n
  <2>2. n[0] = 0
    BY ONLY <1>6, <2>1
  <2> QED
    BY ONLY <1>6, <2>1, <2>2
<1> HIDE DEF n
<1>9. \A i \in 0..Len(s) : n[i] = f[i]
  <2>1. n[0] = f[0] /\ \A i \in 1..Len(s) : n[i - 1] = f[i - 1] => n[i] = f[i]
    BY <1>3, <1>4, <1>8
  <2>2. Agree(n, f, Len(s))
    BY <1>1, <2>1, SameSolution
  <2> QED
    BY <2>2 DEF Agree
<1>10. n \in [0..Len(s) -> Int]
  BY <1>3, <1>6, <1>9
<1> QED
  BY <1>7, <1>8, <1>10 DEF ReadsWrapped

(* What is read of a prefix is where the loop stood after it.              *)
LEMMA AccumulatedPrefixes ==
  ASSUME NEW s \in Seq(Int), NEW n, ReadsWrapped(n, s), NEW i \in 0..Len(s)
  PROVE  Accumulated(SubSeq(s, 1, i), LongBits) = n[i]
<1>1. PICK t : t = SubSeq(s, 1, i)
  OBVIOUS
<1>2. t \in Seq(Int) /\ Len(t) = i /\ \A j \in 1..i : t[j] = s[j]
  BY <1>1
<1>3. PICK m : ReadsWrapped(m, t) /\ Accumulated(t, LongBits) = m[i]
  BY <1>2, AccumulatedReads
<1>4. ASSUME NEW j \in 1..i, m[j - 1] = n[j - 1]
      PROVE  m[j] = n[j]
  <2>1. j \in 1..Len(t) /\ j \in 1..Len(s) /\ t[j] = s[j]
    BY <1>2
  <2>2. m[j] = Wrapped(m[j - 1] * Base + t[j], LongBits)
    BY <1>3, <2>1 DEF ReadsWrapped
  <2>3. n[j] = Wrapped(n[j - 1] * Base + s[j], LongBits)
    BY <2>1 DEF ReadsWrapped
  <2> QED
    BY <1>4, <2>1, <2>2, <2>3
<1>5. m[0] = n[0] /\ i \in Nat
  BY <1>3 DEF ReadsWrapped
<1>6. Agree(m, n, i)
  BY <1>4, <1>5, SameSolution
<1> QED
  BY <1>1, <1>3, <1>5, <1>6 DEF Agree

(* A number grows with each digit.                                         *)
LEMMA ValueGrows ==
  ASSUME NEW s \in Seq(Int), NEW v, Reads(v, s), IsNumeral(s)
  PROVE  \A i \in 0..Len(s) : v[i] \in 0..v[Len(s)]
<1>1. PICK N \in Nat : N = Len(s)
  OBVIOUS
<1>2. /\ v \in [0..N -> Int] /\ v[0] = 0
      /\ \A i \in 1..N : v[i] = v[i - 1] * Base + s[i] /\ s[i] \in Nat
      /\ Base \in Nat \ {0}
  <2>1. Base \in Nat \ {0}
    BY NumbersAssumption
  <2>2. \A i \in 1..N : s[i] \in Nat
    <3>1. DOMAIN s = 1..N
      BY <1>1
    <3> QED
      BY <2>1, <3>1 DEF IsNumeral, Digits
  <2> QED
    BY <1>1, <2>1, <2>2 DEF Reads
<1>3. ASSUME NEW i \in 1..N, v[i - 1] >= 0
      PROVE  v[i] >= v[i - 1]
  <2>1. PICK x \in Nat, d \in Nat : x = v[i - 1] /\ d = s[i] /\ v[i] = x * Base + d
    <3>1. i - 1 \in 0..N
      OBVIOUS
    <3>2. v[i - 1] \in Nat /\ s[i] \in Nat
      BY <1>2, <1>3, <3>1
    <3>3. v[i] = v[i - 1] * Base + s[i]
      BY <1>2
    <3> QED
      BY <3>2, <3>3
  <2>2. PICK y \in Nat : y = x * Base /\ y >= x
    BY <1>2
  <2> QED
    BY <2>1, <2>2
<1>4. \A i \in 0..N : v[i] \in 0..v[N]
  <2>1. v \in [0..N -> Int] /\ v[0] >= 0
    BY <1>2
  <2>2. \A i \in 1..N : v[i - 1] >= 0 => v[i] >= v[i - 1]
    BY <1>3
  <2> QED
    BY ONLY <2>1, <2>2, N \in Nat, Growing
<1> QED
  BY <1>1, <1>4

(* An offset up to LL_MAX is read as what it is, and LL_MAX + 1 refused.   *)
LEMMA OffsetIsRead ==
  ASSUME NEW o \in Offsets
  PROVE  /\ Position[o] \in Int /\ Number[o] \in Int /\ Number[o] >= -1
         /\ Number[o] <= LL_MAX + 1 =>
              Position[o] = IF Number[o] <= LL_MAX THEN Number[o] ELSE -1
<1>1. LL_MAX \in Nat
  <2>1. PICK m \in Nat : m > 1 /\ LL_MAX = m - 2
    BY Widths
  <2> QED
    BY <2>1
<1>2. o \in Seq(Int) /\ Len(o) \in Nat
  <2>1. o \in Seq(0..Other)
    BY BitmapAssumption
  <2>2. Other \in Int
    BY NumbersAssumption DEF Other
  <2> QED
    BY <2>1, <2>2
<1>3. PICK n : ReadsWrapped(n, o)
  BY <1>2, AccumulatedReads
<1>4. PICK v : Reads(v, o) /\ Value(o) = v[Len(o)]
  BY <1>2, ValueReads
<1>5. stringToLongLong(o) =
        IF IsNumeral(o) /\ \A i \in 0..Len(o) : n[i] <= LL_MAX THEN n[Len(o)] ELSE -1
  <2>1. \A i \in 0..Len(o) : Accumulated(SubSeq(o, 1, i), LongBits) = n[i]
    BY <1>2, <1>3, AccumulatedPrefixes
  <2>2. Len(o) \in 0..Len(o)
    BY <1>2
  <2> QED
    BY <2>1, <2>2 DEF stringToLongLong
<1>6. n[Len(o)] \in Int /\ v[Len(o)] \in Int
  BY <1>2, <1>3, <1>4 DEF ReadsWrapped, Reads
<1>7. Position[o] \in Int
  BY <1>5, <1>6 DEF Position
<1>8. CASE ~IsNumeral(o)
  BY <1>1, <1>5, <1>7, <1>8 DEF Position, Number
<1>9. CASE IsNumeral(o)
  <2>1. Number[o] = v[Len(o)] /\ Position[o] = stringToLongLong(o)
    BY <1>4, <1>9 DEF Number, Position
  <2>2. \A i \in 0..Len(o) : v[i] \in 0..v[Len(o)]
    BY <1>2, <1>4, <1>9, ValueGrows
  <2>3. v[Len(o)] >= 0
    BY <1>2, <1>6, <2>2
  <2>4. ASSUME v[Len(o)] <= LL_MAX + 1
        PROVE  \A i \in 0..Len(o) : n[i] = v[i]
    <3>1. \A i \in 0..Len(o) : v[i] \in 0..(LL_MAX + 1)
      BY <1>1, <1>6, <2>2, <2>4
    <3>2. ASSUME NEW i \in 1..Len(o), n[i - 1] = v[i - 1]
          PROVE  n[i] = v[i]
      <4>1. v[i] = v[i - 1] * Base + o[i] /\ n[i] = Wrapped(n[i - 1] * Base + o[i], LongBits)
        BY <1>3, <1>4 DEF Reads, ReadsWrapped
      <4>2. n[i] = Wrapped(v[i], LongBits)
        BY <3>2, <4>1
      <4>3. v[i] \in 0..(LL_MAX + 1) /\ v[i] \in Int
        BY <1>1, <1>2, <3>1
      <4> QED
        BY <4>2, <4>3, WrappedFacts
    <3>3. n[0] = v[0]
      BY <1>3, <1>4 DEF Reads, ReadsWrapped
    <3>4. Agree(n, v, Len(o))
      BY <1>2, <3>2, <3>3, SameSolution
    <3> QED
      BY <3>4 DEF Agree
  <2>5. CASE v[Len(o)] <= LL_MAX
    <3>1. \A i \in 0..Len(o) : n[i] = v[i] /\ v[i] <= LL_MAX
      BY <1>1, <1>6, <2>2, <2>4, <2>5
    <3> QED
      BY <1>1, <1>2, <1>5, <1>6, <1>7, <1>9, <2>1, <2>3, <2>5, <3>1
  <2>6. CASE v[Len(o)] = LL_MAX + 1
    <3>1. n[Len(o)] = LL_MAX + 1 /\ ~(n[Len(o)] <= LL_MAX)
      BY <1>1, <1>2, <2>4, <2>6
    <3>2. stringToLongLong(o) = -1
      BY <1>2, <1>5, <3>1
    <3> QED
      BY <1>1, <1>6, <1>7, <2>1, <2>3, <2>6, <3>2
  <2>7. CASE v[Len(o)] > LL_MAX + 1
    BY <1>1, <1>6, <1>7, <2>1, <2>3, <2>7
  <2> QED
    BY <1>1, <1>6, <2>5, <2>6, <2>7
<1> QED
  BY <1>8, <1>9

(* Short of the offsets that wrap, legal tells what is in range.           *)
LEMMA LegalOffsets ==
  ASSUME NEW o \in Offsets, ~(Number[o] > LL_MAX + 1 /\ legal(Position[o]))
  PROVE  /\ legal(Position[o]) <=> Number[o] \in 0..OFFSET_MAX
         /\ legal(Position[o]) => Position[o] = Number[o] /\ Unsigned(Position[o]) = Number[o]
<1>1. LL_MAX \in Nat /\ OFFSET_MAX \in Nat /\ OFFSET_MAX < LL_MAX
  <2>1. PICK m \in Nat : m > 1 /\ LL_MAX = m - 2
    BY Widths
  <2> QED
    BY <2>1, BitmapAssumption
<1>2. /\ Position[o] \in Int /\ Number[o] \in Int /\ Number[o] >= -1
      /\ Number[o] <= LL_MAX + 1 =>
           Position[o] = IF Number[o] <= LL_MAX THEN Number[o] ELSE -1
  BY OffsetIsRead
<1>3. legal(Position[o]) <=> Number[o] \in 0..OFFSET_MAX
  BY <1>1, <1>2 DEF legal
<1>4. ASSUME legal(Position[o])
      PROVE  Position[o] = Number[o]
  BY <1>1, <1>2, <1>4 DEF legal
<1> QED
  BY <1>2, <1>3, <1>4, UnsignedFacts

-----------------------------------------------------------------------------
(* Words                                                                   *)

LEMMA BitmapIs ==
  ASSUME NEW o \in Bitmaps
  PROVE  /\ o.len \in 0..MaxWords /\ o.mem \in Words(o.len) \cup {NULL}
         /\ o = [len |-> o.len, mem |-> o.mem] /\ o # NULL /\ o # Plain
<1>1. PICK n \in 0..MaxWords : o \in [len : {n}, mem : Words(n) \cup {NULL}]
  BY DEF Bitmaps
<1>2. o # NULL /\ o # Plain
  BY BitmapAssumption
<1> QED
  BY <1>1, <1>2

LEMMA IsBitmapOf ==
  ASSUME NEW len \in 0..MaxWords, NEW mem \in Words(len) \cup {NULL}
  PROVE  [len |-> len, mem |-> mem] \in Bitmaps
<1>1. [len |-> len, mem |-> mem] \in [len : {len}, mem : Words(len) \cup {NULL}]
  OBVIOUS
<1> QED
  BY <1>1 DEF Bitmaps

LEMMA OffsetsInWord ==
  ASSUME NEW pos \in Int
  PROVE  /\ word_offset(pos) \in Int /\ bit_offset(pos) \in 0..(BITS_PER_WORD - 1)
         /\ pos = BITS_PER_WORD * word_offset(pos) + bit_offset(pos)
         /\ pos >= 0 => word_offset(pos) >= 0
<1>1. BITS_PER_WORD \in Nat \ {0}
  BY BitmapAssumption
<1> QED
  BY <1>1, Division DEF word_offset, bit_offset

LEMMA WithBitTyped ==
  ASSUME NEW len, NEW mem \in Words(len), NEW pos \in Int, NEW bit
  PROVE  WithBit(mem, pos, bit) \in Words(len)
BY OffsetsInWord DEF WithBit, Words

LEMMA GrownTyped ==
  ASSUME NEW n \in Bitmaps, NEW len \in 0..MaxWords, n.len <= len,
         NEW junk \in SUBSET (0..(BITS_PER_WORD - 1))
  PROVE  /\ Grown(n, len, junk).len = len /\ Grown(n, len, junk).mem \in Words(len)
         /\ n.mem # NULL =>
              \A w \in 0..(len - 1) :
                Grown(n, len, junk).mem[w] = IF w < n.len THEN n.mem[w] ELSE {}
<1>1. n.len \in Nat /\ len \in Nat /\ n.mem \in Words(n.len) \cup {NULL}
  BY BitmapIs, BitmapAssumption
<1>2. \A w \in 0..(len - 1) : w < n.len => w \in 0..(n.len - 1)
  BY <1>1
<1>3. \A w \in 0..(len - 1) :
        w < n.len /\ n.mem # NULL => n.mem[w] \in SUBSET (0..(BITS_PER_WORD - 1))
  BY <1>1, <1>2 DEF Words
<1>4. PICK r : r = Reallocated(n, len, junk)
  OBVIOUS
<1>5. /\ r \in Words(len) /\ DOMAIN r = 0..(len - 1)
      /\ n.mem # NULL => \A w \in 0..(len - 1) : w < n.len => r[w] = n.mem[w]
  BY <1>3, <1>4 DEF Reallocated, Words
<1>6. Grown(n, len, junk) =
        [len |-> len, mem |-> [w \in 0..(len - 1) |-> IF w < n.len THEN r[w] ELSE {}]]
  BY <1>4, <1>5 DEF Grown
<1> QED
  BY <1>5, <1>6 DEF Words

-----------------------------------------------------------------------------
(* The invariant: what was lost to a failed allocation is all that is lost *)

Sound ==
  /\ IsBitmap(node) /\ node.mem = NULL => failed
  /\ dangling => failed /\ IsBitmap(node)
  /\ IsBitmap(node) /\ ~dangling => node.len >= 1
  /\ down => failed

Inv == TypeOK /\ Sound

LEMMA NodeIs ==
  ASSUME TypeOK, IsBitmap(node)
  PROVE  node \in Bitmaps
BY DEF TypeOK, IsBitmap

LEMMA RowIs ==
  ASSUME TypeOK, IsBitmap(row)
  PROVE  row \in Bitmaps /\ row.mem # NULL /\ row.len >= 1
<1>1. PICK n \in 1..MaxWords : row \in [len : {n}, mem : Words(n)]
  BY DEF TypeOK, IsBitmap
<1>2. n \in 0..MaxWords /\ n \in Nat /\ row.len = n /\ row.mem \in Words(n)
  BY <1>1, BitmapAssumption
<1>3. row \in [len : {n}, mem : Words(n) \cup {NULL}]
  BY <1>1
<1> QED
  BY <1>2, <1>3, BitmapAssumption DEF Bitmaps

(* Every position that is inside has its word.                             *)
LEMMA InsideReadable ==
  ASSUME Inv, ~failed, IsBitmap(node), NEW pos \in Int, inside(node, pos)
  PROVE  ~Unreadable(node, pos) /\ word_offset(Unsigned(pos)) \in 0..(node.len - 1)
<1>1. node.len \in Nat /\ node.mem \in Words(node.len) /\ ~dangling
  BY NodeIs, BitmapIs, BitmapAssumption DEF Inv, Sound
<1>2. node.mem # NULL
  BY DEF Inv, Sound
<1>3. Unsigned(pos) \in Nat /\ Unsigned(pos) < node.len * BITS_PER_WORD
  BY UnsignedFacts DEF inside
<1>4. BITS_PER_WORD \in Nat \ {0}
  BY BitmapAssumption
<1>5. word_offset(Unsigned(pos)) < node.len
  BY <1>1, <1>3, <1>4, Below DEF word_offset
<1>6. word_offset(Unsigned(pos)) \in Int /\ word_offset(Unsigned(pos)) >= 0
  BY <1>3, OffsetsInWord
<1>7. word_offset(Unsigned(pos)) \in 0..(node.len - 1)
  BY <1>1, <1>5, <1>6
<1>8. DOMAIN node.mem = 0..(node.len - 1)
  BY <1>1 DEF Words
<1> QED
  BY <1>1, <1>2, <1>7, <1>8 DEF Unreadable

Replies == {"none", "ok", "null", "offset", "bit", "type", ":0", ":1"}

ObjectsOK ==
  /\ node \in {NULL, Plain} \cup Bitmaps
  /\ row \in {NULL, Plain} \cup UNION {[len : {n}, mem : Words(n)] : n \in 1..MaxWords}
  /\ dangling \in BOOLEAN /\ down \in BOOLEAN /\ failed \in BOOLEAN

LEMMA TypeParts ==
  TypeOK <=> ObjectsOK /\ reply \in Replies /\ wrapped \in BOOLEAN
BY DEF TypeOK, ObjectsOK, Replies

LEMMA TypePartsNext ==
  TypeOK' <=> ObjectsOK' /\ reply' \in Replies /\ wrapped' \in BOOLEAN
BY DEF TypeOK, ObjectsOK, Replies

LEMMA TakesTyped ==
  ASSUME TypeOK, NEW o \in Offsets, Takes(o)
  PROVE  wrapped' \in BOOLEAN
BY DEF TypeOK, Takes

LEMMA SameObjects ==
  ASSUME Inv, UNCHANGED <<node, dangling, row, down, failed>>, reply' \in Replies,
         wrapped' \in BOOLEAN
  PROVE  Inv'
<1>1. ObjectsOK /\ Sound
  BY TypeParts DEF Inv
<1>2. ObjectsOK'
  BY <1>1 DEF ObjectsOK
<1>3. Sound'
  BY <1>1 DEF Sound, IsBitmap
<1> QED
  BY <1>2, <1>3, TypePartsNext DEF Inv

(* Undefined behaviour is met only where memory was short before.          *)
LEMMA InvUndefined ==
  ASSUME Inv, Undefined, failed
  PROVE  Inv'
<1>1. ObjectsOK /\ Sound /\ reply \in Replies /\ wrapped \in BOOLEAN
  BY TypeParts DEF Inv
<1>2. ObjectsOK'
  BY <1>1 DEF ObjectsOK, Undefined
<1>3. Sound'
  BY <1>1 DEF Sound, IsBitmap, Undefined
<1> QED
  BY <1>1, <1>2, <1>3, TypePartsNext DEF Inv, Undefined

(* Words that cannot be read are words an allocation has failed for.       *)
LEMMA UndefinedOnlyFailed ==
  ASSUME Inv, node \notin {NULL, Plain}, NEW pos \in Int, dangling \/ inside(node, pos),
         Unreadable(node, pos)
  PROVE  failed
BY InsideReadable DEF Inv, Sound, IsBitmap

NewBitmap(len, mem) ==
  node' = [len |-> len, mem |-> mem] /\ UNCHANGED <<row, dangling, down, failed>>

LEMMA InvNewBitmap ==
  ASSUME Inv, ~dangling, NEW len \in 0..MaxWords, len >= 1, NEW mem \in Words(len),
         NewBitmap(len, mem), reply' \in Replies, wrapped' \in BOOLEAN
  PROVE  Inv'
<1>1. ObjectsOK /\ Sound
  BY TypeParts DEF Inv
<1>2. mem # NULL
  BY BitmapAssumption
<1>3. node' \in Bitmaps /\ node'.len = len /\ node'.mem = mem
  BY IsBitmapOf DEF NewBitmap
<1>4. ObjectsOK'
  BY <1>1, <1>3 DEF ObjectsOK, NewBitmap
<1>5. Sound'
  BY <1>1, <1>2, <1>3 DEF Sound, NewBitmap
<1> QED
  BY <1>4, <1>5, TypePartsNext DEF Inv

LEMMA NoWordsIs ==
  NoWords \in Bitmaps /\ NoWords.len = 0 /\ NoWords.mem \in Words(0) /\ NoWords.mem # NULL
<1>1. NoWords.len = 0 /\ NoWords.mem \in Words(0) /\ 0 \in 0..MaxWords
  BY BitmapAssumption DEF NoWords, Words
<1>2. NoWords = [len |-> NoWords.len, mem |-> NoWords.mem]
  BY DEF NoWords
<1>3. NoWords \in Bitmaps
  BY <1>1, <1>2, IsBitmapOf
<1> QED
  BY <1>1, <1>3, BitmapAssumption

(* The words for a position that is not inside are more than there are.    *)
LEMMA LenGrows ==
  ASSUME NEW o \in Bitmaps, NEW pos \in Int, ~inside(o, pos),
         word_offset(Unsigned(pos)) + 1 <= MaxWords
  PROVE  /\ word_offset(Unsigned(pos)) + 1 \in 1..MaxWords
         /\ o.len <= word_offset(Unsigned(pos))
<1>1. o.len \in Nat /\ MaxWords \in Nat /\ BITS_PER_WORD \in Nat \ {0}
  BY BitmapIs, BitmapAssumption
<1>2. Unsigned(pos) \in Nat /\ ~(Unsigned(pos) < o.len * BITS_PER_WORD)
  BY UnsignedFacts DEF inside
<1>3. ~(word_offset(Unsigned(pos)) < o.len)
  BY <1>1, <1>2, Below DEF word_offset
<1>4. word_offset(Unsigned(pos)) \in Int /\ word_offset(Unsigned(pos)) >= 0
  BY <1>2, OffsetsInWord
<1> QED
  BY <1>1, <1>3, <1>4

LEMMA InvRefused ==
  ASSUME Inv, refused
  PROVE  Inv'
<1>1. PICK o \in Offsets :
        /\ reply' \in {"offset", "bit", "type"} /\ UNCHANGED <<down, row>>
        /\ Takes(o) /\ UNCHANGED <<node, dangling, failed>>
  BY DEF refused, Answer
<1>2. wrapped' \in BOOLEAN
  BY <1>1, TakesTyped DEF Inv
<1> QED
  BY <1>1, <1>2, SameObjects DEF Replies

LEMMA InvGetbit ==
  ASSUME Inv, getbit
  PROVE  Inv'
<1>1. PICK o \in Offsets :
        LET pos == Position[o]
        IN /\ legal(pos) /\ node # Plain
           /\ IF node = NULL \/ (node # NULL /\ ~dangling /\ ~inside(node, pos))
              THEN Answer(":0") /\ Takes(o) /\ UNCHANGED <<node, dangling, failed>>
              ELSE IF Unreadable(node, pos)
              THEN Undefined
              ELSE /\ Answer(ToBit(getbitUtility(node.mem, pos))) /\ Takes(o)
                   /\ UNCHANGED <<node, dangling, failed>>
  BY DEF getbit
<1>2. Position[o] \in Int /\ (Takes(o) => wrapped' \in BOOLEAN)
  BY OffsetIsRead, TakesTyped DEF Inv
<1>3. ASSUME Answer(":0") \/ Answer(ToBit(getbitUtility(node.mem, Position[o]))),
             Takes(o), UNCHANGED <<node, dangling, failed>>
      PROVE  Inv'
  <2>1. reply' \in Replies /\ UNCHANGED <<down, row>>
    BY <1>3 DEF Answer, ToBit, Replies
  <2> QED
    BY <1>2, <1>3, <2>1, SameObjects
<1>4. CASE node # NULL /\ (dangling \/ inside(node, Position[o])) /\ Unreadable(node, Position[o])
  <2>1. Undefined
    BY <1>1, <1>4
  <2>2. failed
    BY <1>1, <1>2, <1>4, UndefinedOnlyFailed
  <2> QED
    BY <2>1, <2>2, InvUndefined
<1> QED
  BY <1>1, <1>3, <1>4

LEMMA InvSetbitInside ==
  ASSUME Inv, setbitInside
  PROVE  Inv'
<1>1. PICK o \in Offsets, b \in BitArgs \cap {0, 1} :
        LET pos == Position[o]
        IN /\ legal(pos) /\ node \notin {NULL, Plain} /\ (dangling \/ inside(node, pos))
           /\ IF Unreadable(node, pos)
              THEN Undefined
              ELSE /\ node' = [node EXCEPT !.mem = WithBit(@, pos, b)]
                   /\ Answer(ToBit(getbitUtility(node.mem, pos))) /\ Takes(o)
                   /\ UNCHANGED <<dangling, failed>>
  BY DEF setbitInside
<1>2. Position[o] \in Int
  BY OffsetIsRead
<1>3. CASE Unreadable(node, Position[o])
  <2>1. Undefined
    BY <1>1, <1>3
  <2>2. failed
    BY <1>1, <1>2, <1>3, UndefinedOnlyFailed
  <2> QED
    BY <2>1, <2>2, InvUndefined
<1>4. CASE ~Unreadable(node, Position[o])
  <2>1. /\ node' = [node EXCEPT !.mem = WithBit(@, Position[o], b)]
        /\ Answer(ToBit(getbitUtility(node.mem, Position[o]))) /\ Takes(o)
        /\ UNCHANGED <<dangling, failed>>
    BY <1>1, <1>4
  <2>2. node \in Bitmaps /\ node.mem # NULL /\ ~dangling
    BY <1>1, <1>4, NodeIs DEF Inv, IsBitmap, Unreadable
  <2>3. node.len \in 0..MaxWords /\ node.mem \in Words(node.len)
        /\ node = [len |-> node.len, mem |-> node.mem]
    BY <2>2, BitmapIs
  <2>4. WithBit(node.mem, Position[o], b) \in Words(node.len)
    BY <1>2, <2>3, WithBitTyped
  <2>5. node' = [len |-> node.len, mem |-> WithBit(node.mem, Position[o], b)]
    BY <2>1, <2>3
  <2>6. NewBitmap(node.len, WithBit(node.mem, Position[o], b))
    BY <2>1, <2>5 DEF Answer, NewBitmap
  <2>7. node.len >= 1 /\ reply' \in Replies /\ wrapped' \in BOOLEAN
    BY <1>1, <2>1, <2>2, TakesTyped DEF Inv, Sound, IsBitmap, Answer, ToBit, Replies
  <2> QED
    BY <2>2, <2>3, <2>4, <2>6, <2>7, InvNewBitmap
<1> QED
  BY <1>3, <1>4

LEMMA InvSetbitGrows ==
  ASSUME Inv, setbitGrows
  PROVE  Inv'
<1>1. PICK o \in Offsets, b \in BitArgs \cap {0, 1}, junk \in SUBSET (0..(BITS_PER_WORD - 1)) :
        LET pos == Position[o]
            len == word_offset(Unsigned(pos)) + 1
            old == IF node = NULL THEN NoWords ELSE node
        IN /\ legal(pos) /\ node # Plain /\ ~dangling /\ ~inside(old, pos)
           /\ len <= MaxWords
           /\ node' = [Grown(old, len, junk) EXCEPT !.mem = WithBit(@, pos, b)]
           /\ Answer(":0") /\ Takes(o)
           /\ UNCHANGED <<dangling, failed>>
  BY DEF setbitGrows
<1>2. PICK pos, len, old :
        /\ pos = Position[o] /\ len = word_offset(Unsigned(pos)) + 1
        /\ old = IF node = NULL THEN NoWords ELSE node
  OBVIOUS
<1>3. /\ node # Plain /\ ~dangling /\ ~inside(old, pos) /\ len <= MaxWords
      /\ node' = [Grown(old, len, junk) EXCEPT !.mem = WithBit(@, pos, b)]
      /\ Answer(":0") /\ Takes(o) /\ UNCHANGED <<dangling, failed>>
  BY <1>1, <1>2
<1>4. pos \in Int
  BY <1>2, OffsetIsRead
<1>5. old \in Bitmaps
  BY <1>2, <1>3, NoWordsIs, NodeIs DEF Inv, IsBitmap
<1>6. len \in 1..MaxWords /\ len \in 0..MaxWords /\ old.len <= len
  <2>1. word_offset(Unsigned(pos)) + 1 <= MaxWords /\ ~inside(old, pos)
    BY <1>2, <1>3
  <2>2. len \in 1..MaxWords /\ old.len <= len - 1
    <3>1. /\ word_offset(Unsigned(pos)) + 1 \in 1..MaxWords
          /\ old.len <= word_offset(Unsigned(pos))
      BY <1>4, <1>5, <2>1, LenGrows
    <3>2. word_offset(Unsigned(pos)) \in Int
      BY <1>4, UnsignedFacts, OffsetsInWord
    <3> QED
      BY <1>2, <3>1, <3>2
  <2>3. old.len \in Nat /\ MaxWords \in Nat
    BY <1>5, BitmapIs, BitmapAssumption
  <2> QED
    BY <2>2, <2>3
<1>7. /\ Grown(old, len, junk).len = len /\ Grown(old, len, junk).mem \in Words(len)
      /\ Grown(old, len, junk) = [len |-> len, mem |-> Grown(old, len, junk).mem]
  BY <1>5, <1>6, GrownTyped DEF Grown
<1>8. WithBit(Grown(old, len, junk).mem, pos, b) \in Words(len)
  BY <1>4, <1>7, WithBitTyped
<1>9. node' = [len |-> len, mem |-> WithBit(Grown(old, len, junk).mem, pos, b)]
  BY <1>3, <1>7
<1>10. NewBitmap(len, WithBit(Grown(old, len, junk).mem, pos, b))
  BY <1>3, <1>9 DEF Answer, NewBitmap
<1>11. reply' \in Replies /\ wrapped' \in BOOLEAN /\ len >= 1
  BY <1>3, <1>6, TakesTyped DEF Inv, Answer, Replies
<1> QED
  BY <1>3, <1>6, <1>8, <1>10, <1>11, InvNewBitmap

LEMMA InvSetbitFails ==
  ASSUME Inv, setbitFails
  PROVE  Inv'
<1>1. PICK o \in Offsets :
        /\ node # Plain /\ ~dangling
        /\ IF node = NULL
           THEN node' = NoWords /\ dangling' = TRUE /\ Answer(":0")
           ELSE /\ node' = [node EXCEPT !.mem = NULL] /\ UNCHANGED dangling
                /\ \E b0 \in BOOLEAN : Answer(ToBit(b0))
        /\ Takes(o) /\ failed' = TRUE
  BY DEF setbitFails
<1>2. reply' \in Replies /\ UNCHANGED <<down, row>> /\ wrapped' \in BOOLEAN
  BY <1>1, TakesTyped DEF Inv, Answer, ToBit, Replies
<1>3. ObjectsOK /\ Sound
  BY TypeParts DEF Inv
<1>4. node' \in Bitmaps /\ dangling' \in BOOLEAN /\ (~dangling' => node'.len >= 1)
  <2>1. CASE node = NULL
    BY <1>1, <2>1, NoWordsIs
  <2>2. CASE node # NULL
    <3>1. node \in Bitmaps /\ node.len >= 1
      BY <1>1, <1>3, <2>2 DEF ObjectsOK, Sound, IsBitmap
    <3>2. node.len \in 0..MaxWords /\ node = [len |-> node.len, mem |-> node.mem]
      BY <3>1, BitmapIs
    <3>3. node' = [len |-> node.len, mem |-> NULL] /\ dangling' = dangling
      BY <1>1, <2>2, <3>2
    <3>4. node' \in Bitmaps
      BY <3>2, <3>3, IsBitmapOf
    <3>5. node'.len = node.len
      BY <3>3
    <3>6. dangling' = FALSE
      BY <1>1, <2>2, <1>3 DEF ObjectsOK
    <3> QED
      BY <3>1, <3>4, <3>5, <3>6
  <2> QED
    BY <2>1, <2>2
<1>5. ObjectsOK'
  BY <1>1, <1>2, <1>3, <1>4 DEF ObjectsOK
<1>6. IsBitmap(node)'
  BY <1>4, BitmapIs DEF IsBitmap
<1>7. Sound'
  BY <1>1, <1>4, <1>6 DEF Sound
<1> QED
  BY <1>2, <1>5, <1>7, TypePartsNext DEF Inv

(* An object that may be the one of the key, once it is not dangling.      *)
Storable(o) ==
  \/ o = NULL \/ o = Plain
  \/ o \in Bitmaps /\ o.len >= 1 /\ (o.mem = NULL => failed)

LEMMA InvReplaced ==
  ASSUME Inv, NEW o, Storable(o), Replaced(o)
  PROVE  Inv'
<1>1. ObjectsOK /\ Sound /\ wrapped \in BOOLEAN
  BY TypeParts DEF Inv
<1>2. CASE dangling
  BY <1>1, <1>2, InvUndefined DEF Replaced, Sound
<1>3. CASE ~dangling
  <2>1. /\ node' = o /\ reply' \in Replies /\ UNCHANGED <<down, row, dangling, failed, wrapped>>
    BY <1>3 DEF Replaced, Answer, Replies
  <2>2. ObjectsOK'
    BY <1>1, <2>1 DEF ObjectsOK, Storable
  <2>3. Sound'
    BY <1>1, <1>3, <2>1 DEF Sound, Storable, IsBitmap
  <2> QED
    BY <1>1, <2>1, <2>2, <2>3, TypePartsNext DEF Inv
<1> QED
  BY <1>2, <1>3

LEMMA NodeStorable ==
  ASSUME Inv, ~dangling
  PROVE  Storable(node)
BY DEF Inv, TypeOK, Sound, Storable, IsBitmap

LEMMA RowStorable ==
  ASSUME Inv
  PROVE  Storable(row)
BY RowIs DEF Inv, Storable, IsBitmap

LEMMA InvSave ==
  ASSUME Inv, save
  PROVE  Inv'
<1>1. ObjectsOK /\ Sound /\ wrapped \in BOOLEAN
  BY TypeParts DEF Inv
<1>2. CASE IsBitmap(node) /\ (dangling \/ node.mem = NULL)
  BY <1>1, <1>2, InvUndefined DEF save, Sound
<1>3. CASE ~(IsBitmap(node) /\ (dangling \/ node.mem = NULL))
  <2>1. row' = node /\ reply' \in Replies /\ UNCHANGED <<node, dangling, down, failed, wrapped>>
    BY <1>3 DEF save, Replies
  <2>2. node \in {NULL, Plain} \cup UNION {[len : {n}, mem : Words(n)] : n \in 1..MaxWords}
    <3>1. CASE ~IsBitmap(node)
      BY <3>1 DEF IsBitmap
    <3>2. CASE IsBitmap(node)
      <4>1. node \in Bitmaps /\ node.len >= 1 /\ node.mem # NULL
        BY <1>1, <1>3, <3>2 DEF ObjectsOK, Sound, IsBitmap
      <4>2. /\ node.len \in 1..MaxWords /\ node.mem \in Words(node.len)
            /\ node = [len |-> node.len, mem |-> node.mem]
        BY <4>1, BitmapIs, BitmapAssumption
      <4>3. node \in [len : {node.len}, mem : Words(node.len)]
        BY <4>2
      <4> QED
        BY <4>2, <4>3
    <3> QED
      BY <3>1, <3>2
  <2>3. ObjectsOK'
    BY <1>1, <2>1, <2>2 DEF ObjectsOK
  <2>4. Sound'
    BY <1>1, <2>1 DEF Sound, IsBitmap
  <2> QED
    BY <1>1, <2>1, <2>3, <2>4, TypePartsNext DEF Inv
<1> QED
  BY <1>2, <1>3

LEMMA InvLoad ==
  ASSUME Inv, load
  PROVE  Inv'
<1>1. ObjectsOK /\ Sound /\ wrapped \in BOOLEAN
  BY TypeParts DEF Inv
<1>2. CASE Replaced(IF row = NULL THEN node ELSE row)
  <2>1. CASE dangling
    BY <1>1, <1>2, <2>1, InvUndefined DEF Replaced, Sound
  <2>2. CASE ~dangling
    <3>1. Storable(IF row = NULL THEN node ELSE row)
      BY <2>2, NodeStorable, RowStorable
    <3> QED
      BY <1>2, <3>1, InvReplaced
  <2> QED
    BY <2>1, <2>2
<1>3. CASE failed' = TRUE /\ Answer("null") /\ UNCHANGED <<node, dangling, wrapped>>
  <2>1. ObjectsOK'
    BY <1>1, <1>3 DEF ObjectsOK, Answer
  <2>2. Sound'
    BY <1>1, <1>3 DEF Sound, IsBitmap, Answer
  <2> QED
    BY <1>1, <1>3, <2>1, <2>2, TypePartsNext DEF Inv, Answer, Replies
<1> QED
  BY <1>2, <1>3 DEF load

LEMMA InvRestart ==
  ASSUME Inv, restart
  PROVE  Inv'
<1>1. ObjectsOK /\ Sound /\ wrapped \in BOOLEAN /\ Storable(row)
  BY TypeParts, RowStorable DEF Inv
<1>2. /\ dangling' = FALSE /\ down' = FALSE /\ reply' = "none" /\ UNCHANGED <<row, wrapped>>
      /\ (node' = row /\ failed' = failed) \/ (node' = NULL /\ failed' = TRUE)
  BY DEF restart
<1>3. ObjectsOK'
  BY <1>1, <1>2 DEF ObjectsOK, Storable
<1>4. Sound'
  BY <1>1, <1>2 DEF Sound, Storable, IsBitmap
<1> QED
  BY <1>1, <1>2, <1>3, <1>4, TypePartsNext DEF Inv, Replies

-----------------------------------------------------------------------------
LEMMA InvInit == Init => Inv
BY DEF Init, Inv, TypeOK, Sound, IsBitmap

LEMMA InvNext ==
  ASSUME Inv, [Next]_vars
  PROVE  Inv'
<1>1. CASE UNCHANGED vars
  <2>1. reply \in Replies /\ wrapped \in BOOLEAN
    BY TypeParts DEF Inv
  <2> QED
    BY <1>1, <2>1, SameObjects DEF vars
<1>2. CASE restart
  BY <1>2, InvRestart
<1>3. CASE Command
  <2>1. CASE refused
    BY <2>1, InvRefused
  <2>2. CASE getbit
    BY <2>2, InvGetbit
  <2>3. CASE setbitInside
    BY <2>3, InvSetbitInside
  <2>4. CASE setbitGrows
    BY <2>4, InvSetbitGrows
  <2>5. CASE setbitFails
    BY <2>5, InvSetbitFails
  <2>6. CASE setPlain
    BY <2>6, InvReplaced DEF setPlain, Storable
  <2>7. CASE del
    BY <2>7, InvReplaced DEF del, Storable
  <2>8. CASE save
    BY <2>8, InvSave
  <2>9. CASE load
    BY <2>9, InvLoad
  <2> QED
    BY <1>3, <2>1, <2>2, <2>3, <2>4, <2>5, <2>6, <2>7, <2>8, <2>9 DEF Command
<1> QED
  BY <1>1, <1>2, <1>3 DEF Next

(* The types, and the invariant they are part of.                          *)
THEOREM InvHolds == Spec => []Inv
BY InvInit, InvNext, PTL DEF Spec

(* Every variable keeps its type: a word array has as many words as its    *)
(* length says, and a row of the file has at least one (bitmap.c).         *)
THEOREM TypeCorrect == Spec => []TypeOK
<1>1. Inv => TypeOK
  BY DEF Inv
<1> QED
  BY <1>1, InvHolds, PTL

(* No word is read or written that is not the bitmap's own, until an       *)
(* allocation has failed (bitmap.c:40,54).                                 *)
THEOREM TouchesOwnWords == Spec => []UndefinedOnlyAfterFailure
<1>1. Inv => UndefinedOnlyAfterFailure
  BY DEF Inv, Sound, UndefinedOnlyAfterFailure
<1> QED
  BY <1>1, InvHolds, PTL

-----------------------------------------------------------------------------
(* The positions of words                                                  *)

LEMMA PositionsOf ==
  ASSUME NEW o \in Bitmaps, o.mem # NULL
  PROVE  /\ Positions(o) # NULL /\ Positions(o) # Plain
         /\ \A p : p \in Positions(o) <=>
              p \in Nat /\ word_offset(p) < o.len /\ bit_offset(p) \in o.mem[word_offset(p)]
<1>1. o.len \in Nat /\ o.len <= MaxWords /\ MaxWords \in Nat /\ BITS_PER_WORD \in Nat \ {0}
  BY BitmapIs, BitmapAssumption
<1>2. Positions(o) = {p \in 0..(o.len * BITS_PER_WORD - 1) : getbitUtility(o.mem, p)}
  BY BitmapIs DEF Positions, IsBitmap
<1>3. o.len * BITS_PER_WORD \in Nat /\ o.len * BITS_PER_WORD <= MaxWords * BITS_PER_WORD
  BY <1>1
<1>4. MaxWords * BITS_PER_WORD \in Nat
  BY <1>1
<1>5. Positions(o) \subseteq 0..(MaxWords * BITS_PER_WORD - 1)
  BY <1>2, <1>3, <1>4
<1>6. ASSUME NEW p
      PROVE  p \in 0..(o.len * BITS_PER_WORD - 1) <=> p \in Nat /\ word_offset(p) < o.len
  <2>1. p \in 0..(o.len * BITS_PER_WORD - 1) <=> p \in Nat /\ p < o.len * BITS_PER_WORD
    BY <1>3
  <2>2. ASSUME p \in Nat
        PROVE  p < o.len * BITS_PER_WORD <=> word_offset(p) < o.len
    BY <1>1, <2>2, Below DEF word_offset
  <2> QED
    BY <2>1, <2>2
<1> QED
  BY <1>2, <1>5, <1>6, BitmapAssumption DEF getbitUtility

LEMMA SamePlace ==
  ASSUME NEW p \in Nat, NEW q \in Nat,
         word_offset(p) = word_offset(q), bit_offset(p) = bit_offset(q)
  PROVE  p = q
<1>1. p = BITS_PER_WORD * word_offset(p) + bit_offset(p)
  BY OffsetsInWord
<1>2. q = BITS_PER_WORD * word_offset(q) + bit_offset(q)
  BY OffsetsInWord
<1> QED
  BY <1>1, <1>2

Updated(ps, pos, bit) == IF bit = 1 THEN ps \cup {pos} ELSE ps \ {pos}

LEMMA PositionsWithBit ==
  ASSUME NEW o \in Bitmaps, NEW n \in Bitmaps, o.mem # NULL, n.mem # NULL, n.len = o.len,
         NEW pos \in Nat, word_offset(pos) < o.len, NEW bit,
         n.mem = WithBit(o.mem, pos, bit)
  PROVE  Positions(n) = Updated(Positions(o), pos, bit)
<1>1. o.mem \in Words(o.len) /\ o.len \in Nat
  BY BitmapIs, BitmapAssumption
<1>2. word_offset(pos) \in 0..(o.len - 1) /\ bit_offset(pos) \in 0..(BITS_PER_WORD - 1)
  BY <1>1, OffsetsInWord
<1>3. ASSUME NEW p \in Nat
      PROVE  p \in Positions(n) <=> p \in Updated(Positions(o), pos, bit)
  <2>1. CASE ~(word_offset(p) < o.len)
    <3>1. p \notin Positions(n) /\ p \notin Positions(o) /\ p # pos
      BY <2>1, PositionsOf
    <3> QED
      BY <3>1 DEF Updated
  <2>2. CASE word_offset(p) < o.len
    <3>1. word_offset(p) \in 0..(o.len - 1)
      BY <1>1, <2>2, OffsetsInWord
    <3>2. /\ p \in Positions(n) <=> bit_offset(p) \in n.mem[word_offset(p)]
          /\ p \in Positions(o) <=> bit_offset(p) \in o.mem[word_offset(p)]
      BY <2>2, PositionsOf
    <3>3. CASE word_offset(p) # word_offset(pos)
      <4>1. n.mem[word_offset(p)] = o.mem[word_offset(p)] /\ p # pos
        BY <1>1, <3>1, <3>3 DEF WithBit, Words
      <4> QED
        BY <3>2, <4>1 DEF Updated
    <3>4. CASE word_offset(p) = word_offset(pos)
      <4>1. n.mem[word_offset(p)] =
              IF bit = 1 THEN o.mem[word_offset(p)] \cup {bit_offset(pos)}
              ELSE o.mem[word_offset(p)] \ {bit_offset(pos)}
        BY <1>1, <1>2, <3>4 DEF WithBit, Words
      <4>2. bit_offset(p) = bit_offset(pos) <=> p = pos
        BY <3>4, SamePlace
      <4> QED
        BY <3>2, <4>1, <4>2 DEF Updated
    <3> QED
      BY <3>3, <3>4
  <2> QED
    BY <2>1, <2>2
<1>4. Positions(o) \subseteq Nat /\ Positions(n) \subseteq Nat
  BY PositionsOf
<1> QED
  BY <1>3, <1>4 DEF Updated

LEMMA PositionsGrown ==
  ASSUME NEW o \in Bitmaps, NEW n \in Bitmaps, o.mem # NULL, n.mem # NULL, o.len <= n.len,
         \A w \in 0..(n.len - 1) : n.mem[w] = IF w < o.len THEN o.mem[w] ELSE {}
  PROVE  Positions(n) = Positions(o)
<1>1. o.len \in Nat /\ n.len \in Nat
  BY BitmapIs, BitmapAssumption
<1>2. ASSUME NEW p \in Nat
      PROVE  p \in Positions(n) <=> p \in Positions(o)
  <2>1. word_offset(p) \in Nat
    BY OffsetsInWord
  <2>2. /\ p \in Positions(n) <=>
             word_offset(p) < n.len /\ bit_offset(p) \in n.mem[word_offset(p)]
        /\ p \in Positions(o) <=>
             word_offset(p) < o.len /\ bit_offset(p) \in o.mem[word_offset(p)]
    BY PositionsOf
  <2>3. CASE word_offset(p) < n.len
    <3>1. n.mem[word_offset(p)] =
            IF word_offset(p) < o.len THEN o.mem[word_offset(p)] ELSE {}
      BY <1>1, <2>1, <2>3
    <3> QED
      BY <2>2, <2>3, <3>1
  <2>4. CASE ~(word_offset(p) < n.len)
    BY <1>1, <2>1, <2>2, <2>4
  <2> QED
    BY <2>3, <2>4
<1>3. Positions(o) \subseteq Nat /\ Positions(n) \subseteq Nat
  BY PositionsOf
<1> QED
  BY <1>2, <1>3

-----------------------------------------------------------------------------
(* Each step is one of BitSet, while no allocation fails and no offset     *)
(* wraps.                                                                  *)

Clean == ~failed /\ ~wrapped /\ ~failed' /\ ~wrapped'

LEMMA StepOfSet ==
  ASSUME Clean, UNCHANGED row,
         \/ \E o \in Offsets, b \in BitArgs : Set!SetBit(o, b)
         \/ \E o \in Offsets : Set!GetBit(o)
         \/ Set!SetPlain \/ Set!Del \/ Set!Load \/ Set!Restart
  PROVE  Set!Next
<1>1. UNCHANGED <<Positions(row), failed \/ wrapped>>
  BY DEF Clean
<1> QED
  BY <1>1 DEF Set!Next, Clean

LEMMA UndefinedStutters ==
  ASSUME Undefined
  PROVE  UNCHANGED Set!vars
BY DEF Undefined, Set!vars

LEMMA ObjectIs ==
  ASSUME Inv, ~failed
  PROVE  /\ Positions(node) = Plain <=> node = Plain
         /\ Positions(node) = NULL <=> node = NULL
         /\ Set!Bits = IF node = NULL THEN {} ELSE Positions(node)
<1>1. ASSUME IsBitmap(node)
      PROVE  Positions(node) # Plain /\ Positions(node) # NULL
  BY <1>1, NodeIs, PositionsOf DEF Inv, Sound
<1>2. ASSUME ~IsBitmap(node)
      PROVE  Positions(node) = node
  BY <1>2 DEF Positions
<1>3. Positions(node) = NULL <=> node = NULL
  BY <1>1, <1>2, BitmapAssumption DEF IsBitmap
<1> QED
  BY <1>1, <1>2, <1>3 DEF IsBitmap, Set!Bits

(* What an offset means to both.                                           *)
LEMMA OffsetMeans ==
  ASSUME Clean, NEW o \in Offsets, Takes(o)
  PROVE  /\ legal(Position[o]) <=> Set!Legal(o)
         /\ legal(Position[o]) => /\ Position[o] = Number[o] /\ Unsigned(Position[o]) = Number[o]
                                  /\ Position[o] \in Nat
<1>1. ~(Number[o] > LL_MAX + 1 /\ legal(Position[o]))
  BY DEF Takes, Clean
<1>2. Number[o] \in 0..OFFSET_MAX => Number[o] \in Nat
  BY BitmapAssumption
<1> QED
  BY <1>1, <1>2, LegalOffsets DEF Set!Legal

(* A bit that is inside is that of its word, and one that is not is 0.     *)
LEMMA BitOf ==
  ASSUME Inv, ~failed, IsBitmap(node), NEW pos \in Nat, Unsigned(pos) = pos
  PROVE  /\ inside(node, pos) => word_offset(pos) < node.len /\
              (pos \in Positions(node) <=> getbitUtility(node.mem, pos))
         /\ ~inside(node, pos) => pos \notin Positions(node)
<1>1. node \in Bitmaps /\ node.mem # NULL /\ node.len \in Nat /\ BITS_PER_WORD \in Nat \ {0}
  BY NodeIs, BitmapIs, BitmapAssumption DEF Inv, Sound
<1>2. inside(node, pos) <=> word_offset(pos) < node.len
  BY <1>1, Below DEF inside, word_offset
<1> QED
  BY <1>1, <1>2, PositionsOf DEF getbitUtility

LEMMA RefinesRefused ==
  ASSUME Inv, Clean, refused
  PROVE  Set!Next
<1>1. PICK o \in Offsets :
        /\ \/ ~legal(Position[o]) /\ Answer("offset")
           \/ legal(Position[o]) /\ BitArgs \ {0, 1} # {} /\ Answer("bit")
           \/ legal(Position[o]) /\ node = Plain /\ Answer("type")
        /\ Takes(o) /\ UNCHANGED <<node, dangling, failed>>
  BY DEF refused
<1>2. (legal(Position[o]) <=> Set!Legal(o)) /\ UNCHANGED row /\ UNCHANGED Positions(node)
  BY <1>1, OffsetMeans DEF Answer
<1>3. CASE ~legal(Position[o]) /\ Answer("offset")
  <2>1. Set!GetBit(o)
    BY <1>2, <1>3 DEF Set!GetBit, Answer
  <2> QED
    BY <1>2, <2>1, StepOfSet
<1>4. CASE legal(Position[o]) /\ BitArgs \ {0, 1} # {} /\ Answer("bit")
  <2>1. PICK b \in BitArgs : b \notin {0, 1}
    BY <1>4
  <2>2. Set!SetBit(o, b)
    BY <1>2, <1>4, <2>1 DEF Set!SetBit, Answer
  <2> QED
    BY <1>2, <2>2, StepOfSet
<1>5. CASE legal(Position[o]) /\ node = Plain /\ Answer("type")
  <2>1. Positions(node) = Plain
    BY <1>5, ObjectIs DEF Clean
  <2>2. Set!GetBit(o)
    BY <1>2, <1>5, <2>1 DEF Set!GetBit, Answer
  <2> QED
    BY <1>2, <2>2, StepOfSet
<1> QED
  BY <1>1, <1>3, <1>4, <1>5

LEMMA RefinesGetbit ==
  ASSUME Inv, Clean, getbit
  PROVE  Set!Next \/ UNCHANGED Set!vars
<1>1. PICK o \in Offsets :
        LET pos == Position[o]
        IN /\ legal(pos) /\ node # Plain
           /\ IF node = NULL \/ (node # NULL /\ ~dangling /\ ~inside(node, pos))
              THEN Answer(":0") /\ Takes(o) /\ UNCHANGED <<node, dangling, failed>>
              ELSE IF Unreadable(node, pos)
              THEN Undefined
              ELSE /\ Answer(ToBit(getbitUtility(node.mem, pos))) /\ Takes(o)
                   /\ UNCHANGED <<node, dangling, failed>>
  BY DEF getbit
<1>2. PICK pos : pos = Position[o]
  OBVIOUS
<1>3. CASE Undefined
  BY <1>3, UndefinedStutters
<1>4. CASE ~Undefined
  <2>1. Takes(o) /\ UNCHANGED node /\ UNCHANGED row
    BY <1>1, <1>4 DEF Answer
  <2>2. /\ Set!Legal(o) /\ pos = Number[o] /\ Unsigned(pos) = pos /\ pos \in Nat
    BY <1>1, <1>2, <2>1, OffsetMeans
  <2>3. Positions(node) # Plain /\ Set!Bits = IF node = NULL THEN {} ELSE Positions(node)
    BY <1>1, ObjectIs DEF Clean
  <2>4. reply' = ToBit(pos \in Set!Bits)
    <3>1. CASE node = NULL
      BY <1>1, <2>3, <3>1 DEF Answer, ToBit
    <3>2. CASE node # NULL
      <4>1. IsBitmap(node) /\ ~dangling /\ ~failed
        BY <1>1, <3>2 DEF Clean, Inv, Sound, IsBitmap
      <4>2. Set!Bits = Positions(node)
        BY <2>3, <3>2
      <4>3. CASE inside(node, pos)
        <5>1. reply' = ToBit(getbitUtility(node.mem, pos))
          BY <1>1, <1>2, <1>4, <3>2, <4>1, <4>3 DEF Answer
        <5>2. pos \in Positions(node) <=> getbitUtility(node.mem, pos)
          BY <2>2, <4>1, <4>3, BitOf
        <5> QED
          BY <4>2, <5>1, <5>2 DEF ToBit
      <4>4. CASE ~inside(node, pos)
        <5>1. reply' = ":0"
          BY <1>1, <1>2, <3>2, <4>1, <4>4 DEF Answer
        <5>2. pos \notin Positions(node)
          BY <2>2, <4>1, <4>4, BitOf
        <5> QED
          BY <4>2, <5>1, <5>2 DEF ToBit
      <4> QED
        BY <4>3, <4>4
    <3> QED
      BY <3>1, <3>2
  <2>5. Set!GetBit(o)
    BY <2>1, <2>2, <2>3, <2>4 DEF Set!GetBit, Set!Bit, ToBit
  <2> QED
    BY <2>1, <2>5, StepOfSet
<1> QED
  BY <1>3, <1>4

LEMMA RefinesSetbit ==
  ASSUME Inv, Clean, NEW o \in Offsets, NEW b \in BitArgs \cap {0, 1}, Takes(o),
         legal(Position[o]), node # Plain, UNCHANGED row,
         reply' = ToBit(Number[o] \in Set!Bits),
         Positions(node') = Updated(Set!Bits, Number[o], b)
  PROVE  Set!Next
<1>1. Set!Legal(o)
  BY OffsetMeans
<1>2. Positions(node) # Plain
  BY ObjectIs DEF Clean
<1>3. Set!SetBit(o, b)
  BY <1>1, <1>2 DEF Set!SetBit, Set!Bit, ToBit, Updated
<1> QED
  BY <1>3, StepOfSet

LEMMA RefinesSetbitInside ==
  ASSUME Inv, Inv', Clean, setbitInside
  PROVE  Set!Next \/ UNCHANGED Set!vars
<1>1. PICK o \in Offsets, b \in BitArgs \cap {0, 1} :
        LET pos == Position[o]
        IN /\ legal(pos) /\ node \notin {NULL, Plain} /\ (dangling \/ inside(node, pos))
           /\ IF Unreadable(node, pos)
              THEN Undefined
              ELSE /\ node' = [node EXCEPT !.mem = WithBit(@, pos, b)]
                   /\ Answer(ToBit(getbitUtility(node.mem, pos))) /\ Takes(o)
                   /\ UNCHANGED <<dangling, failed>>
  BY DEF setbitInside
<1>2. PICK pos : pos = Position[o]
  OBVIOUS
<1>3. CASE Undefined
  BY <1>3, UndefinedStutters
<1>4. CASE ~Undefined
  <2>1. /\ node' = [node EXCEPT !.mem = WithBit(@, pos, b)] /\ Takes(o) /\ UNCHANGED row
        /\ reply' = ToBit(getbitUtility(node.mem, pos))
    BY <1>1, <1>2, <1>4 DEF Answer
  <2>2. pos = Number[o] /\ Unsigned(pos) = pos /\ pos \in Nat
    BY <1>1, <1>2, <2>1, OffsetMeans
  <2>3. /\ IsBitmap(node) /\ node \in Bitmaps /\ node.mem # NULL /\ inside(node, pos)
        /\ node.mem \in Words(node.len) /\ node = [len |-> node.len, mem |-> node.mem]
    BY <1>1, <1>2, NodeIs, BitmapIs DEF Clean, Inv, Sound, IsBitmap
  <2>4. /\ word_offset(pos) < node.len
        /\ pos \in Positions(node) <=> getbitUtility(node.mem, pos)
    BY <2>2, <2>3, BitOf DEF Clean
  <2>5. Set!Bits = Positions(node)
    BY <1>1, ObjectIs DEF Clean
  <2>6. node' = [len |-> node.len, mem |-> WithBit(node.mem, pos, b)]
    BY <2>1, <2>3
  <2>7. node.len \in 0..MaxWords /\ WithBit(node.mem, pos, b) \in Words(node.len)
    BY <2>2, <2>3, BitmapIs, WithBitTyped
  <2>8. /\ node' \in Bitmaps /\ node'.len = node.len
        /\ node'.mem = WithBit(node.mem, pos, b) /\ node'.mem # NULL
    BY <2>6, <2>7, IsBitmapOf, BitmapAssumption
  <2>9. Positions(node') = Updated(Positions(node), pos, b)
    BY <2>2, <2>3, <2>4, <2>8, PositionsWithBit
  <2>10. reply' = ToBit(Number[o] \in Set!Bits)
    BY <2>1, <2>2, <2>4, <2>5 DEF ToBit
  <2> QED
    BY <1>1, <2>1, <2>2, <2>5, <2>9, <2>10, RefinesSetbit
<1> QED
  BY <1>3, <1>4

LEMMA RefinesSetbitGrows ==
  ASSUME Inv, Inv', Clean, setbitGrows
  PROVE  Set!Next
<1>1. PICK o \in Offsets, b \in BitArgs \cap {0, 1}, junk \in SUBSET (0..(BITS_PER_WORD - 1)) :
        LET pos == Position[o]
            len == word_offset(Unsigned(pos)) + 1
            old == IF node = NULL THEN NoWords ELSE node
        IN /\ legal(pos) /\ node # Plain /\ ~dangling /\ ~inside(old, pos)
           /\ len <= MaxWords
           /\ node' = [Grown(old, len, junk) EXCEPT !.mem = WithBit(@, pos, b)]
           /\ Answer(":0") /\ Takes(o)
           /\ UNCHANGED <<dangling, failed>>
  BY DEF setbitGrows
<1>2. PICK pos, len, old, grown :
        /\ pos = Position[o] /\ len = word_offset(Unsigned(pos)) + 1
        /\ old = IF node = NULL THEN NoWords ELSE node
        /\ grown = Grown(old, len, junk)
  OBVIOUS
<1>3. /\ node # Plain /\ ~inside(old, pos) /\ len <= MaxWords
      /\ node' = [grown EXCEPT !.mem = WithBit(@, pos, b)]
      /\ reply' = ":0" /\ UNCHANGED row /\ Takes(o)
  BY <1>1, <1>2 DEF Answer
<1>4. pos = Number[o] /\ Unsigned(pos) = pos /\ pos \in Nat
  BY <1>1, <1>2, <1>3, OffsetMeans
<1>5. old \in Bitmaps /\ old.mem # NULL
  BY <1>2, <1>3, NoWordsIs, NodeIs DEF Inv, Sound, Clean, IsBitmap
<1>6. len \in 1..MaxWords /\ len \in 0..MaxWords /\ old.len <= len /\ old.len <= word_offset(pos)
  <2>1. word_offset(Unsigned(pos)) + 1 <= MaxWords
    BY <1>2, <1>3
  <2>2. word_offset(Unsigned(pos)) + 1 \in 1..MaxWords /\ old.len <= word_offset(Unsigned(pos))
    BY <1>3, <1>4, <1>5, <2>1, LenGrows
  <2>3. old.len \in Nat /\ MaxWords \in Nat /\ word_offset(pos) \in Int
    BY <1>4, <1>5, BitmapIs, OffsetsInWord, BitmapAssumption
  <2> QED
    BY <1>2, <1>4, <2>2, <2>3
<1>7. /\ grown.len = len /\ grown.mem \in Words(len) /\ grown = [len |-> len, mem |-> grown.mem]
      /\ \A w \in 0..(len - 1) : grown.mem[w] = IF w < old.len THEN old.mem[w] ELSE {}
  <2>1. /\ grown.len = len /\ grown.mem \in Words(len)
        /\ \A w \in 0..(len - 1) : grown.mem[w] = IF w < old.len THEN old.mem[w] ELSE {}
    BY <1>2, <1>5, <1>6, GrownTyped
  <2>2. grown = [len |-> grown.len, mem |-> grown.mem]
    BY <1>2 DEF Grown
  <2> QED
    BY <2>1, <2>2
<1>8. grown \in Bitmaps /\ grown.mem # NULL
  BY <1>6, <1>7, IsBitmapOf, BitmapAssumption
<1>9. Positions(grown) = Positions(old)
  BY <1>5, <1>6, <1>7, <1>8, PositionsGrown
<1>10. WithBit(grown.mem, pos, b) \in Words(len)
  BY <1>4, <1>7, WithBitTyped
<1>11. node' = [len |-> len, mem |-> WithBit(grown.mem, pos, b)]
  BY <1>3, <1>7
<1>12. /\ node' \in Bitmaps /\ node'.len = grown.len
       /\ node'.mem = WithBit(grown.mem, pos, b) /\ node'.mem # NULL
  BY <1>6, <1>7, <1>10, <1>11, IsBitmapOf, BitmapAssumption
<1>13. word_offset(pos) < grown.len
  BY <1>2, <1>4, <1>7, OffsetsInWord
<1>14. Positions(node') = Updated(Positions(old), pos, b)
  BY <1>4, <1>8, <1>9, <1>12, <1>13, PositionsWithBit
<1>15. Set!Bits = Positions(old) /\ pos \notin Positions(old)
  <2>1. pos \notin Positions(old)
    <3>1. ~(word_offset(pos) < old.len)
      BY <1>5, <1>6, BitmapIs, BitmapAssumption, OffsetsInWord, <1>4
    <3> QED
      BY <1>5, <3>1, PositionsOf
  <2>2. CASE node = NULL
    <3>1. \A p : p \notin Positions(NoWords)
      <4>1. \A p \in Nat : ~(word_offset(p) < 0)
        BY OffsetsInWord
      <4> QED
        BY <4>1, NoWordsIs, PositionsOf
    <3>2. Set!Bits = {}
      BY <2>2, ObjectIs DEF Clean
    <3> QED
      BY <1>2, <2>1, <2>2, <3>1, <3>2
  <2>3. CASE node # NULL
    BY <1>2, <2>1, <2>3, ObjectIs DEF Clean
  <2> QED
    BY <2>2, <2>3
<1>16. reply' = ToBit(Number[o] \in Set!Bits)
  BY <1>3, <1>4, <1>15 DEF ToBit
<1> QED
  BY <1>1, <1>3, <1>4, <1>14, <1>15, <1>16, RefinesSetbit

LEMMA RefinesReplaced ==
  ASSUME Inv, Clean, NEW o, Replaced(o)
  PROVE  /\ UNCHANGED <<Positions(row), failed \/ wrapped>> /\ UNCHANGED row
         /\ reply' = "ok" /\ node' = o
BY DEF Replaced, Answer, Inv, Sound, Clean

LEMMA RefinesSave ==
  ASSUME Inv, Clean, save
  PROVE  Set!Next
<1>1. ~(IsBitmap(node) /\ (dangling \/ node.mem = NULL))
  BY DEF Inv, Sound, Clean
<1>2. row' = node /\ reply' = "ok" /\ node' = node
  BY <1>1 DEF save
<1>3. Positions(row') = Positions(node) /\ Positions(node') = Positions(node)
  BY <1>2
<1>4. Set!Save
  BY <1>2, <1>3 DEF Set!Save
<1> QED
  BY <1>4 DEF Set!Next, Clean

LEMMA RowObject ==
  ASSUME Inv
  PROVE  /\ Positions(row) = Plain <=> row = Plain
         /\ Positions(row) = NULL <=> row = NULL
<1>1. ASSUME IsBitmap(row)
      PROVE  Positions(row) # Plain /\ Positions(row) # NULL
  BY <1>1, RowIs, PositionsOf DEF Inv
<1>2. ASSUME ~IsBitmap(row)
      PROVE  Positions(row) = row
  BY <1>2 DEF Positions
<1> QED
  BY <1>1, <1>2, BitmapAssumption DEF IsBitmap

LEMMA RefinesLoad ==
  ASSUME Inv, Clean, load
  PROVE  Set!Next
<1>1. row # Plain /\ Replaced(IF row = NULL THEN node ELSE row)
  BY DEF load, Clean
<1>2. UNCHANGED row /\ reply' = "ok" /\ node' = IF row = NULL THEN node ELSE row
  BY <1>1, RefinesReplaced
<1>3. Positions(node') = IF row = NULL THEN Positions(node) ELSE Positions(row)
  BY <1>2
<1>4. Set!Load
  BY <1>1, <1>2, <1>3, RowObject DEF Set!Load
<1> QED
  BY <1>2, <1>4, StepOfSet

LEMMA RefinesRestart ==
  ASSUME Inv, Clean, restart
  PROVE  Set!Next
<1>1. node' = row /\ UNCHANGED row /\ reply' = "none"
  BY DEF restart, Clean
<1>2. Positions(node') = Positions(row)
  BY <1>1
<1>3. Set!Restart
  BY <1>1, <1>2 DEF Set!Restart
<1> QED
  BY <1>1, <1>3, StepOfSet

LEMMA RefinesStep ==
  ASSUME Inv, Inv', [Next]_vars
  PROVE  [(failed \/ wrapped) \/ Set!Next]_(Set!vars)
<1>1. CASE failed \/ wrapped
  BY <1>1
<1>2. CASE ~(failed \/ wrapped) /\ (failed' \/ wrapped')
  BY <1>2 DEF Set!Next
<1>3. CASE Clean
  <2>1. CASE UNCHANGED vars
    BY <2>1 DEF vars, Set!vars
  <2>2. CASE restart
    BY <1>3, <2>2, RefinesRestart
  <2>3. CASE Command
    <3>1. CASE refused
      BY <1>3, <3>1, RefinesRefused
    <3>2. CASE getbit
      BY <1>3, <3>2, RefinesGetbit
    <3>3. CASE setbitInside
      BY <1>3, <3>3, RefinesSetbitInside
    <3>4. CASE setbitGrows
      BY <1>3, <3>4, RefinesSetbitGrows
    <3>5. CASE setbitFails
      BY <1>3, <3>5 DEF setbitFails, Clean
    <3>6. CASE setPlain
      <4>1. UNCHANGED row /\ reply' = "ok" /\ node' = Plain
        BY <1>3, <3>6, RefinesReplaced DEF setPlain
      <4>2. Positions(node') = Plain
        BY <4>1 DEF Positions, IsBitmap
      <4>3. Set!SetPlain
        BY <4>1, <4>2 DEF Set!SetPlain
      <4> QED
        BY <1>3, <4>1, <4>3, StepOfSet
    <3>7. CASE del
      <4>1. UNCHANGED row /\ reply' = "ok" /\ node' = NULL
        BY <1>3, <3>7, RefinesReplaced DEF del
      <4>2. Positions(node') = NULL
        BY <4>1 DEF Positions, IsBitmap
      <4>3. Set!Del
        BY <4>1, <4>2 DEF Set!Del
      <4> QED
        BY <1>3, <4>1, <4>3, StepOfSet
    <3>8. CASE save
      BY <1>3, <3>8, RefinesSave
    <3>9. CASE load
      BY <1>3, <3>9, RefinesLoad
    <3> QED
      BY <2>3, <3>1, <3>2, <3>3, <3>4, <3>5, <3>6, <3>7, <3>8, <3>9 DEF Command
  <2> QED
    BY <2>1, <2>2, <2>3 DEF Next
<1> QED
  BY <1>1, <1>2, <1>3 DEF Clean

LEMMA RefinesInit == Init => Set!Init
BY DEF Init, Set!Init, Positions, IsBitmap

(* The words of a bitmap implement a set of positions, from the digits of  *)
(* an offset to the reply, until an allocation fails or an offset wraps:   *)
(* what SETBIT and GETBIT answer and what growing, saving and loading keep *)
(* (bitmap.c).                                                             *)
THEOREM BitmapImplementsBitSet == Spec => ImplementsBitSet
<1>1. Init => Set!Init
  BY RefinesInit
<1>2. Inv /\ Inv' /\ [Next]_vars => [(failed \/ wrapped) \/ Set!Next]_(Set!vars)
  BY RefinesStep
<1> QED
  BY <1>1, <1>2, InvHolds, PTL DEF Spec, ImplementsBitSet, Set!Spec
=============================================================================
