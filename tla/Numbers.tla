------------------------------ MODULE Numbers ------------------------------
(***************************************************************************)
(* The conversions between digits and numbers (ds/utilities.c) at the      *)
(* widths the constants give.  Integers wrap around, which is what the     *)
(* build makes of their overflow.  A character is a digit of Base, Dot,    *)
(* Minus or Other.                                                         *)
(*                                                                         *)
(* stringTolongDoubleShort is a bug this code could have had (see          *)
(* PROJECT.json, "mutants"); nothing uses it.                              *)
(***************************************************************************)
EXTENDS SequencesExt, Integers

CONSTANTS
  Base,      (* 10                                                          *)
  LongBits,  (* the width of long long                                      *)
  IntBits,   (* the width of int                                            *)
  Decimals,  (* the decimals of "%Lf"                                       *)
  BufferLen  (* the characters doubleToString has room for                  *)

ASSUME NumbersAssumption ==
  /\ Base \in Nat \ {0, 1} /\ LongBits \in Nat \ {0, 1} /\ IntBits \in Nat \ {0, 1}
  /\ Decimals \in Nat /\ Base^Decimals < 2^(IntBits - 1)

(* The buffer has room for the digits of any int.                          *)
ASSUME BufferAssumption ==
  /\ BufferLen \in Nat /\ Decimals + 2 < BufferLen
  /\ 2^(IntBits - 1) <= Base^(BufferLen - Decimals - 2)

(* Arithmetic of powers, which the provers do not have.                    *)
ASSUME PowersAssumption ==
  /\ 2^(LongBits - 1) \in Nat /\ 2^(LongBits - 1) > 1
  /\ 2^LongBits = 2 * 2^(LongBits - 1)

ASSUME DigitsAssumption ==
  /\ 2^(IntBits - 1) \in Nat /\ 2^(IntBits - 1) > 1
  /\ 2^IntBits = 2 * 2^(IntBits - 1)
  /\ Base^0 = 1 /\ \A n \in 1..BufferLen : Base^n = Base * Base^(n - 1)

Digits == 0..(Base - 1)
Dot == Base
Minus == Base + 1
Other == Base + 2

Wrapped(x, bits) == ((x + 2^(bits - 1)) % 2^bits) - 2^(bits - 1)

(* What the digits s stand for, and what is left of it in so many bits:    *)
(* the loops multiply and add digit by digit.                              *)
Value(s) ==
  LET n[i \in 0..Len(s)] == IF i = 0 THEN 0 ELSE n[i - 1] * Base + s[i] IN n[Len(s)]

Accumulated(s, bits) ==
  LET n[i \in 0..Len(s)] == IF i = 0 THEN 0 ELSE Wrapped(n[i - 1] * Base + s[i], bits)
  IN n[Len(s)]

-----------------------------------------------------------------------------
(* Offsets                                                                 *)

LL_MAX == 2^(LongBits - 1) - 2

IsNumeral(s) == \A i \in DOMAIN s : s[i] \in Digits

(* LL_MAX is compared with what has been read, never with what is about to *)
(* be: LL_MAX + 1 is caught, the numbers behind it wrap around.            *)
stringToLongLong(s) ==
  LET l(i) == Accumulated(SubSeq(s, 1, i), LongBits)
  IN IF IsNumeral(s) /\ \A i \in 0..Len(s) : l(i) <= LL_MAX THEN l(Len(s)) ELSE -1

-----------------------------------------------------------------------------
(* Scores, in units of the first decimal that is not printed               *)

Unit == Base^(Decimals + 1)

(* The last w digits of n.                                                 *)
LastDigits(n, w) == [i \in 1..w |-> (n \div Base^(w - i)) % Base]

(* Bound: numbers have up to BufferLen digits.                             *)
WholeDigits(n) ==
  LastDigits(n, CHOOSE w \in 1..BufferLen : n < Base^w /\ (w = 1 \/ n >= Base^(w - 1)))

(* doubleToString rounds, and cuts off what the buffer has no room for.    *)
doubleToString(x) ==
  LET n == ((IF x < 0 THEN -x ELSE x) + Base \div 2) \div Base
      s == (IF x < 0 THEN <<Minus>> ELSE <<>>)
           \o WholeDigits(n \div Base^Decimals) \o <<Dot>> \o LastDigits(n, Decimals)
  IN SubSeq(s, 1, IF Len(s) < BufferLen THEN Len(s) ELSE BufferLen)

(* A number whose digits were read into num and fraction, over Base to the *)
(* power of the digits of the fraction.                                    *)
Joined(num, fraction, len) ==
  num * Unit + IF fraction = 0 THEN 0 ELSE (fraction * Unit) \div len

stringTolongDoubleShort(s) ==
  LET dot == SelectInSeq(s \o <<Dot>>, LAMBDA c : c = Dot)
      whole == SubSeq(s, 1, dot - 1)
      frac == SubSeq(s, dot + 1, Len(s))
      fraction == Accumulated(frac, IntBits)
  IN IF IsNumeral(whole) /\ IsNumeral(frac)
     THEN Joined(Accumulated(whole, IntBits), fraction, Base^Len(WholeDigits(fraction)))
     ELSE -Unit

(* A second Dot is as illegal as any other character; -1 stands for an     *)
(* error.                                                                  *)
stringTolongDouble(s) ==
  LET dot == SelectInSeq(s \o <<Dot>>, LAMBDA c : c = Dot)
      whole == SubSeq(s, 1, dot - 1)
      frac == SubSeq(s, dot + 1, Len(s))
  IN IF IsNumeral(whole) /\ IsNumeral(frac)
     THEN Joined(Accumulated(whole, IntBits), Accumulated(frac, IntBits),
                 Wrapped(Base^Len(frac), IntBits))
     ELSE -Unit

(* parseArgs takes the sign off; refused is its answer to -1.              *)
parseScore(s, refused) ==
  LET minus == s # <<>> /\ s[1] = Minus
      score == stringTolongDouble(IF minus THEN Tail(s) ELSE s)
  IN IF score = -Unit THEN refused ELSE IF minus THEN -score ELSE score
=============================================================================
