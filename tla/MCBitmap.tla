------------------------------ MODULE MCBitmap ------------------------------
(***************************************************************************)
(* Bitmap for TLC: bytes for long long, words of two bits, offsets up to   *)
(* five.                                                                   *)
(***************************************************************************)
EXTENDS Bitmap

Numerals(n) == UNION {[1..i -> Digits] : i \in 0..n}

(* Every offset in range, the first out of range, LL_MAX and the two after *)
(* it, numbers that wrap to -3, to -1 and to 3, and no numbers at all.     *)
Interesting ==
  {<<>>, <<0>>, <<1>>, <<2>>, <<0, 3>>, <<4>>, <<5>>, <<6>>,
   <<1, 2, 6>>, <<1, 2, 7>>, <<1, 2, 8>>, <<2, 5, 3>>, <<2, 5, 5>>, <<2, 5, 9>>,
   <<Other>>, <<1, Minus>>}

(* All numbers up to LL_MAX + 1 are read right: those up to LL_MAX as what *)
(* they are, LL_MAX + 1 as -1.                                             *)
ASSUME ReadRight ==
  \A s \in Numerals(3) :
    Value(s) <= LL_MAX + 1 =>
      stringToLongLong(s) = IF Value(s) <= LL_MAX THEN Value(s) ELSE -1
=============================================================================
