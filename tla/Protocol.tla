------------------------------ MODULE Protocol ------------------------------
(***************************************************************************)
(* The tokenizers of server/protocol.c: what arguments the bytes of one    *)
(* read stand for, NULL when they are refused.  A byte is its ASCII code.  *)
(*                                                                         *)
(* Where getRespInt runs past the bytes that were read, what it finds      *)
(* there makes no difference: respTokenizer refuses them either way.       *)
(* Bound: the numbers in a request fit in an unsigned long.                *)
(*                                                                         *)
(* respTokenizerPrefix and BlankButCR are bugs this code could have had    *)
(* (see PROJECT.json, "mutants"); nothing uses them.                       *)
(***************************************************************************)
EXTENDS Integers, SequencesExt

CONSTANT NULL

CR == 13
LF == 10
Space == 32
Zero == 48
Star == 42
Dollar == 36

(* The first CR of s at i or behind it, past the end if there is none.     *)
NextCR(s, i) ==
  LET crs == {j \in i..Len(s) : s[j] = CR}
  IN IF crs = {} THEN Len(s) + 1 ELSE Min(crs)

(* The number that ends before the next CR, -1 where the bytes are illegal. *)
(* No digit at all is 0.                                                   *)
getRespInt(s, i) ==
  LET cr == NextCR(s, i)
      n[j \in (i - 1)..(cr - 1)] == IF j < i THEN 0 ELSE n[j - 1] * 10 + (s[j] - Zero)
  IN IF /\ cr <= Len(s)
        /\ \A j \in i..(cr - 1) : s[j] \in Zero..(Zero + 9)
        /\ cr < Len(s) => s[cr + 1] = LF
     THEN n[cr - 1] ELSE -1

(* A line ends at the next CR, and the bytes with its LF.                  *)
IsLast(s, i) == NextCR(s, i) = Len(s) - 1 /\ s[Len(s)] = LF

(* The bulk string that begins behind the line at i: where its bytes are,  *)
(* and the CR behind them.                                                 *)
Bulk(s, i) ==
  LET dollar == NextCR(s, i) + 2
      l == getRespInt(s, dollar + 1)
      from == NextCR(s, dollar + 1) + 2
  IN IF /\ dollar <= Len(s) /\ s[dollar - 1] = LF /\ s[dollar] = Dollar
        /\ l # -1 /\ from + l + 1 <= Len(s) /\ s[from + l] = CR
     THEN [from |-> from, to |-> from + l] ELSE NULL

(* The bulk strings one behind the other; 0 stands for the line of Star.   *)
Bulks(s, count) ==
  LET bulk[i \in 0..count] ==
        IF i = 0 THEN [from |-> 2, to |-> 2]
        ELSE LET before == bulk[i - 1]
             IN IF before = NULL THEN NULL ELSE Bulk(s, before.to)
  IN bulk

ArgsOf(s, bulks, count) == [i \in 1..count |-> SubSeq(s, bulks[i].from, bulks[i].to - 1)]

respTokenizerPrefix(s) ==
  LET count == getRespInt(s, 2)
      bulks == Bulks(s, count)
  IN IF count # -1 /\ bulks[count] # NULL THEN ArgsOf(s, bulks, count) ELSE NULL

(* As many bulk strings as announced, and nothing behind them.             *)
respTokenizer(s) ==
  LET count == getRespInt(s, 2)
      bulks == Bulks(s, count)
  IN IF count # -1 /\ bulks[count] # NULL /\ IsLast(s, bulks[count].to)
     THEN ArgsOf(s, bulks, count) ELSE NULL

(* The words between blanks, those in the first i bytes for each i.        *)
BlankButCR == {Space, LF, 0}

Blank == {Space, CR, LF, 0}

simpleTokenizer(s) ==
  LET words[i \in 0..Len(s)] ==
        IF i = 0 THEN <<>>
        ELSE LET before == words[i - 1]
             IN IF s[i] \in Blank THEN before
                ELSE IF i = 1 \/ s[i - 1] \in Blank THEN Append(before, <<s[i]>>)
                ELSE Front(before) \o <<Append(Last(before), s[i])>>
  IN words[Len(s)]

bufferTokenizer(s) ==
  IF s = <<>> THEN NULL
  ELSE IF s[1] = Star THEN respTokenizer(s) ELSE simpleTokenizer(s)
=============================================================================
