------------------------------ MODULE Amounts -------------------------------
(***************************************************************************)
(* Amounts as text: money.Parse and Money.Amount.                          *)
(*                                                                         *)
(* A text is [form, neg, zeros, whole, frac]: form is "other" for anything *)
(* that is not an optional minus, digits, and perhaps a point and digits;  *)
(* zeros counts the leading zeros before the numeral whole, and frac is    *)
(* the sequence of digits behind the point.  The code has MaxMinor =       *)
(* 2^63 - 1 and MaxWholeDigits = 17; what ties them is AmountsAssumption.  *)
(***************************************************************************)
EXTENDS Money, Sequences

CONSTANT MaxWholeDigits      \* digits of the whole part that are converted at all

UnitsPerMajor == 100
Scale         == 2

ASSUME AmountsAssumption ==
  /\ MaxWholeDigits \in Nat
  /\ 10^MaxWholeDigits - 1 <= MaxMinor            \* ParseInt does not overflow
  /\ MaxMinor \div UnitsPerMajor < 10^MaxWholeDigits   \* nothing that fits is refused

\* What the machine keeps of an integer.
Wrap(n) == ((n - MinMinor) % (2 * (MaxMinor + 1))) + MinMinor

Text(neg, zeros, whole, frac) ==
  [form |-> "decimal", neg |-> neg, zeros |-> zeros, whole |-> whole, frac |-> frac]

AmountText ==
  [form : {"decimal", "other"}, neg : BOOLEAN, zeros : Nat, whole : Nat, frac : Seq(0 .. 9)]

\* amountPattern, without the sign.
MatchesPattern(t) == t.form = "decimal" /\ Len(t.frac) <= Scale

\* The fraction, padded to Scale digits.
Cents(frac) ==
  CASE Len(frac) = 0 -> 0
    [] Len(frac) = 1 -> 10 * frac[1]
    [] OTHER         -> 10 * frac[1] + frac[2]

\* A result of the parser: an amount, or an error.
Parsed(minor)  == [ok |-> TRUE, minor |-> minor, err |-> "none"]
ParseErr(err)  == [ok |-> FALSE, minor |-> 0, err |-> err]

\* Mutant of Convert: the bound on the whole part is taken for enough.
ConvertUnchecked(major, cents) == Parsed(Wrap(major * UnitsPerMajor + cents))

Convert(major, cents) ==
  IF major > (MaxMinor - cents) \div UnitsPerMajor
  THEN ParseErr("overflow")
  ELSE Parsed(Wrap(major * UnitsPerMajor + cents))

parseMinor(t) ==
  IF t.neg THEN ParseErr(IF MatchesPattern(t) THEN "negative" ELSE "invalid")
  ELSE IF ~MatchesPattern(t) THEN ParseErr("invalid")
  ELSE IF t.whole >= 10^MaxWholeDigits THEN ParseErr("overflow")    \* zeros are trimmed
  ELSE Convert(t.whole, Cents(t.frac))

\* Money.Negate
Negate(minor) == IF minor = MinMinor THEN ParseErr("overflow") ELSE Parsed(-minor)

ParseSigned(t) ==
  IF ~t.neg THEN parseMinor(t)
  ELSE LET m == parseMinor([t EXCEPT !.neg = FALSE])
       IN IF m.ok THEN Negate(m.minor) ELSE m

\* Amount goes through unsigned integers, so the lowest value has a magnitude.
Magnitude(v) == IF v < 0 THEN Wrap(-(v + 1)) + 1 ELSE v

Amount(v) ==
  LET u == Magnitude(v)
      cents == u % UnitsPerMajor
  IN Text(v < 0, 0, u \div UnitsPerMajor, << cents \div 10, cents % 10 >>)

-----------------------------------------------------------------------------
(* References *)

\* The number a text stands for, in hundredths and of any size.
Hundredths(t) ==
  LET digits == Len(t.frac)
      part   == CASE digits = 0 -> 0
                  [] digits = 1 -> t.frac[1]
                  [] OTHER      -> 10 * t.frac[1] + t.frac[2]
  IN (IF t.neg THEN -1 ELSE 1) * (100 * t.whole + part * 10^(Scale - digits))

=============================================================================
