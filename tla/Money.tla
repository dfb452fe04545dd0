------------------------------- MODULE Money -------------------------------
(***************************************************************************)
(* Amounts of internal/domain/money: int64 minor units.  The width of the  *)
(* integer is the constant MaxMinor (math.MaxInt64 in the code), so that   *)
(* TLC reaches the overflow boundary with small numbers.  The currency an  *)
(* amount carries is a field of the records that hold it; operations on    *)
(* amounts of two currencies are refused by the callers of this module.    *)
(***************************************************************************)
EXTENDS Integers

CONSTANT MaxMinor        \* math.MaxInt64

ASSUME MaxMinorAssumption == MaxMinor \in Nat \ {0}

MinMinor == -MaxMinor - 1

\* The values an int64 can hold.
Minor == MinMinor .. MaxMinor

\* The overflow test of Money.Add: it must itself stay inside int64.
AddOverflows(m, o) ==
  \/ o > 0 /\ m > MaxMinor - o
  \/ o < 0 /\ m < MinMinor - o

\* The overflow test of Money.Sub.
SubOverflows(m, o) ==
  \/ o < 0 /\ m > MaxMinor + o
  \/ o > 0 /\ m < MinMinor + o

=============================================================================
