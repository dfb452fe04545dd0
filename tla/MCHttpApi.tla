----------------------------- MODULE MCHttpApi ------------------------------
(***************************************************************************)
(* An instance of HttpApi with 11-bit integers: 10.23 is the largest       *)
(* amount.                                                                 *)
(***************************************************************************)
EXTENDS HttpApi

Zero     == Text(FALSE, 0, 0, << >>)
Short    == Text(FALSE, 1, 1, << 5 >>)            \* 01.5
Largest  == Text(FALSE, 0, 10, << 2, 3 >>)
TooLarge == Text(FALSE, 0, 10, << 2, 4 >>)
TooLong  == Text(FALSE, 0, 100, << >>)
Finer    == Text(FALSE, 0, 1, << 0, 0, 0 >>)
Negative == Text(TRUE, 0, 1, << >>)
Junk     == [Zero EXCEPT !.form = "other"]

Symmetric == Permutations(Sessions) \cup Permutations(Providers) \cup Permutations(Wallets)

MCTexts == {Zero, Short, Largest, TooLarge, TooLong, Finer, Negative, Junk}

=============================================================================
