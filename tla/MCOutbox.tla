------------------------------ MODULE MCOutbox ------------------------------
(***************************************************************************)
(* Small instances of Outbox: three events, two of them of one wallet.     *)
(***************************************************************************)
EXTENDS Outbox, TLC

CONSTANTS g1, g2

ThreeEvents == { [group |-> g1, version |-> 1], [group |-> g1, version |-> 2],
                 [group |-> g2, version |-> 1] }
TwoEvents   == { [group |-> g1, version |-> 1], [group |-> g1, version |-> 2] }

Symmetry == Permutations(Publishers)

=============================================================================
