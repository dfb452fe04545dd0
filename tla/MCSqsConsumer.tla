--------------------------- MODULE MCSqsConsumer ----------------------------
(***************************************************************************)
(* Small instances of SqsConsumer.                                         *)
(***************************************************************************)
EXTENDS SqsConsumer, TLC

CONSTANTS g1, g2

M(id, body, group, valid) == [id |-> id, body |-> body, group |-> group, valid |-> valid]

\* A messageId that comes back with another content in another group, which
\* is refused, and a message that never parses.
Reused == {M(1, "a", g1, TRUE), M(1, "c", g2, TRUE), M(2, "b", g1, FALSE)}
Again  == {M(1, "c", g2, TRUE)}

Symmetry == Permutations(Workers)

=============================================================================
