----------------------------- MODULE MCDelivery -----------------------------
(***************************************************************************)
(* A small instance of Delivery: one operation that moves a balance, sent  *)
(* twice.                                                                  *)
(***************************************************************************)
EXTENDS Delivery

CONSTANT g

Copies == { [id |-> 1, body |-> "a", group |-> g, valid |-> TRUE],
            [id |-> 2, body |-> "a", group |-> g, valid |-> TRUE] }
MovesA == {"a"}
None == {}

=============================================================================
