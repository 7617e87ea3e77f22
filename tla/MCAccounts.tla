------------------------------ MODULE MCAccounts ------------------------------
(* A small instance of Accounts for TLC. *)
EXTENDS Accounts, TLC

CONSTANTS h1, h2, h3, p0, cA, cB, cG, l1, l2

\* A resident may register with a customer or a government, be created by an
\* administrator, move to the other customer or be assigned to it, be given the
\* other lot, and be deleted.
Asked ==
  [kind : {"register"}, customer : {cA, cG}]
    \cup [kind : {"create"}, customer : {cA}]
    \cup [kind : {"reassign"}, customer : {NULL, cB}, account : {p0}, lot : {NULL, l2}]
    \cup [kind : {"move"}, customer : {cB}, account : Accts]
    \cup [kind : {"delete"}, account : Accts]
    \cup {[kind |-> "edit", customer |-> cA, lot |-> l1, active |-> FALSE],
          [kind |-> "edit", customer |-> cB, lot |-> l2, active |-> TRUE]}

Symmetry == Permutations(Handlers)
=============================================================================
