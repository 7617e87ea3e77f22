---------------------------- MODULE MCSubscriptions ----------------------------
(* A small instance of Subscriptions for TLC. *)
EXTENDS Subscriptions, TLC

CONSTANTS h1, h2, h3, p0, m0, arrived, theft, visit

Update(ts, listed, cats) == [kind |-> "customer", types |-> ts, listed |-> listed, categories |-> cats]

\* Each kind of difference to what the customer has, and what everyone else may
\* do about one type, one contact or a new one, one monitor and one category.
Asked ==
  {Update({theft}, TRUE, {visit}), Update({arrived, theft}, FALSE, {}), Update({}, TRUE, {})}
    \cup [kind : {"create"}]
    \cup [kind : {"choose"}, follower : {p0, m0}, types : {{theft}}]
    \cup [kind : {"delete"}, follower : {p0}]
    \cup [kind : {"come"}, follower : {p0, m0}, brings : {Once({theft})}]
    \cup [kind : {"go"}, follower : {p0}]
    \cup [kind : {"switch"}, row : {<<visit, NULL>>}, active : {TRUE}]
    \cup [kind : {"retire"}, category : {visit}]

Symmetry == Permutations(Handlers)
=============================================================================
