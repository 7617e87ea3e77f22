-------------------------- MODULE MCEventDispatch --------------------------
(* A small instance of EventDispatch for TLC. *)
EXTENDS EventDispatch, TLC

CONSTANTS c1, c2, h1, h2

Symmetry == Permutations(Handlers)

Op(kind, row, to) == [kind |-> kind, row |-> row, state |-> to]

\* The row of the day cancelled both ways, by either handler or by both, revived
\* and attended, and the next day's cancelled.
RowOps ==
  {Op("cancelEvent", <<c1, 1>>, "Emitido"),
   Op("updateState", <<c1, 1>>, "Emitido"),
   Op("attend", <<c1, 1>>, "Emitido"),
   Op("updateState", <<c1, 2>>, "Cancelado")}

\* A customer with ICM, for either type of event, and one with Firebase: what
\* the two are told is told independently.
Either ==
  {[type |-> t, copies |-> {c2}, lotKnown |-> {c1}, mirrored |-> FALSE] :
     t \in {"delivery", "guest"}}
  \cup {[type |-> "guest", copies |-> C, lotKnown |-> {}, mirrored |-> TRUE] :
          C \in {{}, {c1}, {c1, c2}}}
=============================================================================
