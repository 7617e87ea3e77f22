----------------------- MODULE MCReservationLifecycle -----------------------
(* Small instances of ReservationLifecycle for TLC. *)
EXTENDS ReservationLifecycle, TLC

CONSTANTS h1, h2, ana, bruno

Symmetry == Permutations(Handlers)

Op(kind, state) == [kind |-> kind, state |-> state]

\* Every operation, with the states that tell its cases apart.
AllOps ==
  {Op("cancelEvent", "Cancelado"), Op("cancelBoth", "Cancelado"),
   Op("cancelReservation", "Cancelado"), Op("changeState", "Cancelado"),
   Op("changeState", "Emitido"), Op("confirm", "Emitido"),
   Op("updateState", "Usuario cancelo"), Op("attend", "Atendido")}
=============================================================================
