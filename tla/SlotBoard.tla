----------------------------- MODULE SlotBoard ------------------------------
(***************************************************************************)
(* What booking promises, without handlers: a board on which a request     *)
(* takes a slot in one step, and only when the slot is empty or held in    *)
(* the same mode by requests that do not need all of it.                   *)
(***************************************************************************)
CONSTANTS
  Requests,
  Slots,      \* <<space, start>>
  Modes,
  WholeModes, \* modes that take the whole slot (allParticipantsRequired)
  NULL

VARIABLE board \* board[q]: NULL, or the request's slot and whether it is held

Bookings == [slot : Slots, mode : Modes, held : BOOLEAN]

BoardTypeOK == board \in [Requests -> Bookings \cup {NULL}]

Holders(slot) ==
  {q \in Requests : board[q] # NULL /\ board[q].slot = slot /\ board[q].held}

Init == board = [q \in Requests |-> NULL]

Book(q, slot, mode) ==
  /\ board[q] = NULL
  /\ \A r \in Holders(slot) : board[r].mode = mode /\ mode \notin WholeModes
  /\ board' = [board EXCEPT ![q] = [slot |-> slot, mode |-> mode, held |-> TRUE]]

Release(q) ==
  /\ board[q] # NULL
  /\ board[q].held
  /\ board' = [board EXCEPT ![q].held = FALSE]

Next ==
  \E q \in Requests :
    \/ \E slot \in Slots, mode \in Modes : Book(q, slot, mode)
    \/ Release(q)

Spec == Init /\ [][Next]_board
=============================================================================
