------------------------ MODULE ReservationLifecycle ------------------------
(***************************************************************************)
(* What happens to one reservation and the event linked to it once its row *)
(* exists: the cancel, confirm and change-state handlers of                *)
(* ReservationService, the event handlers of EventsService that reach the  *)
(* same two rows, UsersService.deleteAcc, and the end of create, which is  *)
(* still writing the event and the guest rows when the reservation is      *)
(* already visible.                                                        *)
(*                                                                         *)
(* A handler is a read, then one update per await.  Only changeState and   *)
(* deleteAcc put their updates in one transaction.  The states are the     *)
(* system-wide EventState rows, shared by both tables.  A change log is    *)
(* the set of handlers with an entry in it: it is rewritten as a whole     *)
(* from what the handler read.                                             *)
(***************************************************************************)
EXTENDS Integers, FiniteSets

CONSTANTS
  Handlers,     \* requests
  Ops,          \* what a request may ask for: [kind, state]
  Participants, \* users with a guest row
  Owner,        \* the reservation's and the event's userId, NULL: no account
  Creator,      \* the reservation's createdById, who may be another
  HasEvent,     \* the space has an event type and the reservation a user
  Notify,       \* the space's notifyParticipants
  MaxInFlight,  \* bound: handlers between their first and last await
  NULL

States == {"A confirmar", "Emitido", "Cancelado", "Usuario cancelo", "Atendido"}

Kinds == {"cancelEvent", "cancelReservation", "cancelBoth", "changeState",
          "confirm", "updateState", "attend"}

ASSUME LifecycleAssumption ==
  /\ IsFiniteSet(Handlers)
  /\ Ops \subseteq [kind : Kinds, state : States]
  /\ HasEvent \in BOOLEAN
  /\ HasEvent => Owner # NULL
  /\ Creator # NULL
  /\ Notify \in BOOLEAN
  /\ MaxInFlight \in Nat
  /\ NULL \notin Ops
  /\ NULL \notin [state : States, log : SUBSET Handlers]

VARIABLES
  pc,       \* pc[h]: the handler's next await
  req,      \* req[h]: what was asked
  snap,     \* snap[h]: the change log h read
  sawEvent, \* sawEvent[h]: h's read found the event
  audience, \* audience[h]: the ids h has collected for its push
  res,      \* the reservation row: [state, cancelDate]
  ev,       \* the event row: [state, log], or NULL
  creating, \* what create has yet to write: "event", "guests" or "nothing"
  born,     \* the state create gave the reservation
  started,  \* fromDate has passed
  deleted,  \* those of its two accounts that are deleted
  writes,   \* history: how many updates have rewritten the log
  wroteAt,  \* history: which of them was h's (0: none)
  readAt,   \* history: how many had happened when h read it
  excuses   \* history: why the two rows may disagree

handlerVars == <<pc, req, snap, sawEvent, audience, readAt>>
logVars == <<writes, wroteAt>>
rowVars == <<res, ev>>
worldVars == <<creating, born, started, deleted>>
vars == <<handlerVars, logVars, rowVars, worldVars, excuses>>

Ended == {"done", "rejected", "failed"}
InFlight == {h \in Handlers : pc[h] \notin {"idle"} \cup Ended}

\* The accounts whose deletion reaches the reservation.
Users == {Owner, Creator} \ {NULL}

UserIdOf(p) == <<"user", p>>
GuestRowId(p) == <<"guest row", p>>

\* The state a handler writes.
Target(op) ==
  CASE op.kind = "cancelEvent" -> "Usuario cancelo"
    [] op.kind = "cancelBoth"  -> "Cancelado"
    [] op.kind = "confirm"     -> "Emitido"
    [] op.kind = "attend"      -> "Atendido"
    [] OTHER                   -> op.state

\* changeState hands the request over to cancelReservation.
CancelsRowNoName(op) ==  \* mutant: changeState never looks at the state's name
  op.kind \in {"cancelReservation", "cancelBoth", "cancelEvent"}
CancelsRow(op) ==
  \/ op.kind \in {"cancelReservation", "cancelBoth", "cancelEvent"}
  \/ op.kind = "changeState" /\ op.state = "Cancelado"

\* These write one of the two rows only.
OneSided(op) ==
  \/ op.kind \in {"cancelReservation", "updateState", "attend"}
  \/ op.kind = "changeState" /\ op.state = "Cancelado"

\* These append to the event's change log.
Logs(op) == op.kind \in {"cancelEvent", "cancelBoth", "updateState", "attend"}

-----------------------------------------------------------------------------
Init ==
  /\ pc = [h \in Handlers |-> "idle"]
  /\ req = [h \in Handlers |-> NULL]
  /\ snap = [h \in Handlers |-> {}]
  /\ sawEvent = [h \in Handlers |-> FALSE]
  /\ audience = [h \in Handlers |-> {}]
  /\ readAt = [h \in Handlers |-> 0]
  /\ wroteAt = [h \in Handlers |-> 0]
  /\ writes = 0
  /\ born \in {"A confirmar", "Emitido"}
  /\ res = [state |-> born, cancelDate |-> FALSE]
  /\ ev = NULL
  /\ creating = "event"
  /\ started = FALSE
  /\ deleted = {}
  /\ excuses = {}

Goto(h, phase) == pc' = [pc EXCEPT ![h] = phase]

-----------------------------------------------------------------------------
(* The end of create *)

\* createEvent takes the state from the row as create inserted it.
CreateEvent ==
  /\ creating = "event"
  /\ creating' = "guests"
  /\ ev' = IF HasEvent THEN [state |-> born, log |-> {}] ELSE ev
  /\ UNCHANGED <<handlerVars, logVars, res, born, started, deleted, excuses>>

SaveParticipants ==
  /\ creating = "guests"
  /\ creating' = "nothing"
  /\ UNCHANGED <<handlerVars, logVars, rowVars, born, started, deleted, excuses>>

\* create fails after its insert.
CreateFails ==
  /\ creating # "nothing"
  /\ creating' = "nothing"
  /\ excuses' = excuses \cup {"failure"}
  /\ UNCHANGED <<handlerVars, logVars, rowVars, born, started, deleted>>

-----------------------------------------------------------------------------
(* The handlers *)

Begin(h, op) ==
  /\ pc[h] = "idle"
  /\ Cardinality(InFlight) < MaxInFlight
  /\ Goto(h, "read")
  /\ req' = [req EXCEPT ![h] = op]
  /\ excuses' = IF InFlight # {} \/ creating # "nothing"
                THEN excuses \cup {"overlap"} ELSE excuses
  /\ UNCHANGED <<snap, sawEvent, audience, readAt, logVars, rowVars, worldVars>>

\* The guest rows the handler's read of the reservation brings along.
GuestUsers == IF creating = "nothing" /\ Notify THEN Participants ELSE {}

\* The event handlers read the event and its change log; cancelBoth does so
\* later, after it has updated the reservation.
ReadEvent(h) ==
  /\ \/ pc[h] = "read" /\ req[h].kind \in {"cancelEvent", "updateState", "attend"}
     \/ pc[h] = "readEvent"
  /\ IF ev = NULL
     THEN /\ Goto(h, IF pc[h] = "read" THEN "rejected" ELSE "done")
          /\ UNCHANGED <<snap, readAt>>
     ELSE /\ Goto(h, "event")
          /\ snap' = [snap EXCEPT ![h] = ev.log]
          /\ readAt' = [readAt EXCEPT ![h] = writes]
  /\ UNCHANGED <<req, sawEvent, audience, logVars, rowVars, worldVars, excuses>>

\* cancelReservation, and cancelEvent and changeState once they call it: the
\* guests' user ids are collected, in whatever state the reservation is.
ReadToCancel(h) ==
  /\ \/ pc[h] = "read" /\ req[h].kind \in {"cancelReservation", "changeState"}
                       /\ CancelsRow(req[h])
     \/ pc[h] = "readReservation"
  /\ audience' = [audience EXCEPT ![h] = {UserIdOf(p) : p \in GuestUsers}]
  /\ Goto(h, "reservation")
  /\ UNCHANGED <<req, snap, sawEvent, readAt, logVars, rowVars, worldVars, excuses>>

ReadToCancelBothTwice(h) ==  \* mutant: a cancelled reservation is left waiting
  /\ pc[h] = "read"
  /\ req[h].kind = "cancelBoth"
  /\ ~res.cancelDate
  /\ Goto(h, IF started THEN "rejected" ELSE "reservation")
  /\ audience' = [audience EXCEPT ![h] =
                    IF started THEN {} ELSE {GuestRowId(p) : p \in GuestUsers}]
  /\ UNCHANGED <<req, snap, sawEvent, readAt, logVars, rowVars, worldVars, excuses>>
\* cancelReservationAndEvent: not once the reservation has begun.  The ids it
\* collects are those of the guest rows.
ReadToCancelBoth(h) ==
  /\ pc[h] = "read"
  /\ req[h].kind = "cancelBoth"
  /\ Goto(h, IF started THEN "rejected" ELSE "reservation")
  /\ audience' = [audience EXCEPT ![h] =
                    IF started THEN {} ELSE {GuestRowId(p) : p \in GuestUsers}]
  /\ UNCHANGED <<req, snap, sawEvent, readAt, logVars, rowVars, worldVars, excuses>>

\* changeState to any other state.
ReadToChange(h) ==
  /\ pc[h] = "read"
  /\ req[h].kind = "changeState"
  /\ ~CancelsRow(req[h])
  /\ Goto(h, "transaction")
  /\ sawEvent' = [sawEvent EXCEPT ![h] = ev # NULL]
  /\ UNCHANGED <<req, snap, audience, readAt, logVars, rowVars, worldVars, excuses>>

ReadToConfirm(h) ==
  /\ pc[h] = "read"
  /\ req[h].kind = "confirm"
  /\ Goto(h, "reservation")
  /\ audience' = [audience EXCEPT ![h] = {UserIdOf(p) : p \in GuestUsers}]
  /\ UNCHANGED <<req, snap, sawEvent, readAt, logVars, rowVars, worldVars, excuses>>

\* cancelDate and the state are set together.
CancelRow(h) ==
  /\ pc[h] = "reservation"
  /\ CancelsRow(req[h])
  /\ res' = [state |-> Target(req[h]), cancelDate |-> TRUE]
  /\ Goto(h, IF req[h].kind = "cancelBoth" THEN "readEvent" ELSE "done")
  /\ excuses' = IF OneSided(req[h]) THEN excuses \cup {"one-sided"} ELSE excuses
  /\ UNCHANGED <<req, snap, sawEvent, audience, readAt, logVars, ev, worldVars>>

ConfirmRow(h) ==
  /\ pc[h] = "reservation"
  /\ req[h].kind = "confirm"
  /\ res' = [res EXCEPT !.state = "Emitido"]
  /\ Goto(h, "event")
  /\ UNCHANGED <<req, snap, sawEvent, audience, readAt, logVars, ev, worldVars, excuses>>

\* confirmReservation's updateMany: nothing to do without an event.
ConfirmEvent(h) ==
  /\ pc[h] = "event"
  /\ req[h].kind = "confirm"
  /\ ev' = IF ev = NULL THEN ev ELSE [ev EXCEPT !.state = "Emitido"]
  /\ Goto(h, "done")
  /\ UNCHANGED <<req, snap, sawEvent, audience, readAt, logVars, res, worldVars, excuses>>

LogEventUnread(h) ==  \* mutant: the log is rebuilt from nothing
  /\ pc[h] = "event"
  /\ Logs(req[h])
  /\ ev' = [state |-> Target(req[h]), log |-> {h}]
  /\ writes' = writes + 1
  /\ wroteAt' = [wroteAt EXCEPT ![h] = writes + 1]
  /\ Goto(h, IF req[h].kind = "cancelEvent" THEN "readReservation" ELSE "done")
  /\ excuses' = IF OneSided(req[h]) THEN excuses \cup {"one-sided"} ELSE excuses
  /\ UNCHANGED <<req, snap, sawEvent, audience, readAt, res, worldVars>>
\* The event's state and its whole change log are replaced.
LogEvent(h) ==
  /\ pc[h] = "event"
  /\ Logs(req[h])
  /\ ev' = [state |-> Target(req[h]), log |-> snap[h] \cup {h}]
  /\ writes' = writes + 1
  /\ wroteAt' = [wroteAt EXCEPT ![h] = writes + 1]
  /\ Goto(h, IF req[h].kind = "cancelEvent" THEN "readReservation" ELSE "done")
  /\ excuses' = IF OneSided(req[h]) THEN excuses \cup {"one-sided"} ELSE excuses
  /\ UNCHANGED <<req, snap, sawEvent, audience, readAt, res, worldVars>>

ChangeReservationOnly(h) ==  \* mutant: the event is left out of the transaction
  /\ pc[h] = "transaction"
  /\ res' = [res EXCEPT !.state = req[h].state]
  /\ Goto(h, "done")
  /\ UNCHANGED <<req, snap, sawEvent, audience, readAt, logVars, ev, worldVars, excuses>>
\* changeState's transaction, with the event its read found.
ChangeBoth(h) ==
  /\ pc[h] = "transaction"
  /\ res' = [res EXCEPT !.state = req[h].state]
  /\ ev' = IF sawEvent[h] THEN [ev EXCEPT !.state = req[h].state] ELSE ev
  /\ Goto(h, "done")
  /\ UNCHANGED <<req, snap, sawEvent, audience, readAt, logVars, worldVars, excuses>>

\* A query throws or the process stops.
Fail(h) ==
  /\ h \in InFlight
  /\ Goto(h, "failed")
  /\ excuses' = excuses \cup {"failure"}
  /\ UNCHANGED <<req, snap, sawEvent, audience, readAt, logVars, rowVars, worldVars>>

-----------------------------------------------------------------------------
\* deleteAcc: both tables in one transaction, and no cancelDate.  It takes the
\* reservations a user owns or has created, but only the events he owns.
DeletedEvent(u) ==
  IF u = Owner /\ ev # NULL THEN [ev EXCEPT !.state = "Cancelado"] ELSE ev
DeleteAccount(u) ==
  /\ u \notin deleted
  /\ deleted' = deleted \cup {u}
  /\ res' = [res EXCEPT !.state = "Cancelado"]
  /\ ev' = DeletedEvent(u)
  /\ excuses' = excuses
       \cup (IF InFlight # {} \/ creating # "nothing" THEN {"overlap"} ELSE {})
       \cup (IF u # Owner THEN {"one-sided"} ELSE {})
  /\ UNCHANGED <<handlerVars, logVars, creating, born, started>>

\* fromDate passes.
Start ==
  /\ ~started
  /\ started' = TRUE
  /\ UNCHANGED <<handlerVars, logVars, rowVars, creating, born, deleted, excuses>>

Step(h) ==
  \/ ReadEvent(h)
  \/ ReadToCancel(h)
  \/ ReadToCancelBoth(h)
  \/ ReadToChange(h)
  \/ ReadToConfirm(h)
  \/ CancelRow(h)
  \/ ConfirmRow(h)
  \/ ConfirmEvent(h)
  \/ LogEvent(h)
  \/ ChangeBoth(h)

Next ==
  \/ \E h \in Handlers : \/ \E op \in Ops : Begin(h, op)
                         \/ Step(h)
                         \/ Fail(h)
  \/ CreateEvent
  \/ SaveParticipants
  \/ CreateFails
  \/ \E u \in Users : DeleteAccount(u)
  \/ Start

Spec == Init /\ [][Next]_vars

\* Handlers are resumed when their queries answer; nothing else is promised.
FairSpec == Spec /\ \A h \in Handlers : WF_vars(Step(h))

-----------------------------------------------------------------------------
Phases == {"idle", "read", "readEvent", "readReservation", "reservation",
           "event", "transaction"} \cup Ended

TypeOK ==
  /\ pc \in [Handlers -> Phases]
  /\ req \in [Handlers -> Ops \cup {NULL}]
  /\ \A h \in Handlers : pc[h] # "idle" => req[h] \in Ops
  /\ snap \in [Handlers -> SUBSET Handlers]
  /\ sawEvent \in [Handlers -> BOOLEAN]
  /\ audience \in [Handlers -> SUBSET ({"user", "guest row"} \X Participants)]
  /\ res \in [state : States, cancelDate : BOOLEAN]
  /\ ev \in [state : States, log : SUBSET Handlers] \cup {NULL}
  /\ creating \in {"event", "guests", "nothing"}
  /\ born \in States
  /\ started \in BOOLEAN
  /\ deleted \subseteq Users
  /\ writes \in Nat
  /\ wroteAt \in [Handlers -> 0..writes]
  /\ readAt \in [Handlers -> 0..writes]
  /\ excuses \subseteq {"overlap", "one-sided", "failure"}

\* Every state change of the event that is logged stays in its change log,
\* unless a handler that had read the log before the change replaced it after.
LostEntryOnlyByRace ==
  \A h \in Handlers : (wroteAt[h] > 0 /\ h \notin ev.log) =>
    \E w \in Handlers : wroteAt[w] > wroteAt[h] /\ readAt[w] < wroteAt[h]

\* When nobody is working on them, the reservation and its event are in the
\* same state, after any sequence of requests, unless two handlers overlapped,
\* one stopped half way, or one of the operations that only write one row ran:
\* cancelReservation, the event's own updates, or deleteAcc by the creator of a
\* reservation that is someone else's.
PairAgrees ==
  (InFlight = {} /\ creating = "nothing" /\ ev # NULL /\ excuses = {})
    => ev.state = res.state

\* A reservation in state Cancelado gives its slot back: create's checks look
\* at cancelDate only.  The exception is an account deletion.
CancelledFreesSlot ==
  res.state = "Cancelado" => res.cancelDate \/ deleted # {}

\* Once a cancel request is answered the slot is free, whatever ran between.
AnsweredCancelFreesSlot ==
  \A h \in Handlers :
    (pc[h] = "done" /\ CancelsRow(req[h])) => res.cancelDate

\* No operation takes a cancelled reservation's slot back.
CancelIsFinal == [][res.cancelDate => res'.cancelDate]_vars

\* A cancel request frees the slot unless it is refused or its handler fails.
CancelEventuallyFrees ==
  \A h \in Handlers :
    (pc[h] = "read" /\ CancelsRow(req[h]))
      ~> (res.cancelDate /\ pc[h] \in Ended) \/ pc[h] \in {"rejected", "failed"}

\* "Obtener socios participantes para notificar de la cancelacion": the push
\* of a cancellation is addressed to the participants' user ids.
ParticipantsNotified ==
  \A h \in Handlers :
    (pc[h] = "done" /\ CancelsRow(req[h])) =>
      \A i \in audience[h] : i \in {UserIdOf(p) : p \in Participants}
=============================================================================
