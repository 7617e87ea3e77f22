--------------------- MODULE ReservationLifecycleProofs ---------------------
(***************************************************************************)
(* Proofs about ReservationLifecycle, for any number of requests and       *)
(* overlapping handlers.                                                   *)
(***************************************************************************)
EXTENDS ReservationLifecycle, TLAPS

\* The phases a request of each kind goes through.
PhasesOfKinds ==
  \A h \in Handlers :
    /\ pc[h] = "readEvent" => req[h].kind = "cancelBoth"
    /\ pc[h] = "readReservation" => req[h].kind = "cancelEvent"
    /\ pc[h] = "reservation" => CancelsRow(req[h]) \/ req[h].kind = "confirm"
    /\ pc[h] = "event" => Logs(req[h]) \/ req[h].kind = "confirm"
    /\ pc[h] = "transaction" => req[h].kind = "changeState" /\ ~CancelsRow(req[h])

\* Whoever found the event, or wrote to its log, leaves it in the table.
EventFound ==
  /\ creating = "event" => ev = NULL
  /\ \A h \in Handlers : sawEvent[h] = TRUE => ev # NULL
  /\ \A h \in Handlers : wroteAt[h] # 0 => ev # NULL
  /\ \A h \in Handlers : pc[h] = "event" /\ Logs(req[h]) => ev # NULL

TypeInv == TypeOK /\ PhasesOfKinds /\ EventFound

\* An event's row is not the absence of one.
LEMMA NotNull == \A s \in States, l \in SUBSET Handlers : [state |-> s, log |-> l] # NULL
BY LifecycleAssumption

LEMMA TargetType == \A op \in Ops : Target(op) \in States
BY LifecycleAssumption DEF Target, States

\* Reading the count of writes, and writing as the next one.
LEMMA CountTypes ==
  ASSUME NEW n \in Nat, NEW h \in Handlers, NEW f \in [Handlers -> 0..n]
  PROVE  /\ [f EXCEPT ![h] = n] \in [Handlers -> 0..n]
         /\ n + 1 \in Nat
         /\ f \in [Handlers -> 0..(n + 1)]
         /\ [f EXCEPT ![h] = n + 1] \in [Handlers -> 0..(n + 1)]
OBVIOUS

\* The ids collected for a push are of participants.
LEMMA IdTypes ==
  /\ {UserIdOf(p) : p \in GuestUsers} \in SUBSET ({"user", "guest row"} \X Participants)
  /\ {GuestRowId(p) : p \in GuestUsers} \in SUBSET ({"user", "guest row"} \X Participants)
<1>1. \A p \in GuestUsers : p \in Participants
  BY DEF GuestUsers
<1>2. \A p \in Participants :
        /\ UserIdOf(p) \in {"user", "guest row"} \X Participants
        /\ GuestRowId(p) \in {"user", "guest row"} \X Participants
  BY DEF UserIdOf, GuestRowId
<1>3. QED
  BY <1>1, <1>2, Zenon

LEMMA TypeInit == Init => TypeInv
<1> SUFFICES ASSUME Init PROVE TypeInv
  OBVIOUS
<1>1. \A h \in Handlers : pc[h] = "idle" /\ sawEvent[h] = FALSE /\ wroteAt[h] = 0
  BY DEF Init
<1>2. audience = [h \in Handlers |-> {}]
  BY DEF Init
<1>3. audience \in [Handlers -> SUBSET ({"user", "guest row"} \X Participants)]
  BY <1>2, Zenon
<1>8. writes = 0 /\ wroteAt = [h \in Handlers |-> 0] /\ readAt = [h \in Handlers |-> 0]
  BY DEF Init
<1>9. /\ wroteAt \in [Handlers -> 0..writes]
      /\ readAt \in [Handlers -> 0..writes]
      /\ writes \in Nat
  BY <1>8
<1>10. sawEvent \in [Handlers -> BOOLEAN]
  BY Zenon DEF Init
<1>4. TypeOK
  BY <1>3, <1>9, <1>10 DEF Init, TypeOK, Phases, Ended, States
<1>5. PhasesOfKinds
  BY <1>1 DEF PhasesOfKinds
<1>6. EventFound
  BY <1>1 DEF Init, EventFound
<1>7. QED
  BY <1>4, <1>5, <1>6 DEF TypeInv

\* Every step keeps the types, and every request to its kind's phases.
LEMMA TypeNext == TypeInv /\ [Next]_vars => TypeInv'
<1> SUFFICES ASSUME TypeInv, [Next]_vars
             PROVE  TypeInv'
  OBVIOUS
<1> USE DEF TypeInv, TypeOK, PhasesOfKinds, EventFound, Phases, Ended,
            handlerVars, logVars, rowVars, worldVars, Goto
<1>a. /\ "Emitido" \in States /\ "Cancelado" \in States
      /\ \A op \in Ops : op.state \in States
  BY LifecycleAssumption DEF States
<1>1. ASSUME NEW h \in Handlers, NEW op \in Ops, Begin(h, op)
      PROVE  TypeInv'
  BY <1>1 DEF Begin
<1>2. ASSUME NEW h \in Handlers, ReadEvent(h)
      PROVE  TypeInv'
  <2>1. CASE ev = NULL
    BY <1>2, <2>1 DEF ReadEvent, Logs
  <2>2. CASE ev # NULL
    <3>0. ev \in [state : States, log : SUBSET Handlers]
      BY <2>2
    <3>1. ev.log \in SUBSET Handlers
      BY <3>0
    <3>2. snap' \in [Handlers -> SUBSET Handlers]
      BY <1>2, <2>2, <3>1 DEF ReadEvent
    <3>3. readAt' \in [Handlers -> 0..writes']
      <4>1. writes' = writes /\ readAt' = [readAt EXCEPT ![h] = writes]
        BY <1>2, <2>2 DEF ReadEvent
      <4>2. QED
        BY <4>1, CountTypes, Zenon
    <3>4. TypeOK'
      BY <1>2, <2>2, <3>2, <3>3 DEF ReadEvent
    <3>5. PhasesOfKinds' /\ EventFound'
      BY <1>2, <2>2 DEF ReadEvent, Logs
    <3>6. QED
      BY <3>4, <3>5
  <2>3. QED
    BY <2>1, <2>2
<1>3. ASSUME NEW h \in Handlers, ReadToCancel(h)
      PROVE  TypeInv'
  <2>1. audience' \in [Handlers -> SUBSET ({"user", "guest row"} \X Participants)]
    BY <1>3, IdTypes DEF ReadToCancel
  <2>2. QED
    BY <1>3, <2>1 DEF ReadToCancel, CancelsRow
<1>4. ASSUME NEW h \in Handlers, ReadToCancelBoth(h)
      PROVE  TypeInv'
  <2>1. audience' \in [Handlers -> SUBSET ({"user", "guest row"} \X Participants)]
    BY <1>4, IdTypes DEF ReadToCancelBoth
  <2>2. QED
    BY <1>4, <2>1 DEF ReadToCancelBoth, CancelsRow
<1>5. ASSUME NEW h \in Handlers, ReadToChange(h)
      PROVE  TypeInv'
  BY <1>5 DEF ReadToChange
<1>6. ASSUME NEW h \in Handlers, ReadToConfirm(h)
      PROVE  TypeInv'
  <2>1. audience' \in [Handlers -> SUBSET ({"user", "guest row"} \X Participants)]
    BY <1>6, IdTypes DEF ReadToConfirm
  <2>2. QED
    BY <1>6, <2>1 DEF ReadToConfirm
<1>7. ASSUME NEW h \in Handlers, CancelRow(h)
      PROVE  TypeInv'
  BY <1>7, TargetType DEF CancelRow
<1>8. ASSUME NEW h \in Handlers, ConfirmRow(h)
      PROVE  TypeInv'
  BY <1>8, <1>a DEF ConfirmRow, Logs
<1>9. ASSUME NEW h \in Handlers, ConfirmEvent(h)
      PROVE  TypeInv'
  BY <1>9, <1>a, NotNull DEF ConfirmEvent
<1>10. ASSUME NEW h \in Handlers, LogEvent(h)
       PROVE  TypeInv'
  <2>1. /\ req[h] \in Ops /\ snap[h] \cup {h} \in SUBSET Handlers
    BY <1>10 DEF LogEvent
  <2>2. /\ ev' \in [state : States, log : SUBSET Handlers]
        /\ ev' # NULL
        /\ creating' = "event" => ev' = NULL
    BY <1>10, <2>1, TargetType, NotNull DEF LogEvent
  <2>3. /\ writes' = writes + 1
        /\ wroteAt' = [wroteAt EXCEPT ![h] = writes + 1]
        /\ readAt' = readAt
    BY <1>10 DEF LogEvent
  <2>5. /\ writes' \in Nat
        /\ wroteAt' \in [Handlers -> 0..writes']
        /\ readAt' \in [Handlers -> 0..writes']
    BY <2>3, CountTypes, Zenon
  <2>4. QED
    BY <1>10, <2>2, <2>5 DEF LogEvent
<1>11. ASSUME NEW h \in Handlers, ChangeBoth(h)
       PROVE  TypeInv'
  BY <1>11, <1>a, NotNull DEF ChangeBoth
<1>12. ASSUME NEW h \in Handlers, Fail(h)
       PROVE  TypeInv'
  BY <1>12 DEF Fail, InFlight
<1>13. CASE CreateEvent
  BY <1>13, NotNull DEF CreateEvent
<1>14. CASE SaveParticipants
  BY <1>14 DEF SaveParticipants
<1>15. CASE CreateFails
  BY <1>15 DEF CreateFails
<1>16. ASSUME NEW u \in Users, DeleteAccount(u)
       PROVE  TypeInv'
  BY <1>16, <1>a, NotNull DEF DeleteAccount, DeletedEvent
<1>17. CASE Start
  BY <1>17 DEF Start
<1>18. CASE UNCHANGED vars
  BY <1>18 DEF vars, Logs, CancelsRow
<1>19. QED
  BY <1>1, <1>2, <1>3, <1>4, <1>5, <1>6, <1>7, <1>8, <1>9, <1>10, <1>11,
     <1>12, <1>13, <1>14, <1>15, <1>16, <1>17, <1>18 DEF Next, Step

\* TypeOK holds in every reachable state: the event handlers and changeState
\* update an event only where one exists.
THEOREM TypeCorrect == Spec => []TypeOK
<1>1. TypeInv => TypeOK
  BY DEF TypeInv
<1>2. QED
  BY TypeInit, TypeNext, <1>1, PTL DEF Spec

-----------------------------------------------------------------------------
(* Cancelling *)

\* No step takes a cancelDate back: whoever writes the row without setting it
\* only changes the state.
LEMMA CancelKept == TypeInv /\ [Next]_vars => (res.cancelDate => res'.cancelDate)
<1> SUFFICES ASSUME TypeInv, [Next]_vars, res.cancelDate
             PROVE  res'.cancelDate
  OBVIOUS
<1>1. res \in [state : States, cancelDate : BOOLEAN]
  BY DEF TypeInv, TypeOK
<1>2. \A s \in States : [res EXCEPT !.state = s].cancelDate = res.cancelDate
  BY <1>1
<1>3. ASSUME NEW h \in Handlers, CancelRow(h)
      PROVE  res'.cancelDate
  BY <1>3 DEF CancelRow
<1>4. ASSUME NEW h \in Handlers, ConfirmRow(h)
      PROVE  res'.cancelDate
  BY <1>1, <1>4 DEF ConfirmRow
<1>5. ASSUME NEW h \in Handlers, ChangeBoth(h)
      PROVE  res'.cancelDate
  BY <1>1, <1>5 DEF ChangeBoth
<1>6. ASSUME NEW u \in Users, DeleteAccount(u)
      PROVE  res'.cancelDate
  BY <1>1, <1>6 DEF DeleteAccount
<1>7. CASE res' = res
  BY <1>7
<1>8. QED
  BY <1>3, <1>4, <1>5, <1>6, <1>7
     DEF Next, Step, Begin, ReadEvent, ReadToCancel, ReadToCancelBoth,
         ReadToChange, ReadToConfirm, ConfirmEvent, LogEvent, Fail, CreateEvent,
         SaveParticipants, CreateFails, Start, vars, rowVars

\* CancelIsFinal holds: whatever runs after a cancellation, the slot stays free.
THEOREM CancellationFinal == Spec => CancelIsFinal
<1>1. TypeInv /\ [Next]_vars => [res.cancelDate => res'.cancelDate]_vars
  BY CancelKept
<1>2. QED
  BY TypeInit, TypeNext, <1>1, PTL DEF Spec, CancelIsFinal

\* A cancellation's handler that is past its write of the row.
PastCancel(h) ==
  /\ CancelsRow(req[h])
  /\ \/ pc[h] \in {"readEvent", "done"}
     \/ pc[h] = "event" /\ req[h].kind = "cancelBoth"

Freed == \A h \in Handlers : PastCancel(h) => res.cancelDate

LEMMA FreedNext == TypeInv /\ Freed /\ [Next]_vars => Freed'
<1> SUFFICES ASSUME TypeInv, Freed, [Next]_vars, NEW h \in Handlers, PastCancel(h)'
             PROVE  res'.cancelDate
  BY DEF Freed
<1>1. res.cancelDate => res'.cancelDate
  BY CancelKept
<1>2. CASE PastCancel(h)
  BY <1>1, <1>2 DEF Freed
<1>3. CASE ~PastCancel(h)
  <2> USE DEF PastCancel, Goto, handlerVars, TypeInv, TypeOK, PhasesOfKinds
  <2>1. ASSUME NEW g \in Handlers, NEW op \in Ops, Begin(g, op)
        PROVE  FALSE
    BY <1>3, <2>1 DEF Begin
  <2>2. ASSUME NEW g \in Handlers, ReadEvent(g)
        PROVE  FALSE
    BY <1>3, <2>2 DEF ReadEvent, CancelsRow
  <2>3. ASSUME NEW g \in Handlers, ReadToCancel(g)
        PROVE  FALSE
    BY <1>3, <2>3 DEF ReadToCancel
  <2>4. ASSUME NEW g \in Handlers, ReadToCancelBoth(g)
        PROVE  FALSE
    BY <1>3, <2>4 DEF ReadToCancelBoth
  <2>5. ASSUME NEW g \in Handlers, ReadToChange(g)
        PROVE  FALSE
    BY <1>3, <2>5 DEF ReadToChange
  <2>6. ASSUME NEW g \in Handlers, ReadToConfirm(g)
        PROVE  FALSE
    BY <1>3, <2>6 DEF ReadToConfirm
  <2>7. ASSUME NEW g \in Handlers, CancelRow(g)
        PROVE  res'.cancelDate
    BY <2>7 DEF CancelRow
  <2>8. ASSUME NEW g \in Handlers, ConfirmRow(g)
        PROVE  FALSE
    BY <1>3, <2>8 DEF ConfirmRow, CancelsRow
  <2>9. ASSUME NEW g \in Handlers, ConfirmEvent(g)
        PROVE  FALSE
    BY <1>3, <2>9 DEF ConfirmEvent, CancelsRow
  <2>10. ASSUME NEW g \in Handlers, LogEvent(g)
         PROVE  FALSE
    BY <1>3, <2>10 DEF LogEvent, CancelsRow, Logs
  <2>11. ASSUME NEW g \in Handlers, ChangeBoth(g)
         PROVE  FALSE
    BY <1>3, <2>11 DEF ChangeBoth
  <2>12. ASSUME NEW g \in Handlers, Fail(g)
         PROVE  FALSE
    BY <1>3, <2>12 DEF Fail
  <2>13. CASE UNCHANGED handlerVars
    BY <1>3, <2>13
  <2>14. QED
    BY <2>1, <2>2, <2>3, <2>4, <2>5, <2>6, <2>7, <2>8, <2>9, <2>10, <2>11,
       <2>12, <2>13
       DEF Next, Step, CreateEvent, SaveParticipants, CreateFails,
           DeleteAccount, Start, vars
<1>4. QED
  BY <1>2, <1>3

\* AnsweredCancelFreesSlot holds: no interleaving answers a cancellation while
\* the slot is taken.
THEOREM AnsweredCancelFrees == Spec => []AnsweredCancelFreesSlot
<1>1. Init => Freed
  BY DEF Init, Freed, PastCancel
<1>2. Freed => AnsweredCancelFreesSlot
  BY DEF Freed, PastCancel, AnsweredCancelFreesSlot
<1>3. QED
  BY TypeInit, TypeNext, FreedNext, <1>1, <1>2, PTL DEF Spec

-----------------------------------------------------------------------------
(* A cancelled reservation gives its slot back *)

\* Only a handler that sets cancelDate writes the state Cancelado, except for
\* the deletion of the account: changeState hands that state over to the
\* cancellation, and confirmReservation writes another.
LEMMA CancelledNext == TypeInv /\ CancelledFreesSlot /\ [Next]_vars => CancelledFreesSlot'
<1> SUFFICES ASSUME TypeInv, CancelledFreesSlot, [Next]_vars
             PROVE  CancelledFreesSlot'
  OBVIOUS
<1>1. res \in [state : States, cancelDate : BOOLEAN]
  BY DEF TypeInv, TypeOK
<1>2. \A s \in States : /\ [res EXCEPT !.state = s].state = s
                        /\ [res EXCEPT !.state = s].cancelDate = res.cancelDate
  BY <1>1
<1>3. ASSUME NEW h \in Handlers, CancelRow(h)
      PROVE  CancelledFreesSlot'
  BY <1>3 DEF CancelRow, CancelledFreesSlot
<1>4. ASSUME NEW h \in Handlers, ConfirmRow(h)
      PROVE  CancelledFreesSlot'
  <2>1. "Emitido" \in States /\ res' = [res EXCEPT !.state = "Emitido"]
    BY <1>4 DEF ConfirmRow, States
  <2>2. res'.state = "Emitido"
    BY <1>2, <2>1
  <2>3. QED
    BY <2>2 DEF CancelledFreesSlot
<1>5. ASSUME NEW h \in Handlers, ChangeBoth(h)
      PROVE  CancelledFreesSlot'
  <2>1. req[h] \in Ops /\ req[h].kind = "changeState" /\ ~CancelsRow(req[h])
    BY <1>5 DEF ChangeBoth, TypeInv, TypeOK, PhasesOfKinds
  <2>2. req[h].state \in States \ {"Cancelado"}
    BY <2>1, LifecycleAssumption DEF CancelsRow
  <2>3. res'.state = req[h].state
    BY <1>2, <1>5, <2>2 DEF ChangeBoth
  <2>4. QED
    BY <2>2, <2>3 DEF CancelledFreesSlot
<1>6. ASSUME NEW u \in Users, DeleteAccount(u)
      PROVE  CancelledFreesSlot'
  BY <1>6 DEF DeleteAccount, CancelledFreesSlot
<1>7. CASE UNCHANGED <<res, deleted>>
  BY <1>7 DEF CancelledFreesSlot
<1>8. QED
  BY <1>3, <1>4, <1>5, <1>6, <1>7
     DEF Next, Step, Begin, ReadEvent, ReadToCancel, ReadToCancelBoth,
         ReadToChange, ReadToConfirm, ConfirmEvent, LogEvent, Fail, CreateEvent,
         SaveParticipants, CreateFails, Start, vars, rowVars, worldVars

\* CancelledFreesSlot holds: a reservation shown as cancelled keeps its slot
\* only where an account deletion cancelled it.
THEOREM CancelledRowIsFree == Spec => []CancelledFreesSlot
<1>1. Init => CancelledFreesSlot
  BY DEF Init, CancelledFreesSlot
<1>2. QED
  BY TypeInit, TypeNext, CancelledNext, <1>1, PTL DEF Spec

-----------------------------------------------------------------------------
(* The change log *)

\* A handler writes to the log once, and reads it before.
WroteOnce ==
  \A h \in Handlers : wroteAt[h] # 0 =>
    \/ pc[h] \in Ended \cup {"readReservation"}
    \/ pc[h] = "reservation" /\ req[h].kind = "cancelEvent"

LEMMA WroteOnceNext == TypeInv /\ WroteOnce /\ [Next]_vars => WroteOnce'
<1> SUFFICES ASSUME TypeInv, WroteOnce, [Next]_vars,
                    NEW h \in Handlers, wroteAt'[h] # 0
             PROVE  \/ pc'[h] \in Ended \cup {"readReservation"}
                    \/ pc'[h] = "reservation" /\ req'[h].kind = "cancelEvent"
  BY DEF WroteOnce
<1> USE DEF WroteOnce, Ended, Goto, handlerVars, logVars, TypeInv, TypeOK, PhasesOfKinds
<1>1. ASSUME NEW g \in Handlers, NEW op \in Ops, Begin(g, op)
      PROVE  wroteAt'[h] = wroteAt[h] /\ pc'[h] = pc[h] /\ req'[h] = req[h]
  BY <1>1 DEF Begin
<1>2. ASSUME NEW g \in Handlers, LogEvent(g)
      PROVE  \/ pc'[h] \in Ended \cup {"readReservation"}
             \/ pc'[h] = "reservation" /\ req'[h].kind = "cancelEvent"
  BY <1>2 DEF LogEvent
<1>3. CASE UNCHANGED <<pc, req, wroteAt>>
  BY <1>3
<1>4. ASSUME NEW g \in Handlers, ReadToCancel(g)
      PROVE  \/ pc'[h] \in Ended \cup {"readReservation"}
             \/ pc'[h] = "reservation" /\ req'[h].kind = "cancelEvent"
  BY <1>4 DEF ReadToCancel
<1>5. ASSUME NEW g \in Handlers,
             \/ ReadEvent(g) \/ ReadToCancelBoth(g) \/ ReadToChange(g)
             \/ ReadToConfirm(g) \/ ConfirmRow(g) \/ ConfirmEvent(g)
             \/ ChangeBoth(g)
      PROVE  wroteAt'[h] = wroteAt[h] /\ pc'[h] = pc[h] /\ req'[h] = req[h]
  BY <1>5 DEF ReadEvent, ReadToCancelBoth, ReadToChange, ReadToConfirm,
              ConfirmRow, ConfirmEvent, ChangeBoth, Logs, CancelsRow
<1>6. ASSUME NEW g \in Handlers, CancelRow(g)
      PROVE  \/ pc'[h] \in Ended \cup {"readReservation"}
             \/ pc'[h] = "reservation" /\ req'[h].kind = "cancelEvent"
  BY <1>6 DEF CancelRow
<1>7. ASSUME NEW g \in Handlers, Fail(g)
      PROVE  \/ pc'[h] \in Ended \cup {"readReservation"}
             \/ pc'[h] = "reservation" /\ req'[h].kind = "cancelEvent"
  BY <1>7 DEF Fail
<1>8. QED
  BY <1>1, <1>2, <1>3, <1>4, <1>5, <1>6, <1>7
     DEF Next, Step, CreateEvent, SaveParticipants, CreateFails, DeleteAccount,
         Start, vars

\* An update that had read the log before h wrote to it came after.
Overwritten(h) ==
  \E w \in Handlers : wroteAt[w] > wroteAt[h] /\ readAt[w] < wroteAt[h]

\* Reading the log with the intention to replace it.
ReadsLog(k) == pc[k] = "event" /\ Logs(req[k])

\* An entry made before a handler read the log, and missing from what it read,
\* had been overwritten by then.
SnapExplained ==
  \A k, h \in Handlers :
    (ReadsLog(k) /\ wroteAt[h] # 0 /\ wroteAt[h] <= readAt[k] /\ h \notin snap[k])
      => Overwritten(h)

LogInv == TypeInv /\ WroteOnce /\ SnapExplained /\ LostEntryOnlyByRace

\* The counts are numbers, and none is ahead of the number of updates.
LEMMA Counts ==
  ASSUME TypeInv
  PROVE  /\ writes \in Nat
         /\ \A h \in Handlers : /\ wroteAt[h] \in Nat /\ wroteAt[h] <= writes
                               /\ readAt[h] \in Nat /\ readAt[h] <= writes
<1>1. writes \in Nat /\ wroteAt \in [Handlers -> 0..writes] /\ readAt \in [Handlers -> 0..writes]
  BY DEF TypeInv, TypeOK
<1>2. QED
  BY <1>1

\* Steps that neither read the log to replace it nor write to it.
LEMMA LogFrame ==
  ASSUME LogInv, UNCHANGED <<snap, readAt, logVars>>,
         \A k \in Handlers : ReadsLog(k)' => ReadsLog(k),
         ev # NULL => ev'.log = ev.log
  PROVE  SnapExplained' /\ LostEntryOnlyByRace'
<1> USE DEF logVars
<1>1. \A h \in Handlers : Overwritten(h) => Overwritten(h)'
  BY DEF Overwritten
<1>2. SnapExplained'
  BY <1>1 DEF LogInv, SnapExplained
<1>3. \A h \in Handlers : wroteAt[h] > 0 => wroteAt[h] # 0
  BY Counts DEF LogInv
<1>4. \A h \in Handlers : wroteAt[h] > 0 => ev'.log = ev.log
  BY <1>3 DEF LogInv, TypeInv, EventFound
<1>5. LostEntryOnlyByRace'
  BY <1>4 DEF LogInv, LostEntryOnlyByRace
<1>6. QED
  BY <1>2, <1>5

\* What is missing from the log when it is read was overwritten.
LEMMA LogRead ==
  ASSUME LogInv, NEW g \in Handlers, ReadEvent(g)
  PROVE  SnapExplained' /\ LostEntryOnlyByRace'
<1> USE DEF LogInv
<1>1. /\ writes' = writes /\ wroteAt' = wroteAt /\ ev' = ev
      /\ \A k \in Handlers \ {g} : /\ pc'[k] = pc[k] /\ req'[k] = req[k]
                                 /\ snap'[k] = snap[k] /\ readAt'[k] = readAt[k]
      /\ wroteAt[g] = 0
  BY DEF ReadEvent, Goto, logVars, rowVars, TypeInv, TypeOK, WroteOnce, Ended
<1>2. pc'[g] = "event" => ev # NULL /\ snap'[g] = ev.log
  BY DEF ReadEvent, Goto, TypeInv, TypeOK
<1>3. \A h \in Handlers : Overwritten(h) => Overwritten(h)'
  <2> SUFFICES ASSUME NEW h \in Handlers, NEW w \in Handlers,
                      wroteAt[w] > wroteAt[h], readAt[w] < wroteAt[h]
               PROVE  Overwritten(h)'
    BY DEF Overwritten
  <2>1. w # g
    BY <1>1, Counts
  <2>2. QED
    BY <1>1, <2>1 DEF Overwritten
<1>4. LostEntryOnlyByRace'
  BY <1>1, <1>3 DEF LostEntryOnlyByRace, Overwritten
<1>5. \A h \in Handlers : (wroteAt[h] # 0 /\ h \notin ev.log) => Overwritten(h)
  BY Counts DEF LostEntryOnlyByRace, Overwritten
<1>6. SnapExplained'
  <2> SUFFICES ASSUME NEW k \in Handlers, NEW h \in Handlers, ReadsLog(k)', wroteAt'[h] # 0,
                      wroteAt'[h] <= readAt'[k], h \notin snap'[k]
               PROVE  Overwritten(h)'
    BY DEF SnapExplained
  <2>1. CASE k = g
    BY <1>1, <1>2, <1>3, <1>5, <2>1 DEF ReadsLog
  <2>2. CASE k # g
    BY <1>1, <1>3, <2>2 DEF ReadsLog, SnapExplained
  <2>3. QED
    BY <2>1, <2>2
<1>7. QED
  BY <1>4, <1>6

\* Replacing the log drops what the handler had not read: entries that are
\* newer than its read, and those that were missing then.
LEMMA LogWrite ==
  ASSUME LogInv, NEW g \in Handlers, LogEvent(g)
  PROVE  SnapExplained' /\ LostEntryOnlyByRace'
<1> USE DEF LogInv
<1>1. /\ writes \in Nat
      /\ \A h \in Handlers : /\ wroteAt[h] \in Nat /\ wroteAt[h] <= writes
                            /\ readAt[h] \in Nat /\ readAt[h] <= writes
  BY Counts
<1>2. /\ snap' = snap /\ readAt' = readAt
      /\ wroteAt'[g] = writes + 1
      /\ \A h \in Handlers \ {g} : wroteAt'[h] = wroteAt[h]
      /\ ev'.log = snap[g] \cup {g}
  BY DEF LogEvent, TypeInv, TypeOK
<1>3. /\ wroteAt[g] = 0 /\ ReadsLog(g)
      /\ \A k \in Handlers : ReadsLog(k)' => ReadsLog(k)
  BY DEF LogEvent, Goto, WroteOnce, Ended, ReadsLog, TypeInv, TypeOK
<1>4. ASSUME NEW h \in Handlers, h # g, Overwritten(h)
      PROVE  Overwritten(h)'
  <2>1. PICK w \in Handlers : wroteAt[w] > wroteAt[h] /\ readAt[w] < wroteAt[h]
    BY <1>4 DEF Overwritten
  <2>2. w # g
    BY <1>1, <1>3, <2>1
  <2>3. QED
    BY <1>2, <1>4, <2>1, <2>2 DEF Overwritten
<1>5. SnapExplained'
  <2> SUFFICES ASSUME NEW k \in Handlers, NEW h \in Handlers, ReadsLog(k)', wroteAt'[h] # 0,
                      wroteAt'[h] <= readAt'[k], h \notin snap'[k]
               PROVE  Overwritten(h)'
    BY DEF SnapExplained
  <2>1. h # g
    BY <1>1, <1>2
  <2>2. QED
    BY <1>2, <1>3, <1>4, <2>1 DEF SnapExplained
<1>6. LostEntryOnlyByRace'
  <2> SUFFICES ASSUME NEW h \in Handlers, wroteAt'[h] > 0, h \notin ev'.log
               PROVE  Overwritten(h)'
    BY DEF LostEntryOnlyByRace, Overwritten
  <2>1. h # g /\ h \notin snap[g] /\ wroteAt[h] # 0 /\ wroteAt'[h] = wroteAt[h]
    BY <1>1, <1>2
  <2>2. CASE wroteAt[h] <= readAt[g]
    BY <1>3, <1>4, <2>1, <2>2 DEF SnapExplained
  <2>3. CASE readAt[g] < wroteAt[h]
    <3>1. wroteAt'[g] > wroteAt'[h] /\ readAt'[g] < wroteAt'[h]
      BY <1>1, <1>2, <2>1, <2>3
    <3>2. QED
      BY <3>1 DEF Overwritten
  <2>4. QED
    BY <1>1, <2>2, <2>3
<1>7. QED
  BY <1>5, <1>6

LEMMA LogNext == LogInv /\ [Next]_vars => LogInv'
<1> SUFFICES ASSUME LogInv, [Next]_vars
             PROVE  LogInv'
  OBVIOUS
<1>1. TypeInv' /\ WroteOnce'
  BY TypeNext, WroteOnceNext DEF LogInv
<1> USE DEF ReadsLog, Goto
<1>2. ASSUME NEW g \in Handlers, NEW op \in Ops, Begin(g, op)
      PROVE  SnapExplained' /\ LostEntryOnlyByRace'
  <2>1. \A k \in Handlers : ReadsLog(k)' => ReadsLog(k)
    BY <1>2 DEF Begin, LogInv, TypeInv, TypeOK
  <2>2. UNCHANGED <<snap, readAt, logVars>> /\ ev' = ev
    BY <1>2 DEF Begin, rowVars
  <2>3. QED
    BY <2>1, <2>2, LogFrame
<1>3. ASSUME NEW g \in Handlers,
             \/ ReadToCancel(g) \/ ReadToCancelBoth(g) \/ ReadToChange(g)
             \/ ReadToConfirm(g) \/ CancelRow(g) \/ ConfirmRow(g) \/ Fail(g)
      PROVE  SnapExplained' /\ LostEntryOnlyByRace'
  <2>1. UNCHANGED <<snap, readAt, logVars>> /\ ev' = ev
    BY <1>3 DEF ReadToCancel, ReadToCancelBoth, ReadToChange, ReadToConfirm,
                CancelRow, ConfirmRow, Fail, rowVars
  <2>2. \A k \in Handlers : ReadsLog(k)' => ReadsLog(k)
    BY <1>3 DEF ReadToCancel, ReadToCancelBoth, ReadToChange, ReadToConfirm,
                CancelRow, ConfirmRow, Fail, Logs, CancelsRow,
                LogInv, TypeInv, TypeOK, PhasesOfKinds
  <2>3. QED
    BY <2>1, <2>2, LogFrame
<1>4. ASSUME NEW g \in Handlers, ConfirmEvent(g) \/ ChangeBoth(g)
      PROVE  SnapExplained' /\ LostEntryOnlyByRace'
  <2>1. UNCHANGED <<snap, readAt, logVars>>
    BY <1>4 DEF ConfirmEvent, ChangeBoth
  <2>2. \A k \in Handlers : ReadsLog(k)' => ReadsLog(k)
    BY <1>4 DEF ConfirmEvent, ChangeBoth, LogInv, TypeInv, TypeOK
  <2>3. ev # NULL => ev'.log = ev.log
    BY <1>4 DEF ConfirmEvent, ChangeBoth, LogInv, TypeInv, TypeOK
  <2>4. QED
    BY <2>1, <2>2, <2>3, LogFrame
<1>5. CASE \/ CreateEvent \/ SaveParticipants \/ CreateFails \/ Start
           \/ UNCHANGED vars \/ \E u \in Users : DeleteAccount(u)
  <2>1. UNCHANGED <<snap, readAt, logVars>>
    BY <1>5 DEF CreateEvent, SaveParticipants, CreateFails, Start,
                DeleteAccount, handlerVars, vars
  <2>2. ev # NULL => ev'.log = ev.log
    BY <1>5 DEF CreateEvent, SaveParticipants, CreateFails, Start,
                DeleteAccount, DeletedEvent, rowVars, vars, LogInv, TypeInv, TypeOK, EventFound
  <2>3. \A k \in Handlers : ReadsLog(k)' => ReadsLog(k)
    BY <1>5 DEF CreateEvent, SaveParticipants, CreateFails, Start,
                DeleteAccount, handlerVars, vars
  <2>4. QED
    BY <1>1, <2>1, <2>2, <2>3, LogFrame DEF LogInv
<1>6. QED
  BY <1>1, <1>2, <1>3, <1>4, <1>5, LogRead, LogWrite DEF LogInv, Next, Step

\* LostEntryOnlyByRace holds: an entry of the change log is only lost to a
\* handler that read the log before the entry was made and wrote after.
THEOREM LogLosesOnlyByRace == Spec => []LostEntryOnlyByRace
<1>1. Init => WroteOnce /\ SnapExplained /\ LostEntryOnlyByRace
  <2> SUFFICES ASSUME Init
               PROVE  WroteOnce /\ SnapExplained /\ LostEntryOnlyByRace
    OBVIOUS
  <2>1. \A h \in Handlers : wroteAt[h] = 0
    BY DEF Init
  <2>2. QED
    BY <2>1 DEF WroteOnce, SnapExplained, LostEntryOnlyByRace
<1>2. Init => LogInv
  BY <1>1, TypeInit DEF LogInv
<1>3. LogInv => LostEntryOnlyByRace
  BY DEF LogInv
<1>4. QED
  BY <1>2, <1>3, LogNext, PTL DEF Spec

-----------------------------------------------------------------------------
(* The pair of rows *)

Agree == ev # NULL => ev.state = res.state

\* A handler that has written the reservation and not yet the event.
RowFirst(h) ==
  \/ pc[h] = "readEvent"
  \/ pc[h] = "event" /\ req[h].kind \in {"cancelBoth", "confirm"}

\* A handler that has written the event and not yet the reservation.
EventFirst(h) ==
  \/ pc[h] = "readReservation"
  \/ pc[h] = "reservation" /\ req[h].kind = "cancelEvent"

\* What a handler on its own has made of the two rows so far.
Halfway(h) ==
  /\ RowFirst(h) => res.state = Target(req[h])
  /\ EventFirst(h) => ev # NULL /\ ev.state = Target(req[h])
  /\ ~RowFirst(h) /\ ~EventFirst(h) => Agree
  /\ pc[h] = "transaction" => (sawEvent[h] = TRUE <=> ev # NULL)

\* Without an excuse handlers ran one at a time, after create had ended.
OneAtATime ==
  /\ \A g, h \in InFlight : g = h
  /\ InFlight # {} => creating = "nothing"
  /\ creating = "event" => res.state = born
  /\ \A h \in InFlight : Halfway(h)
  /\ InFlight = {} => Agree

PairInv == excuses = {} => OneAtATime

\* Each handler, alone, brings the rows from agreement to agreement.
LEMMA PairStep ==
  ASSUME TypeInv, TypeInv', OneAtATime, excuses' = {}, NEW h \in Handlers, Step(h)
  PROVE  IF pc'[h] \in Ended THEN Agree' ELSE Halfway(h)'
<1> USE DEF TypeInv, TypeOK, PhasesOfKinds, EventFound, Goto, rowVars, Ended,
            Agree, RowFirst, EventFirst, Halfway
<1>1. h \in InFlight /\ Halfway(h) /\ creating = "nothing"
  BY DEF OneAtATime, InFlight, Step, ReadEvent, ReadToCancel, ReadToCancelBoth,
         ReadToChange, ReadToConfirm, CancelRow, ConfirmRow, ConfirmEvent,
         LogEvent, ChangeBoth
<1>2. excuses' # excuses \cup {"one-sided"}
  OBVIOUS
<1>3. CASE ReadEvent(h)
  BY <1>1, <1>3 DEF ReadEvent, Logs
<1>4. CASE ReadToCancel(h)
  BY <1>1, <1>4 DEF ReadToCancel
<1>5. CASE ReadToCancelBoth(h)
  BY <1>1, <1>5 DEF ReadToCancelBoth
<1>6. CASE ReadToChange(h)
  BY <1>1, <1>6 DEF ReadToChange
<1>7. CASE ReadToConfirm(h)
  BY <1>1, <1>7 DEF ReadToConfirm
<1>8. CASE CancelRow(h)
  BY <1>1, <1>2, <1>8 DEF CancelRow, CancelsRow, OneSided
<1>9. CASE ConfirmRow(h)
  BY <1>1, <1>9 DEF ConfirmRow, Target
<1>10. CASE ConfirmEvent(h)
  BY <1>1, <1>10 DEF ConfirmEvent, Target
<1>11. CASE LogEvent(h)
  <2>1. req[h].kind \in {"cancelEvent", "cancelBoth"}
    BY <1>2, <1>11 DEF LogEvent, Logs, OneSided
  <2>2. ev' # NULL /\ ev'.state = Target(req[h]) /\ res' = res /\ req' = req
    <3>1. req[h] \in Ops /\ snap[h] \cup {h} \in SUBSET Handlers
      BY <1>11 DEF LogEvent
    <3>2. /\ ev' = [state |-> Target(req[h]), log |-> snap[h] \cup {h}]
          /\ res' = res /\ req' = req
      BY <1>11 DEF LogEvent
    <3>3. ev' # NULL
      BY <3>1, <3>2, TargetType, NotNull, Zenon
    <3>4. ev'.state = Target(req[h])
      BY <3>2
    <3>5. QED
      BY <3>2, <3>3, <3>4
  <2>3. pc'[h] = IF req[h].kind = "cancelEvent" THEN "readReservation" ELSE "done"
    BY <1>11 DEF LogEvent
  <2>4. req[h].kind = "cancelBoth" => res.state = Target(req[h])
    BY <1>1, <1>11 DEF LogEvent
  <2>5. QED
    BY <2>1, <2>2, <2>3, <2>4
<1>12. CASE ChangeBoth(h)
  BY <1>1, <1>12 DEF ChangeBoth
<1>13. QED
  BY <1>3, <1>4, <1>5, <1>6, <1>7, <1>8, <1>9, <1>10, <1>11, <1>12 DEF Step

LEMMA PairNext == TypeInv /\ PairInv /\ [Next]_vars => PairInv'
<1> SUFFICES ASSUME TypeInv, PairInv, [Next]_vars, excuses' = {}
             PROVE  OneAtATime'
  BY DEF PairInv
<1>1. TypeInv'
  BY TypeNext
<1>2. excuses = {}
  BY DEF Next, Step, Begin, ReadEvent, ReadToCancel, ReadToCancelBoth,
         ReadToChange, ReadToConfirm, CancelRow, ConfirmRow, ConfirmEvent,
         LogEvent, ChangeBoth, Fail, CreateEvent, SaveParticipants, CreateFails,
         DeleteAccount, Start, vars
<1>3. OneAtATime
  BY <1>2 DEF PairInv
<1>4. ASSUME NEW h \in Handlers, Step(h)
      PROVE  OneAtATime'
  <2>1. /\ h \in InFlight
        /\ \A g \in Handlers \ {h} : pc'[g] = pc[g]
        /\ creating' = creating
        /\ pc'[h] # "idle"
    BY <1>4 DEF Step, ReadEvent, ReadToCancel, ReadToCancelBoth, ReadToChange,
         ReadToConfirm, CancelRow, ConfirmRow, ConfirmEvent, LogEvent,
         ChangeBoth, InFlight, Ended, Goto, TypeInv, TypeOK, worldVars
  <2>2. InFlight = {h} /\ creating = "nothing"
    BY <1>3, <2>1 DEF OneAtATime
  <2>3. InFlight' = IF pc'[h] \in Ended THEN {} ELSE {h}
    BY <2>1, <2>2 DEF InFlight
  <2>4. IF pc'[h] \in Ended THEN Agree' ELSE Halfway(h)'
    BY <1>1, <1>3, <1>4, PairStep
  <2>5. QED
    BY <2>1, <2>2, <2>3, <2>4 DEF OneAtATime
<1>5. ASSUME NEW h \in Handlers, NEW op \in Ops, Begin(h, op)
      PROVE  OneAtATime'
  <2>1. InFlight = {} /\ creating = "nothing" /\ creating' = "nothing"
    BY <1>5 DEF Begin, worldVars, TypeInv, TypeOK
  <2>2. pc' = [pc EXCEPT ![h] = "read"] /\ ev' = ev /\ res' = res
    BY <1>5 DEF Begin, Goto, rowVars
  <2>6. pc'[h] = "read" /\ \A g \in Handlers \ {h} : pc'[g] = pc[g]
    BY <2>2 DEF TypeInv, TypeOK
  <2>3. InFlight' = {h} /\ pc'[h] = "read"
    BY <2>1, <2>6 DEF InFlight, Ended
  <2>4. Halfway(h)'
    BY <1>3, <2>1, <2>2, <2>3 DEF OneAtATime, Halfway, RowFirst, EventFirst, Agree
  <2>5. QED
    BY <2>1, <2>3, <2>4 DEF OneAtATime
<1>6. CASE CreateEvent \/ SaveParticipants \/ \E u \in Users : DeleteAccount(u)
  <2>1. UNCHANGED pc /\ InFlight = {} /\ InFlight' = {}
    BY <1>3, <1>6 DEF CreateEvent, SaveParticipants, DeleteAccount,
         handlerVars, OneAtATime, InFlight, TypeInv, TypeOK
  <2>2. Agree /\ (creating = "event" => ev = NULL /\ res.state = born)
    BY <1>3, <2>1 DEF OneAtATime, TypeInv, EventFound
  <2>5. ASSUME NEW u \in Users, DeleteAccount(u)
        PROVE  OneAtATime'
    <3>1. creating = "nothing" /\ creating' = creating /\ u = Owner
      BY <2>5 DEF DeleteAccount, TypeInv, TypeOK
    <3>2. res'.state = "Cancelado" /\ (ev' # NULL => ev'.state = "Cancelado")
      BY <2>5, <3>1 DEF DeleteAccount, DeletedEvent, TypeInv, TypeOK
    <3>3. QED
      BY <2>1, <3>1, <3>2 DEF OneAtATime, Agree
  <2>6. CASE CreateEvent \/ SaveParticipants
    <3>1. Agree' /\ creating' # "event"
      BY <2>2, <2>6 DEF CreateEvent, SaveParticipants, Agree, rowVars
    <3>2. QED
      BY <2>1, <3>1 DEF OneAtATime
  <2>7. QED
    BY <1>6, <2>5, <2>6
<1>7. CASE Start \/ UNCHANGED vars
  BY <1>3, <1>7 DEF Start, vars, handlerVars, rowVars, worldVars, OneAtATime, InFlight,
       Halfway, RowFirst, EventFirst, Agree
<1>8. ASSUME NEW h \in Handlers, Fail(h)
      PROVE  FALSE
  BY <1>8 DEF Fail
<1>9. ~CreateFails
  BY DEF CreateFails
<1>10. QED
  BY <1>4, <1>5, <1>6, <1>7, <1>8, <1>9 DEF Next

\* PairAgrees holds: requests that run one after the other, and none of them
\* one that writes one row only, leave the two rows in the same state.
THEOREM PairStaysEqual == Spec => []PairAgrees
<1>1. Init => PairInv
  <2> SUFFICES ASSUME Init PROVE OneAtATime
    BY DEF PairInv
  <2>1. InFlight = {}
    BY DEF Init, InFlight
  <2>2. ev = NULL /\ res.state = born
    BY DEF Init
  <2>3. QED
    BY <2>1, <2>2 DEF OneAtATime, Agree
<1>2. PairInv => PairAgrees
  BY DEF PairInv, OneAtATime, Agree, PairAgrees
<1>3. QED
  BY TypeInit, TypeNext, PairNext, <1>1, <1>2, PTL DEF Spec
=============================================================================
