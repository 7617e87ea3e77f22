---------------------------- MODULE EventDispatch ----------------------------
(***************************************************************************)
(* What leaves the database when events are created and changed.           *)
(* EventsService.create checks for a duplicate, writes one row per day and *)
(* returns; behind its back the rows are sent to ICM, the access-control   *)
(* company, one HTTP call after another, and the event of the day is set   *)
(* in Firebase.  cancelEvent, eventUpdateState and attendEventGV meanwhile *)
(* change the rows, set the mirror again and take invitations back.        *)
(*                                                                         *)
(* All creates ask for one visitor of one resident, from the same moment   *)
(* on, of a customer with ICM: the case the duplicate check is about.      *)
(***************************************************************************)
EXTENDS Integers, FiniteSets

CONSTANTS
  Creates,     \* POST events requests
  Days,        \* rows each of them writes; row 1 holds the moment `from`
  Today,       \* the row of the day that is mirrored, 0 if none is
  Setups,      \* what there may be: [type, copies, lotKnown, mirrored]
  Handlers,    \* later requests on the rows
  Ops,         \* what they may ask for: [kind, row, state]
  NULL

States == {"Emitido", "Cancelado", "Usuario cancelo", "Atendido"}
Kinds == {"cancelEvent", "updateState", "attend"}
Rows == Creates \X (1..Days)
RowsOf(c) == {c} \X (1..Days)

ASSUME DispatchAssumption ==
  /\ Creates \cap Handlers = {}
  /\ Setups \subseteq [type : {"delivery", "guest"}, copies : SUBSET Creates,
                       lotKnown : SUBSET Creates, mirrored : BOOLEAN]
  /\ Days \in Nat \ {0}
  /\ Today \in 0..Days
  /\ Ops \subseteq [kind : Kinds, row : Rows, state : States]
  /\ NULL \notin Ops
  /\ NULL \notin States

VARIABLES
  pc,         \* the next await of every create and handler
  copies,     \* creates whose request says isCopy
  lotKnown,   \* creates whose job finds the lot among the CustomerLots
  mirrored,   \* Firebase is configured: FirebaseService.enabled
  saw,        \* history: the rows in the table when c looked for duplicates
  state,      \* state[r]: NULL until the row is written
  isDelivery, \* rows with the isDelivery flag
  type,       \* "delivery": the event type has isDelivery and an icmDeliveryType
  job,        \* job[c]: the next await of sendEventToICM, and its row
  records,    \* ICMService rows: <<row, whether it carries ICM's reference>>
  invited,    \* rows with a live invitation or notice at ICM
  op,         \* op[h]: what was asked
  notices,    \* handlers that take the row for a delivery
  referenced, \* those of them that found the notice's reference
  withdrawn,  \* history: withdrawn[r]: the handlers whose call ended it
  unanswered, \* history: calls of handlers that failed on the way
  answered,   \* history: rows for which ICM gave a reference
  unflagged,  \* history: handlers that updated their row before its job's end
  unsent,     \* history: handlers that called ICM before the job sent their row
  mirror,     \* mirror[r]: the state in Firebase
  writes,     \* Firebase writes under way: <<row, state>>
  excused     \* history: rows whose mirror may be wrong

setup == <<lotKnown, mirrored>>
createVars == <<copies, saw, type, setup>>
rowVars == <<state, isDelivery>>
icmVars == <<job, records, invited, withdrawn, unanswered, answered>>
handlerVars == <<op, notices, referenced, unflagged, unsent>>
mirrorVars == <<mirror, writes, excused>>
vars == <<pc, createVars, rowVars, icmVars, handlerVars, mirrorVars>>

Ended == {"done", "rejected", "failed"}
InFlight == {x \in Creates \cup Handlers : pc[x] \notin {"idle"} \cup Ended}
Written == {r \in Rows : state[r] # NULL}

Target(o) ==
  CASE o.kind = "cancelEvent" -> "Usuario cancelo"
    [] o.kind = "attend"      -> "Atendido"
    [] OTHER                  -> o.state

\* These take the invitation back.
Withdraws(o) == o.kind # "attend" /\ Target(o) \in {"Cancelado", "Usuario cancelo"}

Init ==
  /\ pc = [x \in Creates \cup Handlers |-> "idle"]
  /\ \E has \in Setups :
       /\ type = has.type
       /\ copies = has.copies
       /\ lotKnown = has.lotKnown
       /\ mirrored = has.mirrored
  /\ saw = [c \in Creates |-> {}]
  /\ state = [r \in Rows |-> NULL]
  /\ isDelivery = {}
  /\ job = [c \in Creates |-> <<"off", 1>>]
  /\ records = {}
  /\ invited = {}
  /\ op = [h \in Handlers |-> NULL]
  /\ notices = {}
  /\ referenced = {}
  /\ withdrawn = [r \in Rows |-> {}]
  /\ unanswered = {}
  /\ answered = {}
  /\ unflagged = {}
  /\ unsent = {}
  /\ mirror = [r \in Rows |-> NULL]
  /\ writes = {}
  /\ excused = {}

\* pushFirebase: the write it starts, if Firebase is configured.
Setting(r, to) == IF mirrored THEN {<<r, to>>} ELSE {}

Goto(x, phase) == pc' = [pc EXCEPT ![x] = phase]

\* The row's create, a handler of it or a Firebase write of it is under way.
Busy(r) == \/ r[1] \in InFlight
           \/ \E h \in InFlight \cap Handlers : op[h].row = r
           \/ \E w \in writes : w[1] = r

-----------------------------------------------------------------------------
(* EventsService.create *)

\* The event type, the dates, the resident or the right to send events are not
\* what create asks for.
RejectEvent(c) ==
  /\ pc[c] = "idle"
  /\ Goto(c, "rejected")
  /\ UNCHANGED <<createVars, rowVars, icmVars, handlerVars, mirrorVars>>

\* validatePermanent counts the visitor's events in state Emitido that hold
\* the moment `from`: only row 1 of a request does.
Duplicates == {c \in Creates : state[<<c, 1>>] = "Emitido"}

ValidatePermanentCopies(c) ==  \* mutant: copies are checked, the others not
  /\ pc[c] = "idle"
  /\ saw' = [saw EXCEPT ![c] = Written]
  /\ Goto(c, IF c \in copies /\ Duplicates # {} THEN "rejected" ELSE "insert")
  /\ UNCHANGED <<copies, type, setup, rowVars, icmVars, handlerVars, mirrorVars>>
ValidatePermanent(c) ==
  /\ pc[c] = "idle"
  /\ saw' = [saw EXCEPT ![c] = Written]
  /\ Goto(c, IF c \notin copies /\ Duplicates # {} THEN "rejected" ELSE "insert")
  /\ UNCHANGED <<copies, type, setup, rowVars, icmVars, handlerVars, mirrorVars>>

\* divideEventIntoDays and createMany: all the rows at once.  Without a row of
\* the day the handler ends here and the calls to ICM begin.
InsertRows(c) ==
  /\ pc[c] = "insert"
  /\ state' = [r \in Rows |-> IF r \in RowsOf(c) THEN "Emitido" ELSE state[r]]
  /\ IF Today # 0
     THEN Goto(c, "requester") /\ UNCHANGED job
     ELSE /\ Goto(c, "done")
          /\ job' = [job EXCEPT ![c] = IF c \in copies THEN @ ELSE <<"lot", 1>>]
  /\ UNCHANGED <<createVars, isDelivery, records, invited, withdrawn, unanswered, answered,
                 handlerVars, mirrorVars>>

\* The requester is read for the mirror; neither the Firebase write nor the
\* calls to ICM are awaited.
FindRequester(c) ==
  /\ pc[c] = "requester"
  /\ writes' = writes \cup Setting(<<c, Today>>, "Emitido")
  /\ job' = [job EXCEPT ![c] = IF c \in copies THEN @ ELSE <<"lot", 1>>]
  /\ Goto(c, "done")
  /\ UNCHANGED <<createVars, rowVars, records, invited, withdrawn, unanswered, answered,
                 handlerVars, mirror, excused>>

-----------------------------------------------------------------------------
(* sendEventToICM: the rows of one create, one call after the other *)

FindLot(c) ==
  /\ job[c][1] = "lot"
  /\ job' = [job EXCEPT ![c] = <<IF c \in lotKnown THEN "call" ELSE "unsent", 1>>]
  /\ UNCHANGED <<pc, createVars, rowVars, records, invited, withdrawn, unanswered, answered,
                 handlerVars, mirrorVars>>

\* ICM answers with a reference; or without one that can be used, which is
\* recorded all the same, as is a guest's failed call; a delivery's failed call
\* ends the job.  Unless ICM gave a reference, what it did is unknown.
CreateInvitation(c) ==
  /\ job[c][1] = "call"
  /\ LET row == <<c, job[c][2]>>
     IN  \/ /\ invited' = invited \cup {row}
            /\ answered' = answered \cup {row}
            /\ job' = [job EXCEPT ![c] = <<"record", @[2]>>]
         \/ /\ invited' \in {invited, invited \cup {row}}
            /\ answered' = answered
            /\ \/ job' = [job EXCEPT ![c] = <<"unknown", @[2]>>]
               \/ /\ type = "delivery"
                  /\ job' = [job EXCEPT ![c] = <<"failed", @[2]>>]
  /\ UNCHANGED <<pc, createVars, rowVars, records, withdrawn, unanswered,
                 handlerVars, mirrorVars>>

\* The reference is recorded if there is one.
Answer(c) == IF job[c][1] = "record" THEN "reference" ELSE "none"

RecordInvitationNoNext(c) ==  \* mutant: the row is sent again
  /\ job[c][1] \in {"record", "unknown"}
  /\ records' = records \cup {<<<<c, job[c][2]>>, Answer(c)>>}
  /\ job' = [job EXCEPT ![c] = <<"call", job[c][2]>>]
  /\ UNCHANGED <<pc, createVars, rowVars, invited, withdrawn, unanswered, answered,
                 handlerVars, mirrorVars>>
RecordInvitation(c) ==
  /\ job[c][1] \in {"record", "unknown"}
  /\ records' = records \cup {<<<<c, job[c][2]>>, Answer(c)>>}
  /\ job' = [job EXCEPT ![c] = IF job[c][2] < Days
                               THEN <<"call", job[c][2] + 1>> ELSE <<"flag", Days>>]
  /\ UNCHANGED <<pc, createVars, rowVars, invited, withdrawn, unanswered, answered,
                 handlerVars, mirrorVars>>

FlagFirst(c) ==  \* mutant: only one of the rows is flagged
  /\ job[c][1] = "flag"
  /\ isDelivery' = isDelivery \cup {<<c, 1>>}
  /\ job' = [job EXCEPT ![c] = <<"ended", Days>>]
  /\ UNCHANGED <<pc, createVars, state, records, invited, withdrawn, unanswered, answered,
                 handlerVars, mirrorVars>>
\* Every row that was sent is flagged, a guest's too.
FlagDelivered(c) ==
  /\ job[c][1] = "flag"
  /\ isDelivery' = isDelivery \cup RowsOf(c)
  /\ job' = [job EXCEPT ![c] = <<"ended", Days>>]
  /\ UNCHANGED <<pc, createVars, state, records, invited, withdrawn, unanswered, answered,
                 handlerVars, mirrorVars>>

\* A query of the job throws, which is logged, or the process stops.
JobFails(c) ==
  /\ job[c][1] \in {"lot", "call", "record", "unknown", "flag"}
  /\ job' = [job EXCEPT ![c] = <<"failed", @[2]>>]
  /\ UNCHANGED <<pc, createVars, rowVars, records, invited, withdrawn, unanswered, answered,
                 handlerVars, mirrorVars>>

-----------------------------------------------------------------------------
(* cancelEvent, eventUpdateState, attendEventGV *)

Begin(h, o) ==
  /\ pc[h] = "idle"
  /\ op' = [op EXCEPT ![h] = o]
  /\ Goto(h, IF state[o.row] = NULL THEN "rejected" ELSE "update")
  /\ excused' = IF Busy(o.row) THEN excused \cup {o.row} ELSE excused
  /\ UNCHANGED <<createVars, rowVars, icmVars, notices, referenced, unflagged, unsent,
                 mirror, writes>>

\* The updated row says whether it is a delivery.
UpdateRow(h) ==
  /\ pc[h] = "update"
  /\ state' = [state EXCEPT ![op[h].row] = Target(op[h])]
  /\ notices' = IF op[h].row \in isDelivery THEN notices \cup {h} ELSE notices
  /\ unflagged' = IF job[op[h].row[1]][1] = "ended" THEN unflagged ELSE unflagged \cup {h}
  /\ Goto(h, IF op[h].kind = "cancelEvent" THEN "icm" ELSE "alert")
  /\ excused' = IF op[h].kind = "cancelEvent" THEN excused \cup {op[h].row} ELSE excused
  /\ UNCHANGED <<createVars, isDelivery, icmVars, op, referenced, unsent, mirror, writes>>

MirrorRowNot(h) ==  \* mutant: attendEventGV does not tell Firebase
  /\ pc[h] = "alert"
  /\ writes' = IF op[h].kind = "attend" THEN writes
               ELSE writes \cup Setting(op[h].row, Target(op[h]))
  /\ Goto(h, IF Withdraws(op[h]) THEN "icm" ELSE "done")
  /\ UNCHANGED <<createVars, rowVars, icmVars, handlerVars, mirror, excused>>
\* alertOnEventUpdates has ended; the Firebase write is not awaited.
MirrorRow(h) ==
  /\ pc[h] = "alert"
  /\ writes' = writes \cup Setting(op[h].row, Target(op[h]))
  /\ Goto(h, IF Withdraws(op[h]) THEN "icm" ELSE "done")
  /\ UNCHANGED <<createVars, rowVars, icmVars, handlerVars, mirror, excused>>

FindRecordAlways(h) ==  \* mutant: a guest's cancellation needs a record too
  /\ pc[h] = "icm"
  /\ LET own == {t \in records : t[1] = op[h].row}
     IN  \/ /\ \E t \in own :
                 referenced' = IF h \in notices /\ t[2] = "reference"
                               THEN referenced \cup {h} ELSE referenced
            /\ Goto(h, "withdraw")
         \/ /\ own = {}
            /\ Goto(h, "done")
            /\ UNCHANGED referenced
  /\ UNCHANGED <<createVars, rowVars, icmVars, op, notices, unflagged, unsent, mirrorVars>>
\* cancelDeliveryInvitation takes the notice's reference from any ICMService
\* row of the event, and does nothing without one; cancelGuestInvitation asks
\* by the event's own id.
FindRecord(h) ==
  /\ pc[h] = "icm"
  /\ LET own == {t \in records : t[1] = op[h].row}
     IN  \/ /\ h \in notices
            /\ \E t \in own :
                 referenced' = referenced \cup IF t[2] = "reference" THEN {h} ELSE {}
            /\ Goto(h, "withdraw")
         \/ /\ h \in notices
            /\ own = {}
            /\ Goto(h, "done")
            /\ UNCHANGED referenced
         \/ /\ h \notin notices
            /\ Goto(h, "withdraw")
            /\ UNCHANGED referenced
  /\ UNCHANGED <<createVars, rowVars, icmVars, op, notices, unflagged, unsent, mirrorVars>>

\* ICM knows deliveries by the notice's reference and guests by the event's id.
Reaches(h) == IF type = "delivery" THEN h \in referenced ELSE h \notin notices

\* The job of the row's create may yet send the row.
YetToSend(r) ==
  LET phase == job[r[1]][1]
      next == job[r[1]][2]
  IN  \/ phase \in {"off", "lot", "call"} /\ next <= r[2]
      \/ phase \in {"record", "unknown"} /\ next < r[2]

\* A failed call is caught and recorded like an answered one.
WithdrawInvitation(h) ==
  /\ pc[h] = "withdraw"
  /\ Goto(h, "log")
  /\ unsent' = IF YetToSend(op[h].row) THEN unsent \cup {h} ELSE unsent
  /\ \/ /\ invited' = IF Reaches(h) THEN invited \ {op[h].row} ELSE invited
        /\ withdrawn' = IF Reaches(h) /\ op[h].row \in invited
                        THEN [withdrawn EXCEPT ![op[h].row] = @ \cup {h}] ELSE withdrawn
        /\ UNCHANGED unanswered
     \/ /\ unanswered' = unanswered \cup {h}
        /\ UNCHANGED <<invited, withdrawn>>
  /\ UNCHANGED <<createVars, rowVars, job, records, answered, op, notices, referenced,
                 unflagged, mirrorVars>>

\* The record of a deletion has no reference.
RecordWithdrawal(h) ==
  /\ pc[h] = "log"
  /\ records' = records \cup {<<op[h].row, "none">>}
  /\ Goto(h, "done")
  /\ UNCHANGED <<createVars, rowVars, job, invited, withdrawn, unanswered, answered,
                 handlerVars, mirrorVars>>

-----------------------------------------------------------------------------
\* A query of a create or a handler throws, or the process stops.
Fail(x) ==
  /\ x \in InFlight
  /\ Goto(x, "failed")
  /\ excused' = excused \cup IF x \in Creates THEN RowsOf(x) ELSE {op[x].row}
  /\ UNCHANGED <<createVars, rowVars, icmVars, handlerVars, mirror, writes>>

\* The set of a child lands, or is lost and logged.  Writes of different
\* instances land in any order.
WriteLands(w) ==
  /\ w \in writes
  /\ writes' = writes \ {w}
  /\ mirror' = [mirror EXCEPT ![w[1]] = w[2]]
  /\ UNCHANGED <<pc, createVars, rowVars, icmVars, handlerVars, excused>>

WriteLost(w) ==
  /\ w \in writes
  /\ writes' = writes \ {w}
  /\ excused' = excused \cup {w[1]}
  /\ UNCHANGED <<pc, createVars, rowVars, icmVars, handlerVars, mirror>>

CreateStep(c) ==
  RejectEvent(c) \/ ValidatePermanent(c) \/ InsertRows(c) \/ FindRequester(c)

JobStep(c) ==
  FindLot(c) \/ CreateInvitation(c) \/ RecordInvitation(c) \/ FlagDelivered(c)

HandlerStep(h) ==
  \/ UpdateRow(h)
  \/ MirrorRow(h)
  \/ FindRecord(h)
  \/ WithdrawInvitation(h)
  \/ RecordWithdrawal(h)

Next ==
  \/ \E c \in Creates : CreateStep(c) \/ JobStep(c) \/ JobFails(c)
  \/ \E h \in Handlers : (\E o \in Ops : Begin(h, o)) \/ HandlerStep(h)
  \/ \E x \in Creates \cup Handlers : Fail(x)
  \/ \E w \in writes : WriteLands(w) \/ WriteLost(w)

Spec == Init /\ [][Next]_vars
-----------------------------------------------------------------------------
TypeOK ==
  /\ pc \in [Creates \cup Handlers ->
              {"idle", "insert", "requester", "update", "alert", "icm",
               "withdraw", "log"} \cup Ended]
  /\ copies \subseteq Creates
  /\ lotKnown \subseteq Creates
  /\ mirrored \in BOOLEAN
  /\ saw \in [Creates -> SUBSET Rows]
  /\ state \in [Rows -> States \cup {NULL}]
  /\ isDelivery \subseteq Written
  /\ type \in {"delivery", "guest"}
  /\ job \in [Creates -> {"off", "lot", "call", "record", "unknown", "flag",
                          "ended", "unsent", "failed"} \X (1..Days)]
  /\ records \subseteq Written \X {"reference", "none"}
  /\ invited \subseteq Written
  /\ op \in [Handlers -> Ops \cup {NULL}]
  /\ notices \subseteq Handlers
  /\ referenced \subseteq notices
  /\ withdrawn \in [Rows -> SUBSET Handlers]
  /\ unanswered \subseteq Handlers
  /\ answered \subseteq Written
  /\ unflagged \subseteq Handlers
  /\ unsent \subseteq Handlers
  /\ mirror \in [Rows -> States \cup {NULL}]
  /\ writes \subseteq Written \X States
  /\ excused \subseteq Rows

\* Two creates leave the visitor with two events in state Emitido for the same
\* moment only if neither check saw the other's rows, or if a later request
\* put one of the two back in that state.
DuplicateOnlyByRace ==
  \A c, d \in Duplicates : (c # d /\ c \notin copies /\ d \notin copies) =>
    \/ <<c, 1>> \notin saw[d] /\ <<d, 1>> \notin saw[c]
    \/ \E h \in Handlers : /\ op[h] # NULL /\ pc[h] # "update"
                          /\ op[h].row \in {<<c, 1>>, <<d, 1>>}
                          /\ Target(op[h]) = "Emitido"

\* An invitation that was taken back is not made again.
WithdrawnStaysWithdrawn ==
  \A r \in invited : withdrawn[r] = {}

\* The first cancellation of a delivery ends its notice at ICM, if it updated
\* the row after the job was over, if ICM had given the notice a reference, and
\* if ICM answers: the update reads the flag the job wrote for all its rows, and
\* the record it picks is the one with the reference.
DeliveryCancelWithdraws ==
  \A h \in Handlers :
    (/\ type = "delivery"
     /\ pc[h] = "done" /\ Withdraws(op[h]) /\ h \notin unanswered
     /\ h \notin unflagged /\ op[h].row \in answered
     /\ \A g \in Handlers \ {h} : op[g] # NULL => op[g].row # op[h].row)
      => op[h].row \notin invited

\* The cancellation of a guest ends the invitation, whatever ICM answered to
\* the call that made it, if it updated the row before the job was over, called
\* ICM after the job had, and ICM answers.  Later the flag sends the
\* cancellation the way of a delivery, earlier there is nothing to end.
GuestCancelWithdraws ==
  \A h \in Handlers :
    (/\ type = "guest"
     /\ pc[h] = "done" /\ Withdraws(op[h]) /\ h \notin unanswered
     /\ h \in unflagged /\ h \notin unsent)
      => op[h].row \notin invited

\* Once nothing of a row is under way Firebase shows the row's state, unless
\* two requests on it overlapped, one broke off, the write was lost or
\* cancelEvent, which does not write to Firebase, ran.  A row of another day
\* shows up with its first change.
MirrorAgrees ==
  mirrored => \A r \in Written \ excused : ~Busy(r) =>
    \/ mirror[r] = state[r]
    \/ mirror[r] = NULL /\ r[2] # Today /\ state[r] = "Emitido"
=============================================================================
