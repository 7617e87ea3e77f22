------------------------- MODULE ReservationBooking -------------------------
(***************************************************************************)
(* ReservationService.create: what one POST reservations handler reads,    *)
(* decides and writes, one action per await, with any number of handlers   *)
(* interleaving at their awaits.  The service opens no transaction and the *)
(* table has no unique key on the slot, so every check is a read that may  *)
(* be stale when the row is written.                                       *)
(*                                                                         *)
(* A request is named by a member of Requests, and the row it inserts by   *)
(* the same name.  One customer is modelled: every query of create filters *)
(* by the customer's id or by ids that belong to it.                       *)
(***************************************************************************)
EXTENDS Integers, FiniteSets

CONSTANTS
  Requests,        \* POST requests, and the rows they insert
  Persons,         \* people known to the customer
  Accounts,        \* those with an app account (a User row)
  Listed,          \* those on the customer's list (an AuthorizedUser row)
  Bodies,          \* the request bodies a client may send
  Modes,           \* reservation modes
  ModeRule,        \* mode -> [allRequired, maxPeople, maxPerMonth]
  Types,           \* reservation types
  TypeRule,        \* type -> [simultaneous, pendingPerLot, numberOfPending]
  Spaces,          \* reservation spaces
  EventSpaces,     \* those with an eventTypeId
  LockedSlots,     \* <<space, from, to>> hit by an active reservation lock
  LotOf,           \* person -> lot
  ExtraLots,       \* person -> the person's additional lots
  MaxAnticipation, \* the largest `days` over the customer's types
  MonthLength,     \* how many time units make a calendar month
  MaxInFlight,     \* bound: handlers between their first and last await
  MaxNow,          \* bound: the clock
  NULL             \* what the code leaves null or undefined

UserId(p) == <<"user", p>>
AuthorizedId(p) == <<"authorized", p>>
UserIds == {UserId(p) : p \in Accounts}
AuthorizedIds == {AuthorizedId(p) : p \in Listed}
Ids == UserIds \cup AuthorizedIds

\* The ids a person's rows carry when both records exist.
PersonIds(p) == {i \in Ids : i[2] = p}

BodyShape ==
  [named : Ids \cup {NULL},  \* userId or authorizedUserId; NULL is noUser
   logged : Accounts,        \* the JWT's user
   guests : SUBSET (SUBSET Ids \ {{}}), \* participants that carry an id
   outsiders : Nat,          \* participants that carry a name only
   space : Spaces, mode : Modes, type : Types,
   dateFrom : Nat, dateTo : Nat]

ASSUME RequestsAssumption == IsFiniteSet(Requests)

ASSUME PeopleAssumption ==
  /\ Accounts \subseteq Persons
  /\ Listed \subseteq Persons
  /\ IsFiniteSet(Persons)
  /\ NULL \notin Persons \cup Ids
  /\ \A p \in Persons : IsFiniteSet(ExtraLots[p])

ASSUME RulesAssumption ==
  /\ \A m \in Modes : /\ ModeRule[m].allRequired \in BOOLEAN
                      /\ ModeRule[m].maxPeople \in Nat
                      /\ ModeRule[m].maxPerMonth \in Nat
  /\ \A t \in Types : /\ TypeRule[t].simultaneous \in BOOLEAN
                      /\ TypeRule[t].pendingPerLot \in BOOLEAN
                      /\ TypeRule[t].numberOfPending \in Nat
  /\ EventSpaces \subseteq Spaces

ASSUME BodiesAssumption ==
  /\ Bodies \subseteq BodyShape
  /\ NULL \notin Bodies
  /\ \A b \in Bodies : IsFiniteSet(b.guests)

ASSUME BoundsAssumption ==
  /\ MaxAnticipation \in Nat
  /\ MonthLength \in Nat \ {0}
  /\ MaxInFlight \in Nat
  /\ MaxNow \in Nat
  /\ NULL \notin Nat

VARIABLES
  pc,         \* pc[q]: the await at which the handler of q is
  body,       \* body[q]: the body the client sent
  rows,       \* reservations in the table
  cancelled,  \* those whose cancelDate is set
  events,     \* reservations whose event row exists
  savedAt,    \* savedAt[q]: createdAt of q's ReservationGuests rows
  found,      \* found[q]: the ids validateDate read from the guest table
  seen,       \* history: the rows validateTime read for q
  beside,     \* history: who was past validateTime with no row when q ran it
  now         \* the clock

vars == <<pc, body, rows, cancelled, events, savedAt, found, seen, beside, now>>
tables == <<rows, cancelled, events, savedAt>>

Phases == {"idle", "lookup", "time", "guestIds", "dates", "pending", "mode",
           "insert", "event", "guests", "done", "rejected", "failed"}
Ended == {"done", "rejected", "failed"}
InFlight == {q \in Requests : pc[q] \notin {"idle"} \cup Ended}

\* The phases of a handler that validateTime has let through and that has not
\* inserted its row.
Admitted == {"guestIds", "dates", "pending", "mode", "insert"}

active == rows \ cancelled

-----------------------------------------------------------------------------
(* What create derives from a body before its first check *)

\* setData: the dates are swapped when they come in the wrong order.
FromDate(b) == IF b.dateFrom < b.dateTo THEN b.dateFrom ELSE b.dateTo
ToDate(b)   == IF b.dateFrom < b.dateTo THEN b.dateTo ELSE b.dateFrom
Month(b)    == FromDate(b) \div MonthLength

\* The list entry create finds from authorizedUserId, or from userId's user.
AuthorizedUser(b) ==
  IF b.named # NULL /\ b.named[2] \in Listed THEN b.named[2] ELSE NULL

\* setUserId: without a list entry the reservation belongs to the JWT's user,
\* whatever userId said.
OwnerPerson(b) ==
  IF b.named = NULL THEN NULL
  ELSE IF AuthorizedUser(b) # NULL THEN AuthorizedUser(b)
  ELSE b.logged

OwnerIds(b) == IF OwnerPerson(b) = NULL THEN {} ELSE PersonIds(OwnerPerson(b))
Lot(b) == IF OwnerPerson(b) = NULL THEN NULL ELSE LotOf[OwnerPerson(b)]

\* setParticipants: the guest rows' ids.  Without participants the party is
\* the named person alone.
Party(b) ==
  IF b.guests # {} \/ b.outsiders > 0 THEN b.guests
  ELSE IF b.named = NULL THEN {}
  ELSE IF b.named \in UserIds THEN {PersonIds(b.named[2])}
  ELSE {{b.named}}

NumberOfGuests(b) ==
  IF b.guests # {} \/ b.outsiders > 0
  THEN Cardinality(b.guests) + b.outsiders
  ELSE IF b.named = NULL THEN 0 ELSE 1

-----------------------------------------------------------------------------
(* The queries and decisions of the checks *)

\* The rows validateTime reads: same space, same fromDate, not cancelled.
SameSlot(b, c) == b.space = c.space /\ FromDate(b) = FromDate(c)
SlotRows(b) == {r \in active : SameSlot(body[r], b)}

\* validateTime's verdict once it has taken `first` for its mode.  Every row
\* of that mode is counted with the first row's number of guests.
AdmitsIgnoringMode(first, b) ==  \* mutant: the mode is not compared
  ~ModeRule[first.mode].allRequired
Admits(first, b) ==
  /\ first.mode = b.mode
  /\ ~ModeRule[first.mode].allRequired
  /\ Cardinality({r \in SlotRows(b) : body[r].mode = b.mode})
       * NumberOfGuests(first) + NumberOfGuests(b) <= ModeRule[first.mode].maxPeople

\* The ids validateDate starts from.  A participant with both ids gives only
\* the user's.
PartyUserIds(b) ==
  (OwnerIds(b) \cup UNION Party(b)) \cap UserIds
PartyAuthorizedIds(b) ==
  (OwnerIds(b) \cup UNION {g \in Party(b) : g \cap UserIds = {}}) \cap AuthorizedIds

\* findUsers: the accounts whose username is the list entry's.
FindUsers(authorizedIds) ==
  {UserId(p) : p \in {p \in Accounts \cap Listed : AuthorizedId(p) \in authorizedIds}}

\* findAuthorizedUsers: meant for the list entries of the users, but it looks
\* the AuthorizedUser ids up in the User table.
FindAuthorizedUsers(userIds, authorizedIds) ==
  {AuthorizedId(p) : p \in {p \in Accounts \cap Listed : UserId(p) \in authorizedIds}}

SearchedIds(b) ==
  LET userIds == PartyUserIds(b)
      authorizedIds == PartyAuthorizedIds(b)
  IN  FindAuthorizedUsers(userIds, authorizedIds) \cup FindUsers(authorizedIds)
        \cup authorizedIds \cup userIds

\* The reservations with a recent enough guest row of one of the ids.
GuestOf(b) ==
  {r \in rows : /\ savedAt[r] # NULL
                /\ savedAt[r] >= now - MaxAnticipation
                /\ \E g \in Party(body[r]) : g \cap SearchedIds(b) # {}}

\* validateDate's comparison of the new dates with an existing row's.
CollidesWithoutEqual(f, t, rf, rt) ==  \* mutant: same dates are let through
  \/ f < rf /\ t > rf
  \/ f < rt /\ t > rt
  \/ f > rf /\ t < rt
Collides(f, t, rf, rt) ==
  \/ f < rf /\ t > rf
  \/ f < rt /\ t > rt
  \/ f > rf /\ t < rt
  \/ f = rf /\ t = rt
  \/ f < rf /\ t > rt

\* b is turned away because of the existing reservation with body c.
DateTaken(b, c) ==
  /\ ~TypeRule[c.type].simultaneous
  /\ Collides(FromDate(b), ToDate(b), FromDate(c), ToDate(c))

\* validatePendingReservations: the rows it counts, and how many it allows.
PendingOfLot(lot, type) ==
  {r \in active : /\ Lot(body[r]) = lot
                  /\ body[r].type = type
                  /\ ToDate(body[r]) >= now}
PendingOfUser(b) ==
  {r \in active : /\ OwnerIds(body[r]) \cap OwnerIds(b) # {}
                  /\ body[r].type = b.type
                  /\ ToDate(body[r]) >= now}
LotQuota(person, type) ==
  (TypeRule[type].numberOfPending + 1) * (Cardinality(ExtraLots[person]) + 1)

LotAdmitsOffByOne(b) ==  \* mutant: <= as in the check per user
  LET count == Cardinality(PendingOfLot(Lot(b), b.type))
  IN  count = 0 \/ count <= LotQuota(AuthorizedUser(b), b.type)
LotAdmits(b) ==
  LET count == Cardinality(PendingOfLot(Lot(b), b.type))
  IN  count = 0 \/ count < LotQuota(AuthorizedUser(b), b.type)
UserAdmits(b) ==
  LET count == Cardinality(PendingOfUser(b))
  IN  count = 0 \/ count <= TypeRule[b.type].numberOfPending

\* validateMode: the rows of the mode in the month of the new one.
MonthRows(mode, month) ==
  {r \in active : body[r].mode = mode /\ Month(body[r]) = month}
ModeAdmitsOffByOne(b) ==  \* mutant
  ModeRule[b.mode].maxPerMonth # 0 =>
    Cardinality(MonthRows(b.mode, Month(b))) <= ModeRule[b.mode].maxPerMonth
ModeAdmits(b) ==
  ModeRule[b.mode].maxPerMonth # 0 =>
    Cardinality(MonthRows(b.mode, Month(b))) < ModeRule[b.mode].maxPerMonth

-----------------------------------------------------------------------------
Init ==
  /\ pc = [q \in Requests |-> "idle"]
  /\ body = [q \in Requests |-> NULL]
  /\ rows = {}
  /\ cancelled = {}
  /\ events = {}
  /\ savedAt = [q \in Requests |-> NULL]
  /\ found = [q \in Requests |-> {}]
  /\ seen = [q \in Requests |-> {}]
  /\ beside = [q \in Requests |-> {}]
  /\ now = 0

Goto(q, phase) == pc' = [pc EXCEPT ![q] = phase]

\* The request arrives.
Begin(q, b) ==
  /\ pc[q] = "idle"
  /\ Cardinality(InFlight) < MaxInFlight
  /\ Goto(q, "lookup")
  /\ body' = [body EXCEPT ![q] = b]
  /\ UNCHANGED <<tables, found, seen, beside, now>>

\* A lookup finds nothing, a participant does not exist or the user is not
\* active: the handler throws before it has written anything.
RejectLookUp(q) ==
  /\ pc[q] = "lookup"
  /\ Goto(q, "rejected")
  /\ UNCHANGED <<body, tables, found, seen, beside, now>>

\* The lookups succeed and validateLock compares the slot with the locks.
ValidateLock(q) ==
  /\ pc[q] = "lookup"
  /\ LET b == body[q]
     IN  Goto(q, IF <<b.space, FromDate(b), ToDate(b)>> \in LockedSlots
                 THEN "rejected" ELSE "time")
  /\ UNCHANGED <<body, tables, found, seen, beside, now>>

\* The query has no orderBy: any matching row can come first.
ValidateTime(q) ==
  /\ pc[q] = "time"
  /\ LET b == body[q]
     IN  /\ seen' = [seen EXCEPT ![q] = SlotRows(b)]
         /\ beside' = [beside EXCEPT ![q] = {p \in Requests : pc[p] \in Admitted}]
         /\ \/ /\ SlotRows(b) = {}
               /\ Goto(q, "guestIds")
            \/ \E r \in SlotRows(b) :
                 Goto(q, IF Admits(body[r], b) THEN "guestIds" ELSE "rejected")
  /\ UNCHANGED <<body, tables, found, now>>

\* validateDate, first half: the reservation ids in the guest table.
FindGuests(q) ==
  /\ pc[q] = "guestIds"
  /\ IF TypeRule[body[q].type].simultaneous
     THEN Goto(q, "pending") /\ UNCHANGED found
     ELSE Goto(q, "dates") /\ found' = [found EXCEPT ![q] = GuestOf(body[q])]
  /\ UNCHANGED <<body, tables, seen, beside, now>>

\* validateDate, second half: those reservations are read again.
ValidateDate(q) ==
  /\ pc[q] = "dates"
  /\ Goto(q, IF \E r \in found[q] \cap active : DateTaken(body[q], body[r])
             THEN "rejected" ELSE "pending")
  /\ UNCHANGED <<body, tables, found, seen, beside, now>>

\* Skipped when the body leads to no list entry.
ValidatePending(q) ==
  /\ pc[q] = "pending"
  /\ LET b == body[q]
         ok == \/ AuthorizedUser(b) = NULL
               \/ TypeRule[b.type].pendingPerLot /\ LotAdmits(b)
               \/ ~TypeRule[b.type].pendingPerLot /\ UserAdmits(b)
     IN  Goto(q, IF ok THEN "mode" ELSE "rejected")
  /\ UNCHANGED <<body, tables, found, seen, beside, now>>

ValidateMode(q) ==
  /\ pc[q] = "mode"
  /\ Goto(q, IF ModeAdmits(body[q]) THEN "insert" ELSE "rejected")
  /\ UNCHANGED <<body, tables, found, seen, beside, now>>

Insert(q) ==
  /\ pc[q] = "insert"
  /\ rows' = rows \cup {q}
  /\ Goto(q, "event")
  /\ UNCHANGED <<body, cancelled, events, savedAt, found, seen, beside, now>>

\* Only for a space with an event type and a reservation that has a user.
CreateEvent(q) ==
  /\ pc[q] = "event"
  /\ events' = IF body[q].space \in EventSpaces /\ OwnerIds(body[q]) \cap UserIds # {}
               THEN events \cup {q} ELSE events
  /\ Goto(q, "guests")
  /\ UNCHANGED <<body, rows, cancelled, savedAt, found, seen, beside, now>>

SaveAccountsOnly(q) ==  \* mutant: guests without an account are left out
  /\ pc[q] = "guests"
  /\ savedAt' = IF PartyUserIds(body[q]) # {} THEN [savedAt EXCEPT ![q] = now] ELSE savedAt
  /\ Goto(q, "done")
  /\ UNCHANGED <<body, rows, cancelled, events, found, seen, beside, now>>
SaveParticipants(q) ==
  /\ pc[q] = "guests"
  /\ savedAt' = IF NumberOfGuests(body[q]) > 0 THEN [savedAt EXCEPT ![q] = now] ELSE savedAt
  /\ Goto(q, "done")
  /\ UNCHANGED <<body, rows, cancelled, events, found, seen, beside, now>>

\* A query throws or the process stops: what was written stays written.
Fail(q) ==
  /\ q \in InFlight
  /\ Goto(q, "failed")
  /\ UNCHANGED <<body, tables, found, seen, beside, now>>

\* Any of the cancel handlers sets cancelDate; nothing ever clears it.
Cancel(r) ==
  /\ r \in active
  /\ cancelled' = cancelled \cup {r}
  /\ UNCHANGED <<pc, body, rows, events, savedAt, found, seen, beside, now>>

Tick ==
  /\ now < MaxNow
  /\ now' = now + 1
  /\ UNCHANGED <<pc, body, tables, found, seen, beside>>

Step(q) ==
  \/ RejectLookUp(q)
  \/ ValidateLock(q)
  \/ ValidateTime(q)
  \/ FindGuests(q)
  \/ ValidateDate(q)
  \/ ValidatePending(q)
  \/ ValidateMode(q)
  \/ Insert(q)
  \/ CreateEvent(q)
  \/ SaveParticipants(q)

Next ==
  \/ \E q \in Requests : \/ \E b \in Bodies : Begin(q, b)
                         \/ Step(q)
                         \/ Fail(q)
                         \/ Cancel(q)
  \/ Tick

Spec == Init /\ [][Next]_vars

-----------------------------------------------------------------------------
TypeOK ==
  /\ pc \in [Requests -> Phases]
  /\ body \in [Requests -> Bodies \cup {NULL}]
  /\ \A q \in Requests : pc[q] # "idle" => body[q] \in Bodies
  /\ rows \subseteq Requests
  /\ cancelled \subseteq rows
  /\ events \subseteq rows
  /\ savedAt \in [Requests -> Nat \cup {NULL}]
  /\ found \in [Requests -> SUBSET rows]
  /\ seen \in [Requests -> SUBSET rows]
  /\ beside \in [Requests -> SUBSET Requests]
  /\ now \in Nat

Overlap(b, c) == FromDate(b) < ToDate(c) /\ FromDate(c) < ToDate(b)
Exclusive(b) == ~TypeRule[b.type].simultaneous

\* b lies within c and shares its start or its end, not both.
InsideSharingOneEnd(b, c) ==
  \/ FromDate(b) = FromDate(c) /\ ToDate(b) < ToDate(c)
  \/ FromDate(b) > FromDate(c) /\ ToDate(b) = ToDate(c)

\* Two reservations of one space and start that the code's own comment
\* (validateTime) rules out: different modes, or a mode that takes the whole
\* space.
Clash(r1, r2) ==
  /\ r1 # r2
  /\ SameSlot(body[r1], body[r2])
  /\ body[r1].mode = body[r2].mode => ModeRule[body[r1].mode].allRequired

\* Both handlers passed validateTime before either inserted its row.
Raced(r1, r2) == r1 \in beside[r2] \/ r2 \in beside[r1]

\* The slot already held a clash when q's validateTime read it, and some clash
\* of that slot is of two handlers that raced.
SlotWasBroken(q) ==
  /\ \E s1, s2 \in seen[q] : Clash(s1, s2)
  /\ \E s1, s2 \in rows : /\ Clash(s1, s2)
                          /\ SameSlot(body[s1], body[q])
                          /\ Raced(s1, s2)

\* Two reservations that stand and clash are of two handlers that passed
\* validateTime before either had inserted; or one of the two was let into a
\* slot where two others clashed already, and that goes back to such a race.
SlotClashOnlyByRace ==
  \A r1, r2 \in active : Clash(r1, r2) =>
    Raced(r1, r2) \/ SlotWasBroken(r1) \/ SlotWasBroken(r2)

\* validateTime's comment: "no puede haber dos reservas de distinta modalidad
\* en el mismo espacio a la misma hora", nor two when all participants are
\* required.  Holds when handlers do not overlap.
SlotExclusive == \A r1, r2 \in active : ~Clash(r1, r2)

\* validateTime's comment: reservations of a shared mode fit the space
\* together.
SharedSlotCapacity ==
  \A r1, r2 \in active :
    (r1 # r2 /\ SameSlot(body[r1], body[r2]) /\ body[r1].mode = body[r2].mode) =>
      LET together == {r \in SlotRows(body[r1]) : body[r].mode = body[r1].mode}
          total[S \in SUBSET together] ==
            IF S = {} THEN 0
            ELSE LET r == CHOOSE r \in S : TRUE
                 IN  NumberOfGuests(body[r]) + total[S \ {r}]
      IN  total[together] <= ModeRule[body[r1].mode].maxPeople

\* maxPerMonth is exceeded by at most the handlers that can overlap: with one
\* at a time the quota is exact.
MonthlyQuota ==
  \A m \in Modes : ModeRule[m].maxPerMonth # 0 =>
    \A r \in rows :
      Cardinality(MonthRows(m, Month(body[r])))
        <= ModeRule[m].maxPerMonth + MaxInFlight - 1

\* No admitted reservation overlaps one that its own search found and that is
\* still active, however long ago the search ran, except for the one case the
\* five comparisons of validateDate miss.
FoundRowsRespected ==
  \A q \in rows : \A r \in found[q] \cap active :
    (Exclusive(body[r]) /\ Overlap(body[q], body[r])) => InsideSharingOneEnd(body[q], body[r])

\* The guest rows and the event of a reservation are missing only while its
\* handler is between the insert and its last write, or if it failed there.
RecordsComplete ==
  \A q \in rows :
    \/ pc[q] \in {"event", "guests", "failed"}
    \/ /\ savedAt[q] # NULL \/ NumberOfGuests(body[q]) = 0
       /\ \/ q \in events
          \/ body[q].space \notin EventSpaces
          \/ OwnerIds(body[q]) \cap UserIds = {}

\* The pending quota of a lot or of a listed person is exceeded by at most the
\* handlers that can overlap.  Per lot the count has to be below the quota, per
\* person it may equal numberOfPending, so one more fits.
PendingQuota ==
  \A t \in Types :
    IF TypeRule[t].pendingPerLot
    THEN \A p \in Listed : \E resident \in Listed :
           /\ LotOf[resident] = LotOf[p]
           /\ Cardinality({r \in PendingOfLot(LotOf[p], t) : AuthorizedUser(body[r]) # NULL})
                <= LotQuota(resident, t) + MaxInFlight - 1
    ELSE \A p \in Listed :
           Cardinality({r \in active : /\ AuthorizedUser(body[r]) = p
                                       /\ body[r].type = t
                                       /\ ToDate(body[r]) >= now})
             <= TypeRule[t].numberOfPending + MaxInFlight

\* Each quota is counted before the insert, so it is off by the handlers that
\* count while others are yet to insert, and by no more.
QuotasHold == MonthlyQuota /\ PendingQuota

-----------------------------------------------------------------------------
(* What a comment of validateDate says, and the code does not do even when    *)
(* handlers never overlap                                                     *)

PartyPeople(b) == {i[2] : i \in UNION Party(b)}

\* "Si alguno de los invitados esta como invitado de otra reserva a la misma
\* hora, entonces no puede reservar", whichever of the guest's two ids the
\* bodies used.
GuestNotDoubleBooked ==
  \A r1, r2 \in active :
    (/\ r1 # r2 /\ Exclusive(body[r1]) /\ Exclusive(body[r2])
     /\ PartyPeople(body[r1]) \cap PartyPeople(body[r2]) # {})
      => ~Overlap(body[r1], body[r2])

-----------------------------------------------------------------------------
(* What create promises when handlers do not overlap *)

\* A request's place on the board: its slot and mode once its row is written,
\* held until the row is cancelled.
Booking(q) ==
  IF q \in rows
  THEN [slot |-> <<body[q].space, FromDate(body[q])>>,
        mode |-> body[q].mode,
        held |-> q \notin cancelled]
  ELSE NULL

Board == INSTANCE SlotBoard
  WITH Slots <- {<<b.space, FromDate(b)>> : b \in Bodies},
       WholeModes <- {m \in Modes : ModeRule[m].allRequired},
       board <- [q \in Requests |-> Booking(q)]

\* NULL is no place on the board.
ASSUME BoardAssumption == NULL \notin Board!Bookings

\* One handler at a time, booking takes slots as the board does: the checks
\* and the insert of the code act as one step.
ImplementsBoard == Board!Spec
=============================================================================
