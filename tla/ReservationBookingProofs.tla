---------------------- MODULE ReservationBookingProofs ----------------------
(***************************************************************************)
(* Proofs about ReservationBooking, for any number of requests, people,    *)
(* spaces, modes, bodies and overlapping handlers.                         *)
(***************************************************************************)
EXTENDS ReservationBooking, FiniteSetTheorems, TLAPS

Unwritten == {"idle", "lookup", "time", "guestIds", "dates", "pending", "mode", "insert"}
Written == {"event", "guests", "done"}

\* A request's row is in the table from its insert on.
RowsFollowPhases ==
  \A q \in Requests : /\ pc[q] \in Unwritten => q \notin rows
                      /\ pc[q] \in Written => q \in rows

TypeInv == TypeOK /\ RowsFollowPhases

\* The tables are empty and every handler idle at the start.
LEMMA TypeInit == Init => TypeInv
BY DEF Init, TypeInv, TypeOK, RowsFollowPhases, Phases, Unwritten, Written

\* Every step keeps the types, and the row of a handler in the phase it is in.
LEMMA TypeNext == TypeInv /\ [Next]_vars => TypeInv'
<1> SUFFICES ASSUME TypeInv, [Next]_vars
             PROVE  TypeInv'
  OBVIOUS
<1> USE DEF TypeInv, TypeOK, RowsFollowPhases, Phases, Unwritten, Written, tables, Goto
<1>1. ASSUME NEW q \in Requests, NEW b \in Bodies, Begin(q, b)
      PROVE  TypeInv'
  BY <1>1 DEF Begin
<1>2. ASSUME NEW q \in Requests, RejectLookUp(q)
      PROVE  TypeInv'
  BY <1>2 DEF RejectLookUp
<1>3. ASSUME NEW q \in Requests, ValidateLock(q)
      PROVE  TypeInv'
  BY <1>3 DEF ValidateLock
<1>4. ASSUME NEW q \in Requests, ValidateTime(q)
      PROVE  TypeInv'
  BY <1>4 DEF ValidateTime, SlotRows, active
<1>5. ASSUME NEW q \in Requests, FindGuests(q)
      PROVE  TypeInv'
  BY <1>5 DEF FindGuests, GuestOf
<1>6. ASSUME NEW q \in Requests, ValidateDate(q)
      PROVE  TypeInv'
  BY <1>6 DEF ValidateDate
<1>7. ASSUME NEW q \in Requests, ValidatePending(q)
      PROVE  TypeInv'
  BY <1>7 DEF ValidatePending
<1>8. ASSUME NEW q \in Requests, ValidateMode(q)
      PROVE  TypeInv'
  BY <1>8 DEF ValidateMode
<1>9. ASSUME NEW q \in Requests, Insert(q)
      PROVE  TypeInv'
  BY <1>9 DEF Insert
<1>10. ASSUME NEW q \in Requests, CreateEvent(q)
       PROVE  TypeInv'
  BY <1>10 DEF CreateEvent
<1>11. ASSUME NEW q \in Requests, SaveParticipants(q)
       PROVE  TypeInv'
  BY <1>11 DEF SaveParticipants
<1>12. ASSUME NEW q \in Requests, Fail(q)
       PROVE  TypeInv'
  BY <1>12 DEF Fail, InFlight, Ended
<1>13. ASSUME NEW q \in Requests, Cancel(q)
       PROVE  TypeInv'
  BY <1>13 DEF Cancel, active
<1>14. CASE Tick
  BY <1>14 DEF Tick
<1>15. CASE UNCHANGED vars
  BY <1>15 DEF vars
<1>16. QED
  BY <1>1, <1>2, <1>3, <1>4, <1>5, <1>6, <1>7, <1>8, <1>9, <1>10, <1>11,
     <1>12, <1>13, <1>14, <1>15 DEF Next, Step

\* TypeOK holds in every reachable state: the tables only hold rows of the
\* requests, an event only for a row that exists.
THEOREM TypeCorrect == Spec => []TypeOK
<1>1. TypeInv => TypeOK
  BY DEF TypeInv
<1>2. QED
  BY TypeInit, TypeNext, <1>1, PTL DEF Spec

-----------------------------------------------------------------------------
(* Clashing reservations go back to a race *)

\* Two handlers past validateTime and without their rows have raced.
WindowRaced ==
  \A p, q \in Requests :
    (p # q /\ pc[p] \in Admitted /\ pc[q] \in Admitted) => Raced(p, q)

\* A handler past validateTime has seen each row of its slot that stands, or
\* raced with it.
RowsSeen ==
  \A q \in Requests : pc[q] \in Admitted =>
    \A r \in active : SameSlot(body[r], body[q]) => r \in seen[q] \/ Raced(r, q)

\* So for two rows of a slot that stand: one was seen by the other's handler.
PairsSeen ==
  \A r1, r2 \in active : (r1 # r2 /\ SameSlot(body[r1], body[r2])) =>
    r1 \in seen[r2] \/ r2 \in seen[r1] \/ Raced(r1, r2)

\* A handler that saw a row it clashes with was let through by another row of
\* the slot, one that clashes with the row it saw.
LetThrough ==
  \A q \in Requests : (pc[q] \in Admitted \/ q \in rows) =>
    \A r \in seen[q] : Clash(r, q) => SlotWasBroken(q)

RaceParts == WindowRaced /\ RowsSeen /\ PairsSeen /\ LetThrough
RaceInv == TypeInv /\ RaceParts

\* Whether two requests clash does not depend on who comes first.
LEMMA ClashSymmetric ==
  ASSUME NEW r, NEW s, Clash(r, s)
  PROVE  Clash(s, r) /\ SameSlot(body[s], body[r])
BY DEF Clash, SameSlot

\* The parts together: a standing clash is raced, or one of the two handlers
\* saw the other's row and found the slot broken.
LEMMA RaceImplies == RaceInv => SlotClashOnlyByRace
<1> SUFFICES ASSUME RaceInv, NEW r1 \in active, NEW r2 \in active, Clash(r1, r2)
             PROVE  Raced(r1, r2) \/ SlotWasBroken(r1) \/ SlotWasBroken(r2)
  BY DEF SlotClashOnlyByRace
<1>1. r1 # r2 /\ SameSlot(body[r1], body[r2]) /\ Clash(r2, r1)
  BY ClashSymmetric DEF Clash
<1>2. r1 \in rows /\ r2 \in rows /\ rows \subseteq Requests
  BY DEF active, RaceInv, TypeInv, TypeOK
<1>3. r1 \in seen[r2] \/ r2 \in seen[r1] \/ Raced(r1, r2)
  BY <1>1 DEF RaceInv, RaceParts, PairsSeen
<1>4. QED
  BY <1>1, <1>2, <1>3 DEF RaceInv, RaceParts, LetThrough

LEMMA RaceInit == Init => RaceInv
<1> SUFFICES ASSUME Init PROVE RaceParts
  BY TypeInit DEF RaceInv
<1> QED
  BY DEF Init, RaceParts, WindowRaced, RowsSeen, PairsSeen, LetThrough, Admitted, active

\* Nothing changes for a step that writes no row and lets no handler through
\* validateTime.
LEMMA RaceFrame ==
  ASSUME RaceInv, TypeInv', UNCHANGED <<body, rows, seen, beside>>,
         active' \subseteq active,
         \A q \in Requests : pc'[q] \in Admitted => pc[q] \in Admitted
  PROVE  RaceInv'
<1> USE DEF RaceInv, RaceParts
<1>1. WindowRaced'
  BY DEF WindowRaced, Raced
<1>2. RowsSeen' /\ PairsSeen'
  BY DEF RowsSeen, PairsSeen, Raced, SameSlot, FromDate
<1>3. LetThrough'
  BY DEF LetThrough, SlotWasBroken, Clash, SameSlot, FromDate, Raced
<1>4. QED
  BY <1>1, <1>2, <1>3

\* validateTime lets a handler through because of the first row it read, and
\* notes who else is past it.
LEMMA RaceValidateTime ==
  ASSUME RaceInv, TypeInv', NEW q \in Requests, ValidateTime(q)
  PROVE  RaceInv'
<1> USE DEF RaceInv, RaceParts
<1>1. /\ pc[q] = "time" /\ q \notin rows
      /\ UNCHANGED <<body, rows, cancelled>>
      /\ seen' = [seen EXCEPT ![q] = SlotRows(body[q])]
      /\ beside' = [beside EXCEPT ![q] = {p \in Requests : pc[p] \in Admitted}]
  BY DEF ValidateTime, TypeInv, RowsFollowPhases, Unwritten, tables
<1>2. /\ \A p \in Requests : p # q => pc'[p] = pc[p]
      /\ pc[q] \notin Admitted
  BY <1>1 DEF ValidateTime, Goto, TypeInv, TypeOK, Admitted
<1>3. /\ seen'[q] = SlotRows(body[q])
      /\ beside'[q] = {p \in Requests : pc[p] \in Admitted}
      /\ \A p \in Requests : p # q => seen'[p] = seen[p] /\ beside'[p] = beside[p]
      /\ rows \subseteq Requests
      /\ \A p \in Requests : seen[p] \subseteq rows
  BY <1>1 DEF TypeInv, TypeOK
<1>4. active' = active /\ active \subseteq rows
  BY <1>1 DEF active
<1>5. \A r, s \in Requests : r # q /\ s # q => (Raced(r, s)' <=> Raced(r, s))
  BY <1>3 DEF Raced
<1>6. \A r, s : /\ Clash(r, s)' <=> Clash(r, s)
                /\ SameSlot(body[r], body[s])' <=> SameSlot(body[r], body[s])
  BY <1>1 DEF Clash, SameSlot, FromDate
<1>7. WindowRaced'
  BY <1>2, <1>3, <1>5 DEF WindowRaced, Raced
<1>8. RowsSeen'
  <2> SUFFICES ASSUME NEW p \in Requests, pc'[p] \in Admitted,
                      NEW r \in active, SameSlot(body[r], body[p])
               PROVE  r \in seen'[p] \/ Raced(r, p)'
    BY <1>4, <1>6 DEF RowsSeen
  <2>1. CASE p = q
    BY <1>3, <2>1 DEF SlotRows
  <2>2. CASE p # q
    BY <1>1, <1>2, <1>3, <1>4, <1>5, <2>2 DEF RowsSeen
  <2>3. QED
    BY <2>1, <2>2
<1>9. PairsSeen'
  <2> SUFFICES ASSUME NEW r1 \in active, NEW r2 \in active, r1 # r2,
                      SameSlot(body[r1], body[r2])
               PROVE  r1 \in seen'[r2] \/ r2 \in seen'[r1] \/ Raced(r1, r2)'
    BY <1>4, <1>6 DEF PairsSeen
  <2>1. r1 \in Requests \ {q} /\ r2 \in Requests \ {q}
    BY <1>1, <1>3, <1>4
  <2>2. QED
    BY <1>3, <1>5, <2>1 DEF PairsSeen
<1>10. ASSUME NEW r \in SlotRows(body[q]), pc'[q] \in Admitted, Clash(r, q)
       PROVE  SlotWasBroken(q)'
  <2>1. PICK first \in SlotRows(body[q]) : Admits(body[first], body[q])
    BY <1>10 DEF ValidateTime, Goto, Admitted, TypeInv, TypeOK
  <2>2. /\ r \in active /\ first \in active
        /\ SameSlot(body[r], body[q]) /\ SameSlot(body[first], body[q])
    BY <1>10, <2>1 DEF SlotRows
  <2>3. /\ body[first].mode = body[q].mode
        /\ ~ModeRule[body[q].mode].allRequired
    BY <2>1 DEF Admits
  <2>4. body[r].mode # body[first].mode
    BY <1>10, <2>3 DEF Clash
  <2>5. Clash(first, r)
    BY <2>2, <2>4 DEF Clash, SameSlot
  <2>6. PICK s1, s2 \in rows : /\ Clash(s1, s2)
                               /\ SameSlot(body[s1], body[q])
                               /\ Raced(s1, s2)
    <3>1. CASE Raced(first, r)
      BY <1>4, <2>2, <2>5, <3>1
    <3>2. CASE SlotWasBroken(first) \/ SlotWasBroken(r)
      BY <2>2, <3>2 DEF SlotWasBroken, SameSlot
    <3>3. QED
      BY <2>2, <2>5, <3>1, <3>2, RaceImplies DEF SlotClashOnlyByRace
  <2>7. s1 \in Requests \ {q} /\ s2 \in Requests \ {q}
    BY <1>1, <1>3
  <2>8. Clash(s1, s2)' /\ SameSlot(body[s1], body[q])' /\ Raced(s1, s2)'
    BY <1>5, <1>6, <2>6, <2>7
  <2>9. Clash(first, r)' /\ first \in seen'[q] /\ r \in seen'[q]
    BY <1>3, <1>6, <1>10, <2>1, <2>5
  <2>10. QED
    BY <1>1, <2>6, <2>8, <2>9 DEF SlotWasBroken
<1>11. LetThrough'
  <2> SUFFICES ASSUME NEW p \in Requests, pc'[p] \in Admitted \/ p \in rows',
                      NEW r \in seen'[p], Clash(r, p)'
               PROVE  SlotWasBroken(p)'
    BY DEF LetThrough
  <2>1. CASE p = q
    BY <1>1, <1>3, <1>6, <1>10, <2>1
  <2>2. CASE p # q
    <3>1. SlotWasBroken(p)
      BY <1>1, <1>2, <1>3, <1>6, <2>2 DEF LetThrough
    <3>2. PICK s1, s2 \in seen[p] : Clash(s1, s2)
      BY <3>1 DEF SlotWasBroken
    <3>3. PICK t1, t2 \in rows : /\ Clash(t1, t2)
                                 /\ SameSlot(body[t1], body[p])
                                 /\ Raced(t1, t2)
      BY <3>1 DEF SlotWasBroken
    <3>4. Clash(t1, t2)' /\ SameSlot(body[t1], body[p])' /\ Raced(t1, t2)'
      BY <1>1, <1>3, <1>5, <1>6, <3>3
    <3>5. s1 \in seen'[p] /\ s2 \in seen'[p] /\ Clash(s1, s2)'
      BY <1>3, <1>6, <2>2, <3>2
    <3>6. QED
      BY <1>1, <3>3, <3>4, <3>5 DEF SlotWasBroken
  <2>3. QED
    BY <2>1, <2>2
<1>12. QED
  BY <1>7, <1>8, <1>9, <1>11

\* A slot that was broken for a request stays so as rows are added.
LEMMA BrokenStays ==
  ASSUME NEW q, SlotWasBroken(q), UNCHANGED <<body, seen, beside>>, rows \subseteq rows'
  PROVE  SlotWasBroken(q)'
<1>1. PICK s1, s2 \in seen[q] : Clash(s1, s2)
  BY DEF SlotWasBroken
<1>2. PICK t1, t2 \in rows : /\ Clash(t1, t2)
                             /\ SameSlot(body[t1], body[q])
                             /\ Raced(t1, t2)
  BY DEF SlotWasBroken
<1>3. Clash(s1, s2)' /\ s1 \in seen'[q] /\ s2 \in seen'[q]
  BY <1>1 DEF Clash, SameSlot, FromDate
<1>4. Clash(t1, t2)' /\ SameSlot(body[t1], body[q])' /\ Raced(t1, t2)'
  BY <1>2 DEF Clash, SameSlot, FromDate, Raced
<1>5. QED
  BY <1>2, <1>3, <1>4 DEF SlotWasBroken

\* The row written was seen by nobody: whoever is past validateTime has raced
\* with it, and so has each row of the slot its handler did not see.
LEMMA RaceInsert ==
  ASSUME RaceInv, TypeInv', NEW q \in Requests, Insert(q)
  PROVE  RaceInv'
<1> USE DEF RaceInv, RaceParts
<1>1. /\ pc[q] = "insert" /\ q \notin rows /\ rows' = rows \cup {q}
      /\ pc' = [pc EXCEPT ![q] = "event"]
      /\ UNCHANGED <<body, seen, beside, cancelled>>
  BY DEF Insert, Goto, TypeInv, RowsFollowPhases, Unwritten
<1>2. /\ active' \subseteq active \cup {q}
      /\ rows \subseteq Requests /\ active \subseteq rows
  BY <1>1 DEF active, TypeInv, TypeOK
<1>3. \A p \in Requests : pc'[p] \in Admitted => p # q /\ pc[p] \in Admitted
  BY <1>1 DEF Admitted, TypeInv, TypeOK
<1>4. \A r, s : Raced(r, s)' <=> Raced(r, s)
  BY <1>1 DEF Raced
<1>5. \A r, s : /\ Clash(r, s)' <=> Clash(r, s)
                /\ SameSlot(body[r], body[s])' <=> SameSlot(body[r], body[s])
  BY <1>1 DEF Clash, SameSlot, FromDate
<1>6. \A r, s : Raced(r, s) <=> Raced(s, r)
  BY DEF Raced
<1>7. pc[q] \in Admitted
  BY <1>1 DEF Admitted
<1>8. WindowRaced'
  BY <1>3, <1>4 DEF WindowRaced
<1>9. RowsSeen'
  <2> SUFFICES ASSUME NEW p \in Requests, pc'[p] \in Admitted,
                      NEW r \in active', SameSlot(body[r], body[p])
               PROVE  r \in seen[p] \/ Raced(r, p)
    BY <1>1, <1>4, <1>5 DEF RowsSeen
  <2>1. CASE r = q
    BY <1>3, <1>7, <2>1 DEF WindowRaced
  <2>2. CASE r \in active
    BY <1>3, <2>2 DEF RowsSeen
  <2>3. QED
    BY <1>2, <2>1, <2>2
<1>10. PairsSeen'
  <2> SUFFICES ASSUME NEW r1 \in active', NEW r2 \in active', r1 # r2,
                      SameSlot(body[r1], body[r2])
               PROVE  r1 \in seen[r2] \/ r2 \in seen[r1] \/ Raced(r1, r2)
    BY <1>1, <1>4, <1>5 DEF PairsSeen
  <2>1. SameSlot(body[r2], body[r1])
    BY DEF SameSlot
  <2>2. CASE r1 \in active /\ r2 \in active
    BY <2>2 DEF PairsSeen
  <2>3. CASE r1 = q /\ r2 \in active
    BY <1>6, <1>7, <2>1, <2>3 DEF RowsSeen
  <2>4. CASE r1 \in active /\ r2 = q
    BY <1>6, <1>7, <2>4 DEF RowsSeen
  <2>5. QED
    BY <1>2, <2>2, <2>3, <2>4
<1>11. LetThrough'
  <2> SUFFICES ASSUME NEW p \in Requests, pc'[p] \in Admitted \/ p \in rows',
                      NEW r \in seen'[p], Clash(r, p)'
               PROVE  SlotWasBroken(p)'
    BY DEF LetThrough
  <2>1. pc[p] \in Admitted \/ p \in rows
    BY <1>1, <1>3, <1>7
  <2>2. r \in seen[p] /\ Clash(r, p)
    BY <1>1, <1>5
  <2>3. SlotWasBroken(p)
    BY <2>1, <2>2 DEF LetThrough
  <2>4. QED
    BY <1>1, <2>3, BrokenStays
<1>12. QED
  BY <1>8, <1>9, <1>10, <1>11

LEMMA RaceBegin ==
  ASSUME RaceInv, TypeInv', NEW q \in Requests, NEW b \in Bodies, Begin(q, b)
  PROVE  RaceInv'
<1> USE DEF RaceInv, RaceParts
<1>1. /\ q \notin rows
      /\ UNCHANGED <<rows, cancelled, seen, beside>>
      /\ body' = [body EXCEPT ![q] = b]
      /\ pc' = [pc EXCEPT ![q] = "lookup"]
  BY DEF Begin, Goto, TypeInv, RowsFollowPhases, Unwritten, tables
<1>2. \A r \in Requests : r # q => body'[r] = body[r]
  BY <1>1 DEF TypeInv, TypeOK
<1>3. \A r, s \in Requests \ {q} : /\ Clash(r, s)' <=> Clash(r, s)
                                   /\ SameSlot(body[r], body[s])' <=> SameSlot(body[r], body[s])
  BY <1>2 DEF Clash, SameSlot, FromDate
<1>4. /\ rows \subseteq Requests \ {q}
      /\ \A p \in Requests : seen[p] \subseteq rows
      /\ active' = active /\ active \subseteq rows
  BY <1>1 DEF TypeInv, TypeOK, active
<1>5. \A p \in Requests : pc'[p] \in Admitted => p # q /\ pc[p] \in Admitted
  BY <1>1 DEF Admitted, TypeInv, TypeOK
<1>6. \A r, s : Raced(r, s)' <=> Raced(r, s)
  BY <1>1 DEF Raced
<1>7. WindowRaced'
  BY <1>5, <1>6 DEF WindowRaced
<1>8. RowsSeen'
  BY <1>1, <1>3, <1>4, <1>5, <1>6 DEF RowsSeen
<1>9. PairsSeen'
  BY <1>1, <1>3, <1>4, <1>6 DEF PairsSeen
<1>10. LetThrough'
  <2> SUFFICES ASSUME NEW p \in Requests, pc'[p] \in Admitted \/ p \in rows,
                      NEW r \in seen[p], Clash(r, p)'
               PROVE  SlotWasBroken(p)'
    BY <1>1 DEF LetThrough
  <2>1. p # q /\ (pc[p] \in Admitted \/ p \in rows)
    BY <1>4, <1>5
  <2>2. r \in Requests \ {q} /\ Clash(r, p)
    BY <1>3, <1>4, <2>1
  <2>3. SlotWasBroken(p)
    BY <2>1, <2>2 DEF LetThrough
  <2>4. PICK s1, s2 \in seen[p] : Clash(s1, s2)
    BY <2>3 DEF SlotWasBroken
  <2>5. PICK t1, t2 \in rows : /\ Clash(t1, t2)
                               /\ SameSlot(body[t1], body[p])
                               /\ Raced(t1, t2)
    BY <2>3 DEF SlotWasBroken
  <2>6. Clash(s1, s2)' /\ Clash(t1, t2)' /\ SameSlot(body[t1], body[p])'
    BY <1>3, <1>4, <2>1, <2>4, <2>5
  <2>7. QED
    BY <1>1, <1>6, <2>4, <2>5, <2>6 DEF SlotWasBroken
<1>11. QED
  BY <1>7, <1>8, <1>9, <1>10

LEMMA RaceNext == RaceInv /\ [Next]_vars => RaceInv'
<1> SUFFICES ASSUME RaceInv, [Next]_vars
             PROVE  RaceInv'
  OBVIOUS
<1>1. TypeInv'
  BY TypeNext DEF RaceInv
<1>2. pc \in [Requests -> Phases]
  BY DEF RaceInv, TypeInv, TypeOK
<1> USE <1>1, <1>2
<1>3. ASSUME NEW q \in Requests, NEW b \in Bodies, Begin(q, b)
      PROVE  RaceInv'
  BY <1>3, RaceBegin
<1>4. ASSUME NEW q \in Requests, ValidateTime(q)
      PROVE  RaceInv'
  BY <1>4, RaceValidateTime
<1>5. ASSUME NEW q \in Requests, Insert(q)
      PROVE  RaceInv'
  BY <1>5, RaceInsert
<1>6. ASSUME NEW q \in Requests,
             \/ RejectLookUp(q) \/ ValidateLock(q)
             \/ CreateEvent(q) \/ SaveParticipants(q) \/ Fail(q)
      PROVE  RaceInv'
  <2>1. /\ UNCHANGED <<body, rows, cancelled, seen, beside>>
        /\ \A p \in Requests : pc'[p] \in Admitted => pc[p] \in Admitted
    BY <1>6 DEF RejectLookUp, ValidateLock, CreateEvent, SaveParticipants, Fail,
                Goto, Admitted, tables
  <2>2. QED
    BY <2>1, RaceFrame DEF active
<1>7. ASSUME NEW q \in Requests,
             \/ FindGuests(q) \/ ValidateDate(q) \/ ValidatePending(q) \/ ValidateMode(q)
      PROVE  RaceInv'
  <2>1. /\ UNCHANGED <<body, rows, cancelled, seen, beside>>
        /\ \A p \in Requests : pc'[p] \in Admitted => pc[p] \in Admitted
    BY <1>7 DEF FindGuests, ValidateDate, ValidatePending, ValidateMode,
                Goto, Admitted, tables
  <2>2. QED
    BY <2>1, RaceFrame DEF active
<1>8. CASE (\E q \in Requests : Cancel(q)) \/ Tick \/ UNCHANGED vars
  <2>1. UNCHANGED <<pc, body, rows, seen, beside>> /\ active' \subseteq active
    BY <1>8 DEF Cancel, Tick, vars, tables, active
  <2>2. QED
    BY <2>1, RaceFrame
<1>9. QED
  BY <1>3, <1>4, <1>5, <1>6, <1>7, <1>8 DEF Next, Step

\* Two reservations that stand and clash are of two handlers that both passed
\* validateTime before either had inserted its row, or joined a slot that such
\* a pair had broken.
THEOREM SlotClashNeedsRace == Spec => []SlotClashOnlyByRace
BY RaceInit, RaceNext, RaceImplies, PTL DEF Spec

-----------------------------------------------------------------------------
(* One handler at a time: the check is enough *)

\* With no overlap the slot of a handler that was let through is still free
\* of clashes when it inserts.
SerialInv ==
  /\ TypeInv
  /\ \A p, q \in InFlight : p = q
  /\ SlotExclusive
  /\ \A q \in Requests : pc[q] \in Admitted => \A r \in active : ~Clash(r, q)

LEMMA SerialInit == Init => SerialInv
<1> SUFFICES ASSUME Init PROVE SerialInv
  OBVIOUS
<1> QED
  BY TypeInit DEF Init, SerialInv, SlotExclusive, active, InFlight, Admitted, Ended

LEMMA SerialNext ==
  ASSUME MaxInFlight = 1, SerialInv, [Next]_vars
  PROVE  SerialInv'
<1> USE DEF SerialInv
<1>1. TypeInv'
  BY TypeNext
<1> USE <1>1
<1>2. /\ pc \in [Requests -> Phases]
      /\ body \in [Requests -> Bodies \cup {NULL}]
      /\ rows \subseteq Requests
  BY DEF TypeInv, TypeOK
<1> USE <1>2
<1>3. ASSUME NEW q \in Requests, NEW b \in Bodies, Begin(q, b)
      PROVE  SerialInv'
  <2>1. InFlight = {}
    <3>1. IsFiniteSet(InFlight)
      BY RequestsAssumption, FS_Subset DEF InFlight
    <3>2. Cardinality(InFlight) \in Nat /\ Cardinality(InFlight) < 1
      BY <1>3, <3>1, FS_CardinalityType DEF Begin
    <3>3. QED
      BY <3>1, <3>2, FS_EmptySet
  <2>2. /\ q \notin rows
        /\ UNCHANGED <<rows, cancelled>>
        /\ body' = [body EXCEPT ![q] = b]
        /\ pc' = [pc EXCEPT ![q] = "lookup"]
    BY <1>3 DEF Begin, Goto, TypeInv, RowsFollowPhases, Unwritten, tables
  <2>3. \A p, r \in InFlight' : p = r
    BY <2>1, <2>2 DEF InFlight
  <2>4. \A p \in Requests : pc'[p] \notin Admitted
    BY <2>1, <2>2 DEF InFlight, Admitted, Ended
  <2>5. SlotExclusive'
    BY <2>2 DEF SlotExclusive, active, Clash, SameSlot, FromDate
  <2>6. QED
    BY <2>3, <2>4, <2>5
<1>4. ASSUME NEW q \in Requests, UNCHANGED <<body, rows, cancelled>>,
             \A p \in Requests : p # q => pc'[p] = pc[p], q \in InFlight,
             pc'[q] \in Admitted => pc[q] \in Admitted \/ \A r \in active : ~Clash(r, q)
      PROVE  SerialInv'
  <2>1. \A r, s : Clash(r, s)' <=> Clash(r, s)
    BY <1>4 DEF Clash, SameSlot, FromDate
  <2>2. InFlight' \subseteq InFlight
    BY <1>4 DEF InFlight
  <2>3. QED
    BY <1>4, <2>1, <2>2 DEF SlotExclusive, active
<1>5. ASSUME NEW q \in Requests,
             \/ RejectLookUp(q) \/ ValidateLock(q)
             \/ CreateEvent(q) \/ SaveParticipants(q) \/ Fail(q)
      PROVE  SerialInv'
  <2>1. /\ UNCHANGED <<body, rows, cancelled>>
        /\ \A p \in Requests : p # q => pc'[p] = pc[p]
        /\ q \in InFlight
        /\ pc'[q] \notin Admitted
    BY <1>5 DEF RejectLookUp, ValidateLock, CreateEvent, SaveParticipants, Fail,
                Goto, Admitted, tables, InFlight, Ended
  <2>2. QED
    BY <1>4, <2>1
<1>6. ASSUME NEW q \in Requests,
             \/ FindGuests(q) \/ ValidateDate(q) \/ ValidatePending(q) \/ ValidateMode(q)
      PROVE  SerialInv'
  <2>1. /\ UNCHANGED <<body, rows, cancelled>>
        /\ \A p \in Requests : p # q => pc'[p] = pc[p]
        /\ q \in InFlight
        /\ pc[q] \in Admitted
    BY <1>6 DEF FindGuests, ValidateDate, ValidatePending, ValidateMode,
                Goto, Admitted, tables, InFlight, Ended
  <2>2. QED
    BY <1>4, <2>1
<1>7. ASSUME NEW q \in Requests, ValidateTime(q)
      PROVE  SerialInv'
  <2>1. /\ UNCHANGED <<body, rows, cancelled>>
        /\ \A p \in Requests : p # q => pc'[p] = pc[p]
        /\ q \in InFlight
    BY <1>7 DEF ValidateTime, Goto, tables, InFlight, Ended
  <2>2. ASSUME NEW r \in active, pc'[q] \in Admitted, Clash(r, q)
        PROVE  FALSE
    <3>1. r \in SlotRows(body[q])
      BY <2>2 DEF SlotRows, Clash
    <3>2. PICK first \in SlotRows(body[q]) : Admits(body[first], body[q])
      BY <1>7, <2>2, <3>1 DEF ValidateTime, Goto, Admitted
    <3>3. first \in active /\ SameSlot(body[first], body[q]) /\ SameSlot(body[r], body[q])
      BY <3>1, <3>2 DEF SlotRows
    <3>4. /\ body[first].mode = body[q].mode
          /\ ~ModeRule[body[q].mode].allRequired
      BY <3>2 DEF Admits
    <3>5. body[r].mode # body[first].mode
      BY <2>2, <3>4 DEF Clash
    <3>6. Clash(first, r)
      BY <3>3, <3>5 DEF Clash, SameSlot
    <3>7. QED
      BY <3>3, <3>6 DEF SlotExclusive
  <2>3. QED
    BY <1>4, <2>1, <2>2
<1>8. ASSUME NEW q \in Requests, Insert(q)
      PROVE  SerialInv'
  <2>1. /\ pc[q] = "insert" /\ rows' = rows \cup {q}
        /\ pc' = [pc EXCEPT ![q] = "event"]
        /\ UNCHANGED <<body, cancelled>>
        /\ q \notin rows
    BY <1>8 DEF Insert, Goto, TypeInv, RowsFollowPhases, Unwritten
  <2>2. \A r, s : Clash(r, s)' <=> Clash(r, s)
    BY <2>1 DEF Clash, SameSlot, FromDate
  <2>3. InFlight' \subseteq InFlight
    BY <2>1 DEF InFlight, Ended
  <2>4. q \in InFlight /\ \A p \in InFlight : p = q
    BY <2>1 DEF InFlight, Ended
  <2>5. \A p \in Requests : pc'[p] \notin Admitted
    BY <2>1, <2>4 DEF InFlight, Ended, Admitted
  <2>6. active' \subseteq active \cup {q}
    BY <2>1 DEF active
  <2>7. \A r \in active : ~Clash(r, q) /\ ~Clash(q, r)
    BY <2>1 DEF Admitted, Clash, SameSlot
  <2>8. SlotExclusive'
    <3>1. ~Clash(q, q)
      BY DEF Clash
    <3>2. \A r, s \in active \cup {q} : ~Clash(r, s)
      BY <2>7, <3>1 DEF SlotExclusive
    <3>3. QED
      BY <2>2, <2>6, <3>2 DEF SlotExclusive
  <2>9. QED
    BY <2>3, <2>5, <2>8
<1>9. ASSUME NEW q \in Requests, Cancel(q)
      PROVE  SerialInv'
  <2>1. UNCHANGED <<pc, body, rows>> /\ active' \subseteq active
    BY <1>9 DEF Cancel, active
  <2>2. \A r, s : Clash(r, s)' <=> Clash(r, s)
    BY <2>1 DEF Clash, SameSlot, FromDate
  <2>3. QED
    BY <2>1, <2>2 DEF SlotExclusive, InFlight
<1>10. CASE Tick \/ UNCHANGED vars
  <2>1. UNCHANGED <<pc, body, rows, cancelled>>
    BY <1>10 DEF Tick, vars, tables
  <2>2. QED
    BY <2>1 DEF SlotExclusive, active, Clash, SameSlot, FromDate, InFlight
<1>11. QED
  BY <1>3, <1>5, <1>6, <1>7, <1>8, <1>9, <1>10 DEF Next, Step

\* When handlers do not overlap, no two active reservations of a slot clash:
\* what validateTime's comment takes for granted is then true.
THEOREM SerialSlotExclusive ==
  ASSUME MaxInFlight = 1
  PROVE  Spec => []SlotExclusive
<1>1. SerialInv /\ [Next]_vars => SerialInv'
  BY SerialNext
<1>2. SerialInv => SlotExclusive
  BY DEF SerialInv
<1>3. QED
  BY SerialInit, <1>1, <1>2, PTL DEF Spec
-----------------------------------------------------------------------------
(* A reservation is complete once its handler has answered *)

EventKept(q) ==
  \/ q \in events
  \/ body[q].space \notin EventSpaces
  \/ OwnerIds(body[q]) \cap UserIds = {}
GuestsKept(q) == savedAt[q] # NULL \/ NumberOfGuests(body[q]) = 0

\* A body names finitely many participants, so the party has a size.
LEMMA GuestCount ==
  ASSUME NEW b \in Bodies
  PROVE  NumberOfGuests(b) \in Nat
<1>1. IsFiniteSet(b.guests) /\ b.outsiders \in Nat
  BY BodiesAssumption DEF BodyShape
<1>2. Cardinality(b.guests) \in Nat
  BY <1>1, FS_CardinalityType
<1>3. QED
  BY <1>1, <1>2 DEF NumberOfGuests

\* No handler is turned away after its insert; the event is dealt with before
\* the guests, and the guests before the answer.
RecordsInv ==
  /\ TypeInv
  /\ \A q \in rows : /\ pc[q] # "rejected"
                     /\ pc[q] \in {"guests", "done"} => EventKept(q)
                     /\ pc[q] = "done" => GuestsKept(q)

\* The rows' own part of the state is untouched by a step of a handler whose
\* row is not in the table yet, by the clock and by a cancellation.
LEMMA RecordsFrame ==
  ASSUME RecordsInv, TypeInv', UNCHANGED <<rows, events, savedAt>>,
         \A q \in rows : /\ body'[q] = body[q]
                         /\ pc'[q] = pc[q] \/ pc'[q] = "failed"
  PROVE  RecordsInv'
<1>1. ASSUME NEW q \in rows, EventKept(q)
      PROVE  EventKept(q)'
  BY <1>1 DEF EventKept, OwnerIds, OwnerPerson, AuthorizedUser
<1>2. ASSUME NEW q \in rows, GuestsKept(q)
      PROVE  GuestsKept(q)'
  BY <1>2 DEF GuestsKept, NumberOfGuests
<1>3. QED
  BY <1>1, <1>2 DEF RecordsInv

LEMMA RecordsNext == RecordsInv /\ [Next]_vars => RecordsInv'
<1> SUFFICES ASSUME RecordsInv, [Next]_vars
             PROVE  RecordsInv'
  OBVIOUS
<1>1. TypeInv'
  BY TypeNext DEF RecordsInv
<1>2. /\ pc \in [Requests -> Phases] /\ rows \subseteq Requests
      /\ body \in [Requests -> Bodies \cup {NULL}]
      /\ savedAt \in [Requests -> Nat \cup {NULL}]
      /\ \A q \in Requests : pc[q] \in Unwritten => q \notin rows
  BY DEF RecordsInv, TypeInv, TypeOK, RowsFollowPhases
<1> USE <1>1, <1>2
<1>3. ASSUME NEW q \in Requests, NEW b \in Bodies, Begin(q, b)
      PROVE  RecordsInv'
  <2>1. q \notin rows
    BY <1>3 DEF Begin, Unwritten
  <2>2. QED
    BY <1>3, <2>1, RecordsFrame DEF Begin, Goto, tables
<1>4. ASSUME NEW q \in Requests,
             \/ RejectLookUp(q) \/ ValidateLock(q) \/ ValidateTime(q) \/ FindGuests(q)
      PROVE  RecordsInv'
  <2>1. q \notin rows
    BY <1>4 DEF RejectLookUp, ValidateLock, ValidateTime, FindGuests, Unwritten
  <2>2. UNCHANGED <<body, tables>> /\ \A p \in Requests : p # q => pc'[p] = pc[p]
    BY <1>4 DEF RejectLookUp, ValidateLock, ValidateTime, FindGuests, Goto
  <2>3. QED
    BY <2>1, <2>2, RecordsFrame DEF tables
<1>5. ASSUME NEW q \in Requests,
             \/ ValidateDate(q) \/ ValidatePending(q) \/ ValidateMode(q)
      PROVE  RecordsInv'
  <2>1. q \notin rows
    BY <1>5 DEF ValidateDate, ValidatePending, ValidateMode, Unwritten
  <2>2. UNCHANGED <<body, tables>> /\ \A p \in Requests : p # q => pc'[p] = pc[p]
    BY <1>5 DEF ValidateDate, ValidatePending, ValidateMode, Goto
  <2>3. QED
    BY <2>1, <2>2, RecordsFrame DEF tables
<1>6. ASSUME NEW q \in Requests, Insert(q)
      PROVE  RecordsInv'
  <2>1. /\ pc' = [pc EXCEPT ![q] = "event"] /\ rows' = rows \cup {q}
        /\ UNCHANGED <<body, events, savedAt>>
    BY <1>6 DEF Insert, Goto
  <2>2. \A p \in rows : /\ EventKept(p)' <=> EventKept(p)
                        /\ GuestsKept(p)' <=> GuestsKept(p)
    BY <2>1 DEF EventKept, GuestsKept, OwnerIds, OwnerPerson, AuthorizedUser, NumberOfGuests
  <2>3. QED
    BY <2>1, <2>2 DEF RecordsInv
<1>7. ASSUME NEW q \in Requests, CreateEvent(q)
      PROVE  RecordsInv'
  <2>1. /\ pc' = [pc EXCEPT ![q] = "guests"] /\ events \subseteq events'
        /\ UNCHANGED <<body, rows, savedAt>>
    BY <1>7 DEF CreateEvent, Goto
  <2>2. EventKept(q)'
    BY <1>7 DEF CreateEvent, EventKept, OwnerIds, OwnerPerson, AuthorizedUser
  <2>3. \A p \in rows : /\ EventKept(p) => EventKept(p)'
                        /\ GuestsKept(p)' <=> GuestsKept(p)
    BY <2>1 DEF EventKept, GuestsKept, OwnerIds, OwnerPerson, AuthorizedUser, NumberOfGuests
  <2>4. QED
    BY <2>1, <2>2, <2>3 DEF RecordsInv
<1>8. ASSUME NEW q \in Requests, SaveParticipants(q)
      PROVE  RecordsInv'
  <2>1. /\ pc[q] = "guests" /\ pc' = [pc EXCEPT ![q] = "done"]
        /\ UNCHANGED <<body, rows, events>>
        /\ \A p \in Requests : p # q => savedAt'[p] = savedAt[p]
    BY <1>8 DEF SaveParticipants, Goto
  <2>2. GuestsKept(q)'
    <3>1. CASE NumberOfGuests(body[q]) > 0
      <4>1. savedAt'[q] = now /\ now \in Nat
        BY <1>8, <3>1 DEF SaveParticipants, RecordsInv, TypeInv, TypeOK
      <4>2. QED
        BY <4>1, BoundsAssumption DEF GuestsKept
    <3>2. CASE ~(NumberOfGuests(body[q]) > 0)
      <4>1. q \in rows /\ body[q] \in Bodies
        BY <2>1 DEF RecordsInv, TypeInv, TypeOK, RowsFollowPhases, Written
      <4>2. NumberOfGuests(body[q]) \in Nat
        BY <4>1, GuestCount
      <4>3. NumberOfGuests(body[q]) = 0
        BY <3>2, <4>2
      <4>4. QED
        BY <2>1, <4>3 DEF GuestsKept, NumberOfGuests
    <3>3. QED
      BY <3>1, <3>2
  <2>3. \A p \in rows : EventKept(p)' <=> EventKept(p)
    BY <2>1 DEF EventKept, OwnerIds, OwnerPerson, AuthorizedUser
  <2>4. \A p \in rows : p # q => (GuestsKept(p)' <=> GuestsKept(p))
    BY <2>1 DEF GuestsKept, NumberOfGuests
  <2>5. QED
    BY <2>1, <2>2, <2>3, <2>4 DEF RecordsInv
<1>9. ASSUME NEW q \in Requests, Fail(q)
      PROVE  RecordsInv'
  BY <1>9, RecordsFrame DEF Fail, Goto, tables
<1>10. CASE (\E q \in Requests : Cancel(q)) \/ Tick \/ UNCHANGED vars
  <2>1. UNCHANGED <<pc, body, rows, events, savedAt>>
    BY <1>10 DEF Cancel, Tick, vars, tables
  <2>2. QED
    BY <2>1, RecordsFrame
<1>11. QED
  BY <1>3, <1>4, <1>5, <1>6, <1>7, <1>8, <1>9, <1>10 DEF Next, Step

\* A reservation whose handler has answered has its guests and, where one is
\* due, its event: the three writes are only left apart by a failure.
THEOREM RecordsCompleteInvariant == Spec => []RecordsComplete
<1>1. Init => RecordsInv
  BY TypeInit DEF Init, RecordsInv
<1>2. RecordsInv => RecordsComplete
  BY DEF RecordsInv, RecordsComplete, EventKept, GuestsKept, TypeInv, TypeOK,
         RowsFollowPhases, Unwritten, Phases
<1>3. QED
  BY <1>1, <1>2, RecordsNext, PTL DEF Spec

-----------------------------------------------------------------------------
(* What validateDate found keeps its word *)

\* Handlers that have not reached validateDate's search, and those past its
\* comparison.
BeforeSearch == {"idle", "lookup", "time", "guestIds"}
PastDates == {"pending", "mode", "insert"}

\* None of the found reservations that are still active takes q's dates.
FoundLeaveFree(q) == \A r \in found[q] \cap active : ~DateTaken(body[q], body[r])

\* The comparison runs once, on rows read earlier; it stays true because the
\* rows found keep their bodies and can only stop being active.
FoundInv ==
  /\ TypeInv
  /\ \A q \in Requests : pc[q] \in BeforeSearch => found[q] = {}
  /\ \A q \in Requests : (pc[q] \in PastDates \/ q \in rows) => FoundLeaveFree(q)

\* The dates of a body in the order create uses them.
LEMMA DatesType ==
  ASSUME NEW b \in Bodies
  PROVE  FromDate(b) \in Nat /\ ToDate(b) \in Nat
BY BodiesAssumption DEF BodyShape, FromDate, ToDate

\* Two overlapping ranges escape the five comparisons of validateDate only
\* when the new one lies within the old one and shares exactly one end.
LEMMA CollidesMisses ==
  ASSUME NEW f \in Nat, NEW t \in Nat, NEW rf \in Nat, NEW rt \in Nat,
         ~Collides(f, t, rf, rt), f < rt, rf < t
  PROVE  (f = rf /\ t < rt) \/ (f > rf /\ t = rt)
BY DEF Collides

\* A step that neither finds rows nor lets a handler past the comparison.
LEMMA FoundFrame ==
  ASSUME FoundInv, TypeInv', UNCHANGED found,
         \A q \in Requests :
           /\ pc'[q] \in BeforeSearch => pc[q] \in BeforeSearch
           /\ pc'[q] \in PastDates \/ q \in rows' => pc[q] \in PastDates \/ q \in rows
           /\ pc'[q] \in PastDates \/ q \in rows' => body'[q] = body[q],
         \A r \in rows : body'[r] = body[r] /\ (r \in active' => r \in active)
  PROVE  FoundInv'
<1>1. ASSUME NEW q \in Requests, pc'[q] \in PastDates \/ q \in rows'
      PROVE  FoundLeaveFree(q)'
  <2>1. FoundLeaveFree(q) /\ body'[q] = body[q]
    BY <1>1 DEF FoundInv
  <2>2. found[q] \subseteq rows
    BY DEF FoundInv, TypeInv, TypeOK
  <2>3. SUFFICES ASSUME NEW r \in found[q], r \in active'
                 PROVE  ~DateTaken(body'[q], body'[r])
    BY DEF FoundLeaveFree, DateTaken, FromDate, ToDate
  <2>4. r \in found[q] \cap active /\ body'[r] = body[r]
    BY <2>2, <2>3
  <2>5. QED
    BY <2>1, <2>4 DEF FoundLeaveFree
<1>2. \A q \in Requests : pc'[q] \in BeforeSearch => found'[q] = {}
  BY DEF FoundInv
<1>3. QED
  BY <1>1, <1>2 DEF FoundInv

LEMMA FoundNext == FoundInv /\ [Next]_vars => FoundInv'
<1> SUFFICES ASSUME FoundInv, [Next]_vars
             PROVE  FoundInv'
  OBVIOUS
<1>1. TypeInv'
  BY TypeNext DEF FoundInv
<1>2. /\ pc \in [Requests -> Phases] /\ rows \subseteq Requests
      /\ body \in [Requests -> Bodies \cup {NULL}]
      /\ found \in [Requests -> SUBSET rows]
      /\ \A q \in Requests : pc[q] \in Unwritten => q \notin rows
  BY DEF FoundInv, TypeInv, TypeOK, RowsFollowPhases
<1> USE <1>1, <1>2
<1>3. ASSUME NEW q \in Requests, NEW b \in Bodies, Begin(q, b)
      PROVE  FoundInv'
  <2>1. /\ pc[q] = "idle" /\ pc' = [pc EXCEPT ![q] = "lookup"]
        /\ q \notin rows /\ UNCHANGED <<rows, cancelled, found>>
        /\ body' = [body EXCEPT ![q] = b]
    BY <1>3 DEF Begin, Goto, Unwritten, tables
  <2>2. active' = active
    BY <2>1 DEF active
  <2>3. QED
    BY <2>1, <2>2, FoundFrame DEF BeforeSearch, PastDates
<1>4. ASSUME NEW q \in Requests,
             \/ RejectLookUp(q) \/ ValidateLock(q) \/ ValidateTime(q)
             \/ CreateEvent(q) \/ SaveParticipants(q) \/ Fail(q)
      PROVE  FoundInv'
  <2>1. /\ UNCHANGED <<body, rows, cancelled, found>>
        /\ pc' = [pc EXCEPT ![q] = pc'[q]]
        /\ pc'[q] \notin PastDates
        /\ pc'[q] \in BeforeSearch => pc[q] \in BeforeSearch
    BY <1>4 DEF RejectLookUp, ValidateLock, ValidateTime, CreateEvent, SaveParticipants,
                Fail, Goto, tables, PastDates, BeforeSearch
  <2>2. active' = active
    BY <2>1 DEF active
  <2>3. QED
    BY <2>1, <2>2, FoundFrame
<1>5. ASSUME NEW q \in Requests, FindGuests(q)
      PROVE  FoundInv'
  <2>1. /\ pc[q] = "guestIds" /\ found[q] = {} /\ q \notin rows
        /\ UNCHANGED <<body, rows, cancelled>>
        /\ pc' = [pc EXCEPT ![q] = pc'[q]]
        /\ pc'[q] \notin BeforeSearch
        /\ found' = [found EXCEPT ![q] = found'[q]]
        /\ pc'[q] \in PastDates => found'[q] = {}
    BY <1>5 DEF FindGuests, Goto, FoundInv, BeforeSearch, PastDates, Unwritten, tables
  <2>2. active' = active
    BY <2>1 DEF active
  <2>3. ASSUME NEW p \in Requests, p # q
        PROVE  FoundLeaveFree(p)' <=> FoundLeaveFree(p)
    BY <2>1, <2>2, <2>3 DEF FoundLeaveFree, DateTaken, FromDate, ToDate
  <2>4. pc'[q] \in PastDates \/ q \in rows' => FoundLeaveFree(q)'
    BY <2>1 DEF FoundLeaveFree
  <2>5. QED
    BY <2>1, <2>3, <2>4 DEF FoundInv
<1>6. ASSUME NEW q \in Requests, ValidateDate(q)
      PROVE  FoundInv'
  <2>1. /\ q \notin rows /\ UNCHANGED <<body, rows, cancelled, found>>
        /\ pc' = [pc EXCEPT ![q] = pc'[q]]
        /\ pc'[q] \notin BeforeSearch
        /\ pc'[q] \in PastDates => FoundLeaveFree(q)
    BY <1>6 DEF ValidateDate, Goto, BeforeSearch, PastDates, Unwritten, tables, FoundLeaveFree
  <2>2. active' = active
    BY <2>1 DEF active
  <2>3. \A p \in Requests : FoundLeaveFree(p)' <=> FoundLeaveFree(p)
    BY <2>1, <2>2 DEF FoundLeaveFree, DateTaken, FromDate, ToDate
  <2>4. QED
    BY <2>1, <2>3 DEF FoundInv
<1>7. ASSUME NEW q \in Requests, ValidatePending(q) \/ ValidateMode(q)
      PROVE  FoundInv'
  <2>1. /\ UNCHANGED <<body, rows, cancelled, found>>
        /\ pc' = [pc EXCEPT ![q] = pc'[q]]
        /\ pc[q] \in PastDates /\ pc'[q] \notin BeforeSearch
    BY <1>7 DEF ValidatePending, ValidateMode, Goto, tables, PastDates, BeforeSearch
  <2>2. active' = active
    BY <2>1 DEF active
  <2>3. QED
    BY <2>1, <2>2, FoundFrame
<1>8. ASSUME NEW q \in Requests, Insert(q)
      PROVE  FoundInv'
  <2>1. /\ q \notin rows /\ pc[q] \in PastDates
        /\ pc' = [pc EXCEPT ![q] = "event"]
        /\ rows' = rows \cup {q} /\ UNCHANGED <<body, cancelled, found>>
    BY <1>8 DEF Insert, Goto, PastDates, Unwritten
  <2>2. \A r \in rows : r \in active' => r \in active
    BY <2>1 DEF active
  <2>3. QED
    BY <2>1, <2>2, FoundFrame DEF BeforeSearch, PastDates
<1>9. CASE (\E q \in Requests : Cancel(q)) \/ Tick \/ UNCHANGED vars
  <2>1. UNCHANGED <<pc, body, rows, found>> /\ active' \subseteq active
    BY <1>9 DEF Cancel, Tick, vars, tables, active
  <2>2. QED
    BY <2>1, FoundFrame
<1>10. QED
  BY <1>3, <1>4, <1>5, <1>6, <1>7, <1>8, <1>9 DEF Next, Step

\* A reservation never overlaps one that its own search found, unless it lies
\* within it and shares one end: the case the comparisons do not cover.
THEOREM FoundRowsStayRespected == Spec => []FoundRowsRespected
<1>1. Init => FoundInv
  BY TypeInit DEF Init, FoundInv, FoundLeaveFree, PastDates
<1>2. FoundInv => FoundRowsRespected
  <2> SUFFICES ASSUME FoundInv, NEW q \in rows, NEW r \in found[q] \cap active,
                      Exclusive(body[r]), Overlap(body[q], body[r])
               PROVE  InsideSharingOneEnd(body[q], body[r])
    BY DEF FoundRowsRespected
  <2>1. body[q] \in Bodies /\ body[r] \in Bodies
    BY DEF FoundInv, TypeInv, TypeOK, RowsFollowPhases, Unwritten, active
  <2>2. ~Collides(FromDate(body[q]), ToDate(body[q]), FromDate(body[r]), ToDate(body[r]))
    BY DEF FoundInv, FoundLeaveFree, DateTaken, Exclusive, TypeInv, TypeOK
  <2>3. /\ FromDate(body[q]) \in Nat /\ ToDate(body[q]) \in Nat
        /\ FromDate(body[r]) \in Nat /\ ToDate(body[r]) \in Nat
    BY <2>1, DatesType
  <2>4. QED
    BY <2>2, <2>3, CollidesMisses DEF Overlap, InsideSharingOneEnd
<1>3. QED
  BY <1>1, <1>2, FoundNext, PTL DEF Spec

-----------------------------------------------------------------------------
(* A quota is exceeded by at most the handlers that overlap *)

\* Handlers that a count has let through are counted as if they had inserted.
CountedByMode(q) == q \in active \/ pc[q] = "insert"
CountedAsPending(q) == q \in active \/ pc[q] \in {"mode", "insert"}

MonthLoad(m, month) ==
  {q \in Requests : CountedByMode(q) /\ body[q].mode = m /\ Month(body[q]) = month}
PendingLoad(t) ==
  {q \in Requests : /\ CountedAsPending(q)
                    /\ AuthorizedUser(body[q]) # NULL
                    /\ body[q].type = t
                    /\ ToDate(body[q]) >= now}
LotLoad(lot, t) == {q \in PendingLoad(t) : Lot(body[q]) = lot}
UserLoad(p, t) == {q \in PendingLoad(t) : AuthorizedUser(body[q]) = p}

MonthBound ==
  \A m \in Modes : ModeRule[m].maxPerMonth # 0 =>
    \A b \in Bodies :
      Cardinality(MonthLoad(m, Month(b))) <= ModeRule[m].maxPerMonth + MaxInFlight - 1

PendingBound ==
  \A t \in Types : \A p \in Listed :
    IF TypeRule[t].pendingPerLot
    THEN \E resident \in Listed :
           /\ LotOf[resident] = LotOf[p]
           /\ Cardinality(LotLoad(LotOf[p], t)) <= LotQuota(resident, t) + MaxInFlight - 1
    ELSE Cardinality(UserLoad(p, t)) <= TypeRule[t].numberOfPending + MaxInFlight

\* Rows and the handlers already let through count together, so an insert
\* changes no load; a check adds at most the handlers under way to what it
\* counted.
QuotaInv ==
  /\ TypeInv
  /\ Cardinality(InFlight) <= MaxInFlight
  /\ MonthBound
  /\ PendingBound

\* Sets of requests are finite, and the larger holds no fewer.
LEMMA RequestSets ==
  ASSUME NEW S \in SUBSET Requests, NEW T \in SUBSET Requests, S \subseteq T
  PROVE  /\ Cardinality(S) \in Nat /\ Cardinality(T) \in Nat
         /\ Cardinality(S) <= Cardinality(T)
<1>1. IsFiniteSet(S) /\ IsFiniteSet(T)
  BY RequestsAssumption, FS_Subset
<1>2. QED
  BY <1>1, FS_Subset, FS_CardinalityType

\* A set that a count and the handlers under way cover is no larger than both.
LEMMA CountAndHandlers ==
  ASSUME NEW S \in SUBSET Requests, NEW T \in SUBSET Requests, NEW U \in SUBSET Requests,
         S \subseteq T \cup U
  PROVE  /\ Cardinality(S) \in Nat /\ Cardinality(T) \in Nat /\ Cardinality(U) \in Nat
         /\ Cardinality(S) <= Cardinality(T) + Cardinality(U)
<1>1. IsFiniteSet(S) /\ IsFiniteSet(T) /\ IsFiniteSet(U) /\ IsFiniteSet(T \cap U)
  BY RequestsAssumption, FS_Subset
<1>2. /\ Cardinality(S) \in Nat /\ Cardinality(T) \in Nat /\ Cardinality(U) \in Nat
      /\ Cardinality(T \cap U) \in Nat
  BY <1>1, FS_CardinalityType
<1>3. Cardinality(T \cup U) = Cardinality(T) + Cardinality(U) - Cardinality(T \cap U)
  BY <1>1, FS_Union
<1>4. Cardinality(S) <= Cardinality(T \cup U)
  BY RequestSets
<1>5. QED
  BY <1>2, <1>3, <1>4

\* A lot may always hold one pending reservation.
LEMMA QuotaOfLot ==
  ASSUME NEW p \in Persons, NEW t \in Types
  PROVE  LotQuota(p, t) \in Nat \ {0}
<1>1. TypeRule[t].numberOfPending \in Nat
  BY RulesAssumption
<1>2. Cardinality(ExtraLots[p]) \in Nat
  BY PeopleAssumption, FS_CardinalityType
<1>3. \A x, y \in Nat : (x + 1) * (y + 1) \in Nat /\ (x + 1) * (y + 1) = x * y + x + y + 1
  OBVIOUS
<1>4. \A x, y \in Nat : x * y \in Nat
  OBVIOUS
<1>5. QED
  BY <1>1, <1>2, <1>3, <1>4 DEF LotQuota

\* The loads of the months grow with no step but the one that lets a handler
\* through validateMode.
LEMMA MonthFrame ==
  ASSUME MonthBound, TypeInv, TypeInv',
         \A q \in Requests : CountedByMode(q)' => CountedByMode(q) /\ body'[q] = body[q]
  PROVE  MonthBound'
<1> SUFFICES ASSUME NEW m \in Modes, ModeRule[m].maxPerMonth # 0, NEW b \in Bodies
             PROVE  Cardinality(MonthLoad(m, Month(b))') <= ModeRule[m].maxPerMonth + MaxInFlight - 1
  BY DEF MonthBound
<1>1. MonthLoad(m, Month(b))' \subseteq MonthLoad(m, Month(b))
  BY DEF MonthLoad, Month, FromDate
<1>2. /\ MonthLoad(m, Month(b))' \subseteq Requests
      /\ MonthLoad(m, Month(b)) \subseteq Requests
  BY DEF MonthLoad
<1>3. /\ Cardinality(MonthLoad(m, Month(b))') \in Nat
      /\ Cardinality(MonthLoad(m, Month(b))) \in Nat
      /\ Cardinality(MonthLoad(m, Month(b))') <= Cardinality(MonthLoad(m, Month(b)))
  BY <1>1, <1>2, RequestSets
<1>4. Cardinality(MonthLoad(m, Month(b))) <= ModeRule[m].maxPerMonth + MaxInFlight - 1
  BY DEF MonthBound
<1>5. ModeRule[m].maxPerMonth \in Nat /\ MaxInFlight \in Nat
  BY RulesAssumption, BoundsAssumption
<1>6. QED
  BY <1>3, <1>4, <1>5

\* The pending loads of lots and people grow with no step but the one that
\* lets a handler through validatePendingReservations.
LEMMA PendingFrame ==
  ASSUME PendingBound, TypeInv, TypeInv', now' >= now,
         \A q \in Requests : CountedAsPending(q)' =>
           body'[q] = body[q] /\ (CountedAsPending(q) \/ AuthorizedUser(body[q]) = NULL)
  PROVE  PendingBound'
<1>1. ASSUME NEW t \in Types
      PROVE  PendingLoad(t)' \subseteq PendingLoad(t)
  <2> SUFFICES ASSUME NEW q \in PendingLoad(t)'
               PROVE  q \in PendingLoad(t)
    OBVIOUS
  <2>1. /\ q \in Requests /\ CountedAsPending(q)' /\ body'[q] = body[q]
        /\ AuthorizedUser(body'[q]) # NULL
        /\ body'[q].type = t /\ ToDate(body'[q]) >= now'
    BY DEF PendingLoad, AuthorizedUser, ToDate
  <2>2. CountedAsPending(q)
    BY <2>1
  <2>3. body[q] \in Bodies
    BY <2>1, <2>2 DEF TypeInv, TypeOK, CountedAsPending, active, RowsFollowPhases, Unwritten
  <2>4. ToDate(body[q]) \in Nat /\ now \in Nat /\ now' \in Nat
    BY <2>3, DatesType DEF TypeInv, TypeOK
  <2>5. ToDate(body[q]) >= now
    BY <2>1, <2>4
  <2>6. QED
    BY <2>1, <2>2, <2>5 DEF PendingLoad
<1>2. ASSUME NEW t \in Types, NEW x
      PROVE  /\ LotLoad(x, t)' \subseteq LotLoad(x, t)
             /\ UserLoad(x, t)' \subseteq UserLoad(x, t)
  <2>1. \A q \in PendingLoad(t)' : q \in PendingLoad(t) /\ body'[q] = body[q]
    BY <1>1 DEF PendingLoad
  <2>2. QED
    BY <2>1 DEF LotLoad, UserLoad, Lot, OwnerPerson, AuthorizedUser
<1>3. ASSUME NEW t \in Types, NEW x
      PROVE  /\ Cardinality(LotLoad(x, t)') \in Nat /\ Cardinality(LotLoad(x, t)) \in Nat
             /\ Cardinality(UserLoad(x, t)') \in Nat /\ Cardinality(UserLoad(x, t)) \in Nat
             /\ Cardinality(LotLoad(x, t)') <= Cardinality(LotLoad(x, t))
             /\ Cardinality(UserLoad(x, t)') <= Cardinality(UserLoad(x, t))
  <2>1. /\ LotLoad(x, t)' \subseteq Requests /\ LotLoad(x, t) \subseteq Requests
        /\ UserLoad(x, t)' \subseteq Requests /\ UserLoad(x, t) \subseteq Requests
    BY DEF LotLoad, UserLoad, PendingLoad
  <2>2. QED
    BY <1>2, <2>1, RequestSets
<1> SUFFICES ASSUME NEW t \in Types, NEW p \in Listed
             PROVE  IF TypeRule[t].pendingPerLot
                    THEN \E resident \in Listed :
                           /\ LotOf[resident] = LotOf[p]
                           /\ Cardinality(LotLoad(LotOf[p], t)')
                                <= LotQuota(resident, t) + MaxInFlight - 1
                    ELSE Cardinality(UserLoad(p, t)') <= TypeRule[t].numberOfPending + MaxInFlight
  BY DEF PendingBound
<1>4. MaxInFlight \in Nat /\ TypeRule[t].numberOfPending \in Nat
  BY BoundsAssumption, RulesAssumption
<1>5. CASE TypeRule[t].pendingPerLot
  <2>1. PICK resident \in Listed :
          /\ LotOf[resident] = LotOf[p]
          /\ Cardinality(LotLoad(LotOf[p], t)) <= LotQuota(resident, t) + MaxInFlight - 1
    BY <1>5 DEF PendingBound
  <2>2. LotQuota(resident, t) \in Nat
    BY QuotaOfLot, PeopleAssumption
  <2>3. Cardinality(LotLoad(LotOf[p], t)') <= LotQuota(resident, t) + MaxInFlight - 1
    BY <1>3, <1>4, <2>1, <2>2
  <2>4. QED
    BY <1>5, <2>1, <2>3
<1>6. CASE ~TypeRule[t].pendingPerLot
  <2>1. Cardinality(UserLoad(p, t)) <= TypeRule[t].numberOfPending + MaxInFlight
    BY <1>6 DEF PendingBound
  <2>2. QED
    BY <1>3, <1>4, <1>6, <2>1
<1>7. QED
  BY <1>5, <1>6

\* A handler let through validateMode counted fewer rows than the quota; the
\* load is those rows and handlers under way.
LEMMA MonthValidateMode ==
  ASSUME QuotaInv, TypeInv', NEW q \in Requests, ValidateMode(q)
  PROVE  MonthBound'
<1> USE DEF QuotaInv
<1>1. /\ pc[q] = "mode" /\ UNCHANGED <<body, rows, cancelled>>
      /\ pc' = [pc EXCEPT ![q] = pc'[q]]
      /\ pc'[q] = "insert" => ModeAdmits(body[q])
  BY DEF ValidateMode, Goto, tables, TypeInv, TypeOK
<1>2. active' = active
  BY <1>1 DEF active
<1>3. pc \in [Requests -> Phases]
  BY DEF TypeInv, TypeOK
<1> SUFFICES ASSUME NEW m \in Modes, ModeRule[m].maxPerMonth # 0, NEW b \in Bodies
             PROVE  Cardinality(MonthLoad(m, Month(b))') <= ModeRule[m].maxPerMonth + MaxInFlight - 1
  BY DEF MonthBound
<1> DEFINE Old == MonthLoad(m, Month(b))
           New == MonthLoad(m, Month(b))'
<1>4. New \subseteq Requests /\ Old \subseteq Requests
  BY DEF MonthLoad
<1>5. ModeRule[m].maxPerMonth \in Nat \ {0} /\ MaxInFlight \in Nat
  BY RulesAssumption, BoundsAssumption
<1>6. CASE q \notin New
  <2>1. New \subseteq Old
    BY <1>1, <1>2, <1>3, <1>6 DEF MonthLoad, CountedByMode, Month, FromDate
  <2>2. Cardinality(New) \in Nat /\ Cardinality(Old) \in Nat /\ Cardinality(New) <= Cardinality(Old)
    BY <1>4, <2>1, RequestSets
  <2>3. Cardinality(Old) <= ModeRule[m].maxPerMonth + MaxInFlight - 1
    BY DEF MonthBound
  <2> HIDE DEF New, Old
  <2>4. QED
    BY <1>5, <2>2, <2>3 DEF New
<1>7. CASE q \in New
  <2>1. body[q].mode = m /\ Month(body[q]) = Month(b) /\ (q \in active \/ pc'[q] = "insert")
    BY <1>1, <1>2, <1>7 DEF MonthLoad, CountedByMode, Month, FromDate
  <2>2. q \notin active
    BY <1>1 DEF active, TypeInv, RowsFollowPhases, Unwritten
  <2>3. Cardinality(MonthRows(m, Month(b))) < ModeRule[m].maxPerMonth
    BY <1>1, <2>1, <2>2 DEF ModeAdmits
  <2>4. New \subseteq MonthRows(m, Month(b)) \cup InFlight
    BY <1>1, <1>2, <1>3 DEF MonthLoad, CountedByMode, MonthRows, Month, FromDate, InFlight, Ended
  <2>5. MonthRows(m, Month(b)) \subseteq Requests /\ InFlight \subseteq Requests
    BY DEF MonthRows, InFlight, active, TypeInv, TypeOK
  <2>6. /\ Cardinality(New) \in Nat /\ Cardinality(MonthRows(m, Month(b))) \in Nat
        /\ Cardinality(InFlight) \in Nat
        /\ Cardinality(New) <= Cardinality(MonthRows(m, Month(b))) + Cardinality(InFlight)
    BY <1>4, <2>4, <2>5, CountAndHandlers
  <2>7. Cardinality(InFlight) <= MaxInFlight
    OBVIOUS
  <2> HIDE DEF New, Old
  <2>8. QED
    BY <1>5, <2>3, <2>6, <2>7 DEF New
<1>8. QED
  BY <1>6, <1>7

\* A reservation for a list entry belongs to that entry's person and lot.
LEMMA ListedOwner ==
  ASSUME NEW b, AuthorizedUser(b) # NULL
  PROVE  /\ AuthorizedUser(b) \in Listed
         /\ OwnerPerson(b) = AuthorizedUser(b)
         /\ Lot(b) = LotOf[AuthorizedUser(b)]
         /\ OwnerIds(b) = PersonIds(AuthorizedUser(b))
         /\ AuthorizedId(AuthorizedUser(b)) \in OwnerIds(b)
<1>1. /\ AuthorizedUser(b) \in Listed /\ b.named # NULL
  BY DEF AuthorizedUser
<1>2. OwnerPerson(b) = AuthorizedUser(b)
  BY <1>1 DEF OwnerPerson
<1>3. Lot(b) = LotOf[AuthorizedUser(b)] /\ OwnerIds(b) = PersonIds(AuthorizedUser(b))
  BY <1>2 DEF Lot, OwnerIds
<1>4. AuthorizedId(AuthorizedUser(b)) \in PersonIds(AuthorizedUser(b))
  BY <1>1 DEF PersonIds, AuthorizedId, Ids, AuthorizedIds
<1>5. QED
  BY <1>1, <1>2, <1>3, <1>4

\* Likewise for the pending reservations of a lot, where the quota is that of
\* the resident who asks, and of a person, where the count may equal it.
LEMMA PendingValidatePending ==
  ASSUME QuotaInv, TypeInv', NEW q \in Requests, ValidatePending(q)
  PROVE  PendingBound'
<1> USE DEF QuotaInv
<1>1. /\ pc[q] = "pending" /\ UNCHANGED <<body, rows, cancelled, now>>
      /\ pc' = [pc EXCEPT ![q] = pc'[q]]
  BY DEF ValidatePending, Goto, tables, TypeInv, TypeOK
<1>2. /\ active' = active /\ pc \in [Requests -> Phases] /\ active \subseteq Requests
      /\ q \notin active /\ InFlight \subseteq Requests
  BY <1>1 DEF active, TypeInv, TypeOK, RowsFollowPhases, Unwritten, InFlight
<1>3. CASE pc'[q] # "mode" \/ AuthorizedUser(body[q]) = NULL
  <2>1. pc'[q] \in {"mode", "rejected"}
    BY DEF ValidatePending, Goto, TypeInv, TypeOK
  <2>2. ASSUME NEW p \in Requests, CountedAsPending(p)'
        PROVE  body'[p] = body[p] /\ (CountedAsPending(p) \/ AuthorizedUser(body[p]) = NULL)
    BY <1>1, <1>2, <1>3, <2>1, <2>2 DEF CountedAsPending
  <2>3. now' >= now
    BY <1>1 DEF TypeInv, TypeOK
  <2>4. QED
    BY <2>2, <2>3, PendingFrame
<1>4. CASE pc'[q] = "mode" /\ AuthorizedUser(body[q]) # NULL
  <2>0. PICK who, type, lot : /\ who = AuthorizedUser(body[q])
                              /\ type = body[q].type
                              /\ lot = Lot(body[q])
    OBVIOUS
  <2>1. /\ TypeRule[type].pendingPerLot => LotAdmits(body[q])
        /\ ~TypeRule[type].pendingPerLot => UserAdmits(body[q])
    BY <1>4, <2>0 DEF ValidatePending, Goto, TypeInv, TypeOK
  <2>2. /\ who \in Listed /\ lot = LotOf[who]
        /\ \A r \in Requests : AuthorizedUser(body[r]) = who => OwnerIds(body[r]) \cap OwnerIds(body[q]) # {}
    BY <1>4, <2>0, ListedOwner
  <2>3. \A t, r : r \in PendingLoad(t)' =>
          \/ r \in PendingLoad(t)
          \/ r = q /\ t = type
    BY <1>1, <1>2, <2>0 DEF PendingLoad, CountedAsPending, AuthorizedUser, ToDate
  <2>4. \A x, t : /\ LotLoad(x, t)' \subseteq Requests /\ LotLoad(x, t) \subseteq Requests
                  /\ UserLoad(x, t)' \subseteq Requests /\ UserLoad(x, t) \subseteq Requests
    BY DEF LotLoad, UserLoad, PendingLoad
  <2>5. \A x, t : (t # type \/ x # lot) => LotLoad(x, t)' \subseteq LotLoad(x, t)
    BY <1>1, <2>0, <2>3 DEF LotLoad, Lot, OwnerPerson, AuthorizedUser
  <2>6. \A x, t : (t # type \/ x # who) => UserLoad(x, t)' \subseteq UserLoad(x, t)
    BY <1>1, <2>0, <2>3 DEF UserLoad, AuthorizedUser
  <2>7. LotLoad(lot, type)' \subseteq PendingOfLot(lot, type) \cup InFlight
    BY <1>1, <1>2 DEF LotLoad, PendingLoad, CountedAsPending, PendingOfLot, InFlight, Ended,
                      Lot, OwnerPerson, AuthorizedUser, ToDate
  <2>8. UserLoad(who, type)' \subseteq PendingOfUser(body[q]) \cup InFlight
    <3> SUFFICES ASSUME NEW r \in UserLoad(who, type)', r \notin InFlight
                 PROVE  r \in PendingOfUser(body[q])
      OBVIOUS
    <3>1. /\ r \in Requests /\ body[r].type = type /\ AuthorizedUser(body[r]) = who
          /\ ToDate(body[r]) >= now
      BY <1>1 DEF UserLoad, PendingLoad, AuthorizedUser, ToDate
    <3>2. r \in active
      BY <1>1, <1>2 DEF UserLoad, PendingLoad, CountedAsPending, InFlight, Ended
    <3>3. QED
      BY <2>0, <2>2, <3>1, <3>2 DEF PendingOfUser
  <2>9. PendingOfLot(lot, type) \subseteq Requests /\ PendingOfUser(body[q]) \subseteq Requests
    BY <1>2 DEF PendingOfLot, PendingOfUser
  <2>10. /\ MaxInFlight \in Nat /\ Cardinality(InFlight) <= MaxInFlight
         /\ \A t \in Types : TypeRule[t].numberOfPending \in Nat
         /\ \A t \in Types : \A p \in Listed : LotQuota(p, t) \in Nat \ {0}
    BY BoundsAssumption, RulesAssumption, PeopleAssumption, QuotaOfLot
  <2>11. type \in Types
    <3>1. body[q] \in Bodies
      BY <1>1 DEF TypeInv, TypeOK
    <3>2. QED
      BY <2>0, <3>1, BodiesAssumption DEF BodyShape
  <2>12. TypeRule[type].pendingPerLot =>
           Cardinality(LotLoad(lot, type)') <= LotQuota(who, type) + MaxInFlight - 1
    <3> SUFFICES ASSUME TypeRule[type].pendingPerLot
                 PROVE  Cardinality(LotLoad(lot, type)') <= LotQuota(who, type) + MaxInFlight - 1
      OBVIOUS
    <3>1. Cardinality(PendingOfLot(lot, type)) < LotQuota(who, type)
      BY <2>0, <2>1, <2>2, <2>10, <2>11 DEF LotAdmits
    <3>2. /\ Cardinality(LotLoad(lot, type)') \in Nat
          /\ Cardinality(PendingOfLot(lot, type)) \in Nat /\ Cardinality(InFlight) \in Nat
          /\ Cardinality(LotLoad(lot, type)')
               <= Cardinality(PendingOfLot(lot, type)) + Cardinality(InFlight)
      BY <1>2, <2>4, <2>7, <2>9, CountAndHandlers
    <3>3. LotQuota(who, type) \in Nat
      BY <2>2, <2>10, <2>11
    <3>4. QED
      BY <2>10, <3>1, <3>2, <3>3
  <2>13. ~TypeRule[type].pendingPerLot =>
           Cardinality(UserLoad(who, type)') <= TypeRule[type].numberOfPending + MaxInFlight
    <3> SUFFICES ASSUME ~TypeRule[type].pendingPerLot
                 PROVE  Cardinality(UserLoad(who, type)') <= TypeRule[type].numberOfPending + MaxInFlight
      OBVIOUS
    <3>1. Cardinality(PendingOfUser(body[q])) <= TypeRule[type].numberOfPending
      BY <2>0, <2>1, <2>10, <2>11 DEF UserAdmits
    <3>2. /\ Cardinality(UserLoad(who, type)') \in Nat
          /\ Cardinality(PendingOfUser(body[q])) \in Nat /\ Cardinality(InFlight) \in Nat
          /\ Cardinality(UserLoad(who, type)')
               <= Cardinality(PendingOfUser(body[q])) + Cardinality(InFlight)
      BY <1>2, <2>4, <2>8, <2>9, CountAndHandlers
    <3>3. QED
      BY <2>10, <2>11, <3>1, <3>2
  <2>14. ASSUME NEW t \in Types, NEW p \in Listed, TypeRule[t].pendingPerLot
         PROVE  \E resident \in Listed :
                  /\ LotOf[resident] = LotOf[p]
                  /\ Cardinality(LotLoad(LotOf[p], t)') <= LotQuota(resident, t) + MaxInFlight - 1
    <3>1. CASE t = type /\ LotOf[p] = lot
      BY <2>2, <2>12, <2>14, <3>1
    <3>2. CASE t # type \/ LotOf[p] # lot
      <4>1. PICK resident \in Listed :
              /\ LotOf[resident] = LotOf[p]
              /\ Cardinality(LotLoad(LotOf[p], t)) <= LotQuota(resident, t) + MaxInFlight - 1
        BY <2>14 DEF PendingBound
      <4>2. /\ Cardinality(LotLoad(LotOf[p], t)') \in Nat /\ Cardinality(LotLoad(LotOf[p], t)) \in Nat
            /\ Cardinality(LotLoad(LotOf[p], t)') <= Cardinality(LotLoad(LotOf[p], t))
        BY <2>4, <2>5, <3>2, RequestSets
      <4>3. LotQuota(resident, t) \in Nat
        BY <2>10
      <4>4. Cardinality(LotLoad(LotOf[p], t)') <= LotQuota(resident, t) + MaxInFlight - 1
        BY <2>10, <4>1, <4>2, <4>3
      <4>5. QED
        BY <4>1, <4>4
    <3>3. QED
      BY <3>1, <3>2
  <2>15. ASSUME NEW t \in Types, NEW p \in Listed, ~TypeRule[t].pendingPerLot
         PROVE  Cardinality(UserLoad(p, t)') <= TypeRule[t].numberOfPending + MaxInFlight
    <3>1. CASE t = type /\ p = who
      BY <2>13, <2>15, <3>1
    <3>2. CASE t # type \/ p # who
      <4>1. Cardinality(UserLoad(p, t)) <= TypeRule[t].numberOfPending + MaxInFlight
        BY <2>15 DEF PendingBound
      <4>2. /\ Cardinality(UserLoad(p, t)') \in Nat /\ Cardinality(UserLoad(p, t)) \in Nat
            /\ Cardinality(UserLoad(p, t)') <= Cardinality(UserLoad(p, t))
        BY <2>4, <2>6, <3>2, RequestSets
      <4>3. QED
        BY <2>10, <4>1, <4>2
    <3>3. QED
      BY <3>1, <3>2
  <2>16. QED
    BY <2>14, <2>15 DEF PendingBound
<1>5. QED
  BY <1>3, <1>4

\* A handler that arrives is admitted while there is room for it; no other
\* step puts a handler under way.
LEMMA InFlightFrame ==
  ASSUME Cardinality(InFlight) <= MaxInFlight, InFlight' \subseteq InFlight
  PROVE  Cardinality(InFlight') <= MaxInFlight
<1>1. InFlight \subseteq Requests /\ InFlight' \subseteq Requests
  BY DEF InFlight
<1>2. /\ Cardinality(InFlight) \in Nat /\ Cardinality(InFlight') \in Nat
      /\ Cardinality(InFlight') <= Cardinality(InFlight)
  BY <1>1, RequestSets
<1>3. QED
  BY <1>2, BoundsAssumption

LEMMA QuotaFrame ==
  ASSUME QuotaInv, TypeInv', InFlight' \subseteq InFlight, now' >= now,
         \A q \in Requests :
           /\ CountedByMode(q)' => CountedByMode(q) /\ body'[q] = body[q]
           /\ CountedAsPending(q)' => CountedAsPending(q) /\ body'[q] = body[q]
  PROVE  QuotaInv'
<1>1. MonthBound'
  BY MonthFrame DEF QuotaInv
<1>2. PendingBound'
  BY PendingFrame DEF QuotaInv
<1>3. QED
  BY <1>1, <1>2, InFlightFrame DEF QuotaInv

LEMMA QuotaNext == QuotaInv /\ [Next]_vars => QuotaInv'
<1> SUFFICES ASSUME QuotaInv, [Next]_vars
             PROVE  QuotaInv'
  OBVIOUS
<1>1. TypeInv'
  BY TypeNext DEF QuotaInv
<1>2. /\ pc \in [Requests -> Phases] /\ rows \subseteq Requests /\ now \in Nat
      /\ body \in [Requests -> Bodies \cup {NULL}]
      /\ \A q \in Requests : pc[q] \in Unwritten => q \notin rows
      /\ Cardinality(InFlight) <= MaxInFlight
  BY DEF QuotaInv, TypeInv, TypeOK, RowsFollowPhases
<1> USE <1>1, <1>2
<1>3. ASSUME NEW q \in Requests, NEW b \in Bodies, Begin(q, b)
      PROVE  QuotaInv'
  <2>1. /\ pc[q] = "idle" /\ Cardinality(InFlight) < MaxInFlight
        /\ pc' = [pc EXCEPT ![q] = "lookup"]
        /\ q \notin rows /\ UNCHANGED <<rows, cancelled, now>>
        /\ body' = [body EXCEPT ![q] = b]
    BY <1>3 DEF Begin, Goto, Unwritten, tables
  <2>2. active' = active /\ q \notin active
    BY <2>1 DEF active
  <2>3. ASSUME NEW p \in Requests
        PROVE  /\ CountedByMode(p)' => CountedByMode(p) /\ body'[p] = body[p]
               /\ CountedAsPending(p)' => CountedAsPending(p) /\ body'[p] = body[p]
    BY <2>1, <2>2 DEF CountedByMode, CountedAsPending
  <2>4. InFlight' \subseteq InFlight \cup {q} /\ InFlight \subseteq Requests /\ InFlight' \subseteq Requests
    BY <2>1 DEF InFlight
  <2>5. /\ Cardinality(InFlight') \in Nat /\ Cardinality(InFlight) \in Nat
        /\ Cardinality({q}) \in Nat
        /\ Cardinality(InFlight') <= Cardinality(InFlight) + Cardinality({q})
    BY <2>4, CountAndHandlers
  <2>6. Cardinality({q}) = 1
    BY FS_Singleton
  <2>7. Cardinality(InFlight') <= MaxInFlight
    BY <2>1, <2>5, <2>6, BoundsAssumption
  <2>8. MonthBound'
    BY <2>3, MonthFrame DEF QuotaInv
  <2>9. PendingBound'
    BY <2>1, <2>3, PendingFrame DEF QuotaInv
  <2>10. QED
    BY <2>7, <2>8, <2>9 DEF QuotaInv
<1>4. ASSUME NEW q \in Requests,
             \/ RejectLookUp(q) \/ ValidateLock(q) \/ ValidateTime(q) \/ FindGuests(q)
             \/ ValidateDate(q)
      PROVE  QuotaInv'
  <2>1. /\ UNCHANGED <<body, rows, cancelled, now>>
        /\ pc' = [pc EXCEPT ![q] = pc'[q]]
        /\ pc'[q] \notin {"mode", "insert"} /\ q \in InFlight
    BY <1>4 DEF RejectLookUp, ValidateLock, ValidateTime, FindGuests, ValidateDate,
                Goto, tables, InFlight, Ended
  <2>2. active' = active /\ InFlight' \subseteq InFlight
    BY <2>1 DEF active, InFlight
  <2>3. QED
    BY <2>1, <2>2, QuotaFrame DEF CountedByMode, CountedAsPending
<1>5. ASSUME NEW q \in Requests, ValidatePending(q)
      PROVE  QuotaInv'
  <2>1. /\ UNCHANGED <<body, rows, cancelled, now>>
        /\ pc' = [pc EXCEPT ![q] = pc'[q]]
        /\ pc'[q] # "insert" /\ q \in InFlight
    BY <1>5 DEF ValidatePending, Goto, tables, InFlight, Ended
  <2>2. active' = active /\ InFlight' \subseteq InFlight
    BY <2>1 DEF active, InFlight
  <2>3. MonthBound'
    BY <2>1, <2>2, MonthFrame DEF QuotaInv, CountedByMode
  <2>4. PendingBound'
    BY <1>5, PendingValidatePending
  <2>5. QED
    BY <2>2, <2>3, <2>4, InFlightFrame DEF QuotaInv
<1>6. ASSUME NEW q \in Requests, ValidateMode(q)
      PROVE  QuotaInv'
  <2>1. /\ UNCHANGED <<body, rows, cancelled, now>>
        /\ pc' = [pc EXCEPT ![q] = pc'[q]]
        /\ pc[q] = "mode"
    BY <1>6 DEF ValidateMode, Goto, tables
  <2>2. active' = active /\ InFlight' \subseteq InFlight
    BY <2>1 DEF active, InFlight, Ended
  <2>3. MonthBound'
    BY <1>6, MonthValidateMode
  <2>4. PendingBound'
    BY <2>1, <2>2, PendingFrame DEF QuotaInv, CountedAsPending
  <2>5. QED
    BY <2>2, <2>3, <2>4, InFlightFrame DEF QuotaInv
<1>7. ASSUME NEW q \in Requests, Insert(q)
      PROVE  QuotaInv'
  <2>1. /\ pc[q] = "insert" /\ pc' = [pc EXCEPT ![q] = "event"]
        /\ rows' = rows \cup {q} /\ UNCHANGED <<body, cancelled, now>>
    BY <1>7 DEF Insert, Goto
  <2>2. active' \subseteq active \cup {q} /\ InFlight' \subseteq InFlight
    BY <2>1 DEF active, InFlight, Ended
  <2>3. QED
    BY <2>1, <2>2, QuotaFrame DEF CountedByMode, CountedAsPending
<1>8. ASSUME NEW q \in Requests, CreateEvent(q) \/ SaveParticipants(q) \/ Fail(q)
      PROVE  QuotaInv'
  <2>1. /\ UNCHANGED <<body, rows, cancelled, now>>
        /\ pc' = [pc EXCEPT ![q] = pc'[q]]
        /\ pc'[q] \notin {"mode", "insert"} /\ q \in InFlight
    BY <1>8 DEF CreateEvent, SaveParticipants, Fail, Goto, tables, InFlight, Ended
  <2>2. active' = active /\ InFlight' \subseteq InFlight
    BY <2>1 DEF active, InFlight
  <2>3. QED
    BY <2>1, <2>2, QuotaFrame DEF CountedByMode, CountedAsPending
<1>9. CASE (\E q \in Requests : Cancel(q)) \/ Tick \/ UNCHANGED vars
  <2>1. /\ UNCHANGED <<pc, body>> /\ active' \subseteq active /\ now' >= now
    BY <1>9 DEF Cancel, Tick, vars, tables, active
  <2>2. InFlight' = InFlight
    BY <2>1 DEF InFlight
  <2>3. QED
    BY <2>1, <2>2, QuotaFrame DEF CountedByMode, CountedAsPending
<1>10. QED
  BY <1>3, <1>4, <1>5, <1>6, <1>7, <1>8, <1>9 DEF Next, Step

\* Nothing is counted, and nobody is under way, at the start.
LEMMA QuotaInit == Init => QuotaInv
<1> SUFFICES ASSUME Init PROVE QuotaInv
  OBVIOUS
<1>1. InFlight = {} /\ MaxInFlight \in Nat /\ Cardinality({}) = 0
  BY BoundsAssumption, FS_EmptySet DEF Init, InFlight
<1>2. \A m, k : MonthLoad(m, k) = {}
  BY DEF Init, MonthLoad, CountedByMode, active
<1>3. \A x, t : LotLoad(x, t) = {} /\ UserLoad(x, t) = {}
  BY DEF Init, LotLoad, UserLoad, PendingLoad, CountedAsPending, active
<1>4. MonthBound
  <2> SUFFICES ASSUME NEW m \in Modes, ModeRule[m].maxPerMonth # 0
               PROVE  Cardinality({}) <= ModeRule[m].maxPerMonth + MaxInFlight - 1
    BY <1>2 DEF MonthBound
  <2>1. ModeRule[m].maxPerMonth \in Nat
    BY RulesAssumption
  <2>2. QED
    BY <1>1, <2>1
<1>5. PendingBound
  <2> SUFFICES ASSUME NEW t \in Types, NEW p \in Listed
               PROVE  /\ Cardinality({}) <= LotQuota(p, t) + MaxInFlight - 1
                      /\ Cardinality({}) <= TypeRule[t].numberOfPending + MaxInFlight
    BY <1>3 DEF PendingBound
  <2>1. LotQuota(p, t) \in Nat \ {0} /\ TypeRule[t].numberOfPending \in Nat
    BY QuotaOfLot, RulesAssumption, PeopleAssumption
  <2>2. QED
    BY <1>1, <2>1
<1>6. QED
  BY <1>1, <1>4, <1>5, TypeInit DEF QuotaInv

\* The quota of a month, of a lot and of a person is exceeded by at most the
\* handlers that overlap, however many rows and handlers there are: with one
\* handler at a time each quota is exact.
THEOREM QuotasAlwaysHold == Spec => []QuotasHold
<1>1. ASSUME QuotaInv
      PROVE  MonthlyQuota
  <2> SUFFICES ASSUME NEW m \in Modes, ModeRule[m].maxPerMonth # 0, NEW r \in rows
               PROVE  Cardinality(MonthRows(m, Month(body[r])))
                        <= ModeRule[m].maxPerMonth + MaxInFlight - 1
    BY DEF MonthlyQuota
  <2>1. body[r] \in Bodies /\ active \subseteq Requests
    BY <1>1 DEF QuotaInv, TypeInv, TypeOK, RowsFollowPhases, Unwritten, active
  <2>2. MonthRows(m, Month(body[r])) \subseteq MonthLoad(m, Month(body[r]))
    BY <2>1 DEF MonthRows, MonthLoad, CountedByMode
  <2>3. MonthLoad(m, Month(body[r])) \subseteq Requests
    BY DEF MonthLoad
  <2>4. /\ Cardinality(MonthRows(m, Month(body[r]))) \in Nat
        /\ Cardinality(MonthLoad(m, Month(body[r]))) \in Nat
        /\ Cardinality(MonthRows(m, Month(body[r]))) <= Cardinality(MonthLoad(m, Month(body[r])))
    BY <2>2, <2>3, RequestSets
  <2>5. Cardinality(MonthLoad(m, Month(body[r]))) <= ModeRule[m].maxPerMonth + MaxInFlight - 1
    BY <1>1, <2>1 DEF QuotaInv, MonthBound
  <2>6. QED
    BY <2>4, <2>5, RulesAssumption, BoundsAssumption
<1>2. ASSUME QuotaInv
      PROVE  PendingQuota
  <2> SUFFICES ASSUME NEW t \in Types, NEW p \in Listed
               PROVE  /\ TypeRule[t].pendingPerLot =>
                           \E resident \in Listed :
                             /\ LotOf[resident] = LotOf[p]
                             /\ Cardinality({r \in PendingOfLot(LotOf[p], t) :
                                               AuthorizedUser(body[r]) # NULL})
                                  <= LotQuota(resident, t) + MaxInFlight - 1
                      /\ ~TypeRule[t].pendingPerLot =>
                           Cardinality({r \in active : /\ AuthorizedUser(body[r]) = p
                                                       /\ body[r].type = t
                                                       /\ ToDate(body[r]) >= now})
                             <= TypeRule[t].numberOfPending + MaxInFlight
    BY DEF PendingQuota
  <2> DEFINE lotRows == {r \in PendingOfLot(LotOf[p], t) : AuthorizedUser(body[r]) # NULL}
             userRows == {r \in active : /\ AuthorizedUser(body[r]) = p
                                         /\ body[r].type = t
                                         /\ ToDate(body[r]) >= now}
  <2>1. active \subseteq Requests /\ p # NULL
    BY <1>2, PeopleAssumption DEF QuotaInv, TypeInv, TypeOK, active
  <2>2. lotRows \subseteq LotLoad(LotOf[p], t)
    BY <2>1 DEF LotLoad, PendingLoad, CountedAsPending, PendingOfLot
  <2>3. userRows \subseteq UserLoad(p, t)
    BY <2>1 DEF UserLoad, PendingLoad, CountedAsPending
  <2>4. LotLoad(LotOf[p], t) \subseteq Requests /\ UserLoad(p, t) \subseteq Requests
    BY DEF LotLoad, UserLoad, PendingLoad
  <2>5. /\ Cardinality(lotRows) \in Nat /\ Cardinality(LotLoad(LotOf[p], t)) \in Nat
        /\ Cardinality(lotRows) <= Cardinality(LotLoad(LotOf[p], t))
    BY <2>2, <2>4, RequestSets
  <2>6. /\ Cardinality(userRows) \in Nat /\ Cardinality(UserLoad(p, t)) \in Nat
        /\ Cardinality(userRows) <= Cardinality(UserLoad(p, t))
    BY <2>3, <2>4, RequestSets
  <2>7. /\ MaxInFlight \in Nat /\ TypeRule[t].numberOfPending \in Nat
        /\ \A resident \in Listed : LotQuota(resident, t) \in Nat
    BY BoundsAssumption, RulesAssumption, PeopleAssumption, QuotaOfLot
  <2>8. PendingBound
    BY <1>2 DEF QuotaInv
  <2> HIDE DEF lotRows, userRows
  <2>9. ASSUME TypeRule[t].pendingPerLot
        PROVE  \E resident \in Listed :
                 /\ LotOf[resident] = LotOf[p]
                 /\ Cardinality(lotRows) <= LotQuota(resident, t) + MaxInFlight - 1
    <3>1. PICK resident \in Listed :
            /\ LotOf[resident] = LotOf[p]
            /\ Cardinality(LotLoad(LotOf[p], t)) <= LotQuota(resident, t) + MaxInFlight - 1
      BY <2>8, <2>9 DEF PendingBound
    <3>2. LotQuota(resident, t) \in Nat
      BY <2>7
    <3>3. QED
      BY <2>5, <2>7, <3>1, <3>2
  <2>10. ASSUME ~TypeRule[t].pendingPerLot
         PROVE  Cardinality(userRows) <= TypeRule[t].numberOfPending + MaxInFlight
    <3>1. Cardinality(UserLoad(p, t)) <= TypeRule[t].numberOfPending + MaxInFlight
      BY <2>8, <2>10 DEF PendingBound
    <3>2. QED
      BY <2>6, <2>7, <3>1
  <2>11. QED
    BY <2>9, <2>10 DEF lotRows, userRows
<1>3. QuotaInv => QuotasHold
  BY <1>1, <1>2 DEF QuotasHold
<1>4. QED
  BY QuotaInit, QuotaNext, <1>3, PTL DEF Spec

-----------------------------------------------------------------------------
(* One handler at a time: the checks and the insert act as one step *)

\* The handler's insert books its slot, whose holders all share its mode.
LEMMA BoardInsert ==
  ASSUME SerialInv, NEW q \in Requests, Insert(q)
  PROVE  Board!Next
<1> USE DEF SerialInv, TypeInv, TypeOK
<1> DEFINE board == [p \in Requests |-> Booking(p)]
           slot == <<body[q].space, FromDate(body[q])>>
           mode == body[q].mode
<1>1. /\ pc[q] = "insert" /\ q \notin rows /\ q \notin cancelled
      /\ rows' = rows \cup {q} /\ UNCHANGED <<body, cancelled>>
  BY DEF Insert, Goto, RowsFollowPhases, Unwritten
<1>2. body[q] \in Bodies
  BY <1>1
<1>3. slot \in {<<b.space, FromDate(b)>> : b \in Bodies} /\ mode \in Modes
  BY <1>2, BodiesAssumption DEF BodyShape
<1>4. board[q] = NULL
  BY <1>1 DEF Booking
<1>5. ASSUME NEW r \in Board!Holders(slot)
      PROVE  board[r].mode = mode /\ mode \notin {m \in Modes : ModeRule[m].allRequired}
  <2>1. r \in Requests /\ board[r] # NULL /\ board[r].slot = slot /\ board[r].held
    BY <1>5 DEF Board!Holders
  <2>2. r \in active /\ slot = <<body[r].space, FromDate(body[r])>> /\ board[r].mode = body[r].mode
    BY <2>1 DEF Booking, active
  <2>3. r # q /\ SameSlot(body[r], body[q])
    BY <1>1, <2>2 DEF SameSlot, active
  <2>4. ~Clash(r, q)
    BY <1>1, <2>2 DEF Admitted
  <2>5. body[r].mode = mode /\ ~ModeRule[mode].allRequired
    BY <2>3, <2>4 DEF Clash
  <2>6. QED
    BY <2>2, <2>5
<1>6. board' = [board EXCEPT ![q] = [slot |-> slot, mode |-> mode, held |-> TRUE]]
  <2>1. Booking(q)' = [slot |-> slot, mode |-> mode, held |-> TRUE]
    BY <1>1 DEF Booking, FromDate
  <2>2. \A p \in Requests \ {q} : Booking(p)' = Booking(p)
    BY <1>1 DEF Booking, FromDate
  <2>3. QED
    BY <2>1, <2>2
<1>7. Board!Book(q, slot, mode)
  BY <1>4, <1>5, <1>6 DEF Board!Book
<1>8. QED
  BY <1>3, <1>7 DEF Board!Next

\* Setting cancelDate releases the slot.
LEMMA BoardCancel ==
  ASSUME TypeInv, NEW r \in Requests, Cancel(r)
  PROVE  Board!Next
<1> DEFINE board == [p \in Requests |-> Booking(p)]
<1>1. /\ r \in rows /\ r \notin cancelled /\ cancelled' = cancelled \cup {r}
      /\ UNCHANGED <<body, rows>> /\ body[r] \in Bodies
  BY DEF Cancel, active, TypeInv, TypeOK, RowsFollowPhases, Unwritten
<1>2. PICK slot, mode : slot = <<body[r].space, FromDate(body[r])>> /\ mode = body[r].mode
  OBVIOUS
<1>3. /\ slot \in {<<b.space, FromDate(b)>> : b \in Bodies}
      /\ mode \in Modes
  BY <1>1, <1>2, BodiesAssumption DEF BodyShape
<1>4. /\ Booking(r) = [slot |-> slot, mode |-> mode, held |-> TRUE]
      /\ Booking(r)' = [slot |-> slot, mode |-> mode, held |-> FALSE]
  BY <1>1, <1>2 DEF Booking, FromDate
<1>5. [slot |-> slot, mode |-> mode, held |-> TRUE] \in Board!Bookings
  BY <1>3 DEF Board!Bookings
<1>6. board[r] # NULL /\ board[r].held
  <2>1. board[r] = Booking(r)
    OBVIOUS
  <2>2. Booking(r) # NULL
    BY <1>4, <1>5, BoardAssumption, Zenon
  <2>3. \A h : [slot |-> slot, mode |-> mode, held |-> h].held = h
    OBVIOUS
  <2>4. Booking(r).held = TRUE
    BY <1>4, <2>3, Zenon
  <2>5. QED
    BY <2>1, <2>2, <2>4
<1>7. board' = [board EXCEPT ![r].held = FALSE]
  <2>1. \A h, k : [[slot |-> slot, mode |-> mode, held |-> h] EXCEPT !.held = k]
                     = [slot |-> slot, mode |-> mode, held |-> k]
    OBVIOUS
  <2>2. Booking(r)' = [Booking(r) EXCEPT !.held = FALSE]
    BY <1>4, <2>1, Zenon
  <2>3. \A p \in Requests \ {r} : Booking(p)' = Booking(p)
    BY <1>1 DEF Booking, FromDate
  <2>4. QED
    BY <2>2, <2>3
<1>8. Board!Release(r)
  BY <1>6, <1>7 DEF Board!Release
<1>9. QED
  BY <1>8 DEF Board!Next

\* Every step of a single handler is a step of the board, or leaves it alone.
LEMMA BoardStep ==
  ASSUME SerialInv, [Next]_vars
  PROVE  [Board!Next]_([q \in Requests |-> Booking(q)])
<1> SUFFICES Board!Next \/ \A q \in Requests : Booking(q)' = Booking(q)
  OBVIOUS
<1>1. ASSUME NEW q \in Requests, Insert(q)
      PROVE  Board!Next
  BY <1>1, BoardInsert
<1>2. ASSUME NEW q \in Requests, Cancel(q)
      PROVE  Board!Next
  BY <1>2, BoardCancel DEF SerialInv
<1>3. ASSUME NEW q \in Requests, NEW b \in Bodies, Begin(q, b)
      PROVE  \A p \in Requests : Booking(p)' = Booking(p)
  <2>1. q \notin rows /\ UNCHANGED <<rows, cancelled>> /\ body' = [body EXCEPT ![q] = b]
    BY <1>3 DEF Begin, SerialInv, TypeInv, RowsFollowPhases, Unwritten, tables
  <2>2. \A p \in rows : body'[p] = body[p]
    BY <2>1 DEF SerialInv, TypeInv, TypeOK
  <2>3. QED
    BY <2>1, <2>2 DEF Booking, FromDate
<1>4. CASE UNCHANGED <<body, rows, cancelled>>
  BY <1>4 DEF Booking, FromDate
<1>5. ASSUME NEW q \in Requests,
             \/ RejectLookUp(q) \/ ValidateLock(q) \/ ValidateTime(q) \/ FindGuests(q)
             \/ ValidateDate(q) \/ ValidatePending(q) \/ ValidateMode(q)
             \/ CreateEvent(q) \/ SaveParticipants(q) \/ Fail(q)
      PROVE  UNCHANGED <<body, rows, cancelled>>
  BY <1>5 DEF RejectLookUp, ValidateLock, ValidateTime, FindGuests, ValidateDate,
     ValidatePending, ValidateMode, CreateEvent, SaveParticipants, Fail, tables
<1>6. CASE Tick \/ UNCHANGED vars
  BY <1>4, <1>6 DEF Tick, vars, tables
<1>7. QED
  BY <1>1, <1>2, <1>3, <1>4, <1>5, <1>6 DEF Next, Step

\* When handlers do not overlap, create implements the board of slots: what
\* its separate queries and its insert do is a booking in one step.
THEOREM SerialImplementsBoard == MaxInFlight = 1 /\ Spec => ImplementsBoard
<1> SUFFICES ASSUME MaxInFlight = 1
             PROVE  Spec => ImplementsBoard
  OBVIOUS
<1>1. Init => Board!Init
  BY DEF Init, Board!Init, Booking
<1>2. SerialInv /\ [Next]_vars => SerialInv'
  BY SerialNext
<1>3. SerialInv /\ [Next]_vars => [Board!Next]_([q \in Requests |-> Booking(q)])
  BY BoardStep
<1>4. QED
  BY SerialInit, <1>1, <1>2, <1>3, PTL DEF Spec, Board!Spec, ImplementsBoard
=============================================================================
