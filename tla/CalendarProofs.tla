----------------------------- MODULE CalendarProofs -----------------------------
(***************************************************************************)
(* Proofs about Calendar, for days of any length, every visit, and every   *)
(* slot, offset, lock and list of holidays.                                *)
(***************************************************************************)
EXTENDS Calendar, TLAPS

\* What \div and % promise.
LEMMA Division ==
  ASSUME NEW t \in Int
  PROVE  /\ DateOf(t) \in Int /\ TimeOf(t) \in 0..(Day - 1)
         /\ t = DateOf(t) * Day + TimeOf(t)
BY CalendarAssumption DEF DateOf, TimeOf

\* The quotient is the only number of whole days that leaves less than a day.
LEMMA QuotientUnique ==
  ASSUME NEW q \in Int, NEW p \in Int, NEW a \in 0..(Day - 1), NEW b \in 0..(Day - 1),
         q * Day + a = p * Day + b
  PROVE  q = p /\ a = b
<1>1. Day \in Nat /\ Day > 0
  BY CalendarAssumption
<1>2. (q - p) * Day = b - a
  BY <1>1
<1>3. ASSUME q - p >= 1 PROVE FALSE
  <2>1. (q - p) * Day >= Day
    BY <1>1, <1>3
  <2>2. QED
    BY <1>1, <1>2, <2>1
<1>4. ASSUME q - p <= -1 PROVE FALSE
  <2>1. (q - p) * Day <= -Day
    BY <1>1, <1>4
  <2>2. QED
    BY <1>1, <1>2, <2>1
<1>5. q = p
  BY <1>3, <1>4
<1>6. QED
  BY <1>1, <1>2, <1>5

LEMMA DateOfSum ==
  ASSUME NEW q \in Int, NEW a \in 0..(Day - 1)
  PROVE  DateOf(q * Day + a) = q /\ TimeOf(q * Day + a) = a
<1> DEFINE t == q * Day + a
<1>1. t \in Int
  BY CalendarAssumption
<1>2. /\ DateOf(t) \in Int /\ TimeOf(t) \in 0..(Day - 1)
      /\ t = DateOf(t) * Day + TimeOf(t)
  BY <1>1, Division
<1>3. QED
  BY <1>2, QuotientUnique

LEMMA DaysLater ==
  ASSUME NEW t \in Int, NEW i \in Int
  PROVE  /\ DateOf(t + i * Day) = DateOf(t) + i
         /\ TimeOf(t + i * Day) = TimeOf(t)
<1>1. /\ DateOf(t) \in Int /\ TimeOf(t) \in 0..(Day - 1)
      /\ t = DateOf(t) * Day + TimeOf(t)
  BY Division
<1>2. (DateOf(t) + i) * Day = DateOf(t) * Day + i * Day
  BY <1>1, CalendarAssumption
<1>3. t + i * Day = (DateOf(t) + i) * Day + TimeOf(t)
  BY <1>1, <1>2, CalendarAssumption
<1>4. QED
  BY <1>1, <1>3, DateOfSum

-----------------------------------------------------------------------------
(* Dividing a visit *)

\* Where the rows of a visit begin and end, in days since the epoch.
Last(v) == IF v.permanent THEN 0 ELSE Diff(v)
Slack(v) == TimeOf(v.from) + TimeOf(v.to - v.from)

LEMMA VisitTypes ==
  ASSUME NEW v \in Visits
  PROVE  v.from \in Int /\ v.to \in Int /\ v.from <= v.to /\ v.permanent \in BOOLEAN
BY CalendarAssumption

LEMMA VisitEnds ==
  ASSUME NEW v \in Visits
  PROVE  /\ Diff(v) \in Nat /\ Last(v) \in Nat
         /\ Slack(v) \in 0..(2 * Day - 2)
         /\ v.to = (DateOf(v.from) + Diff(v)) * Day + Slack(v)
<1>1. v.from \in Int /\ v.to \in Int /\ v.from <= v.to /\ Day \in Nat /\ Day > 0
  BY VisitTypes, CalendarAssumption
<1> DEFINE d == v.to - v.from
           D == DateOf(v.from)
           a == TimeOf(v.from)
           r == TimeOf(d)
<1>2. d \in Int /\ d >= 0
  BY <1>1
<1>3. Diff(v) = DateOf(d)
  BY DEF Diff, DateOf
<1>4. /\ DateOf(d) \in Int /\ r \in 0..(Day - 1) /\ d = DateOf(d) * Day + r
      /\ D \in Int /\ a \in 0..(Day - 1) /\ v.from = D * Day + a
  BY <1>1, <1>2, Division
<1>5. DateOf(d) >= 0
  <2>1. SUFFICES ASSUME DateOf(d) <= -1 PROVE FALSE
    BY <1>4
  <2>2. DateOf(d) * Day <= -Day
    BY <2>1, <1>1, <1>4
  <2>3. QED
    BY <2>2, <1>1, <1>2, <1>4
<1>6. (D + DateOf(d)) * Day = D * Day + DateOf(d) * Day
  BY <1>1, <1>4
<1>7. v.to = (D + DateOf(d)) * Day + (a + r)
  <2>1. v.to = v.from + d
    BY <1>1
  <2>2. D * Day \in Int /\ DateOf(d) * Day \in Int /\ a \in Int /\ r \in Int
    BY <1>1, <1>4
  <2>3. QED
    BY <1>4, <1>6, <2>1, <2>2
<1>8. a + r \in 0..(2 * Day - 2)
  BY <1>1, <1>4
<1>9. QED
  BY <1>3, <1>4, <1>5, <1>7, <1>8 DEF Last, Slack

LEMMA RowEnds ==
  ASSUME NEW v \in Visits, NEW i \in 0..Last(v)
  PROVE  /\ DOMAIN Divided(v) = 0..Last(v)
         /\ Divided(v)[i].from = IF i = 0 THEN v.from ELSE (DateOf(v.from) + i) * Day
         /\ Divided(v)[i].to = IF i = Last(v) THEN v.to
                               ELSE (DateOf(v.from) + i) * Day + Day - 1
<1>1. Last(v) \in Nat /\ v.from \in Int
  BY VisitEnds, VisitTypes
<1>2. StartOf(v.from + i * Day) = (DateOf(v.from) + i) * Day
  BY <1>1, DaysLater DEF StartOf
<1>3. EndOf(v.from + i * Day) = (DateOf(v.from) + i) * Day + Day - 1
  BY <1>2 DEF EndOf
<1>4. Divided(v) = [j \in 0..Last(v) |->
        [from |-> IF j = 0 THEN v.from ELSE StartOf(v.from + j * Day),
         to |-> IF j = Last(v) THEN v.to ELSE EndOf(v.from + j * Day)]]
  BY DEF Divided, Last
<1>5. QED
  BY <1>2, <1>3, <1>4

LEMMA VisitTiled ==
  ASSUME NEW v \in Visits
  PROVE  Tiles(Divided(v), v)
<1> DEFINE n == Last(v)
           D == DateOf(v.from)
<1>1. /\ n \in Nat /\ Day \in Nat /\ Day > 0 /\ D \in Int
      /\ v.from \in Int /\ v.to \in Int /\ v.from <= v.to
  BY VisitEnds, VisitTypes, Division, CalendarAssumption
<1>2. ASSUME NEW i \in 0..n PROVE Divided(v)[i].from <= Divided(v)[i].to
  <2>1. CASE i = n /\ i # 0
    <3>1. n = Diff(v)
      BY <2>1 DEF Last
    <3>2. v.to = (D + i) * Day + Slack(v) /\ Slack(v) \in Nat
      BY <2>1, <3>1, VisitEnds
    <3>3. (D + i) * Day <= v.to
      BY <3>2, <1>1
    <3>4. QED
      BY <2>1, <3>3, RowEnds
  <2>2. CASE i = n /\ i = 0
    BY <2>2, <1>1, RowEnds
  <2>3. CASE i # n
    <3>1. v.from <= D * Day + Day - 1
      <4>1. v.from = D * Day + TimeOf(v.from) /\ TimeOf(v.from) \in 0..(Day - 1)
        BY <1>1, Division
      <4>2. QED
        BY <1>1, <4>1
    <3>2. (D + i) * Day <= (D + i) * Day + Day - 1
      BY <1>1
    <3>3. CASE i = 0
      <4>1. (D + 0) * Day = D * Day
        BY <1>1
      <4>2. QED
        BY <2>3, <3>1, <3>3, <4>1, RowEnds
    <3>4. CASE i # 0
      BY <2>3, <3>2, <3>4, RowEnds
    <3>5. QED
      BY <3>3, <3>4
  <2>4. QED
    BY <2>1, <2>2, <2>3
<1>3. ASSUME NEW i \in 1..n PROVE Divided(v)[i].from = Divided(v)[i - 1].to + 1
  <2>1. i \in 0..n /\ i - 1 \in 0..n /\ i # 0 /\ i - 1 # n
    BY <1>1
  <2>2. Divided(v)[i].from = (D + i) * Day /\ Divided(v)[i - 1].to = (D + (i - 1)) * Day + Day - 1
    BY <2>1, RowEnds
  <2>3. (D + i) * Day = (D + (i - 1)) * Day + Day
    BY <1>1
  <2>4. QED
    BY <1>1, <2>2, <2>3
<1>4. /\ 0 \in 0..n /\ n \in 0..n
  BY <1>1
<1>5. /\ DOMAIN Divided(v) = 0..n
      /\ Divided(v)[0].from = v.from
      /\ Divided(v)[n].to = v.to
  BY <1>4, RowEnds
<1>6. QED
  BY <1>2, <1>3, <1>4, <1>5 DEF Tiles

LEMMA VisitByDays ==
  ASSUME NEW v \in Visits, ~v.permanent, NEW i \in 0..Last(v)
  PROVE  /\ DateOf(Divided(v)[i].from) = DateOf(v.from) + i
         /\ \/ DateOf(Divided(v)[i].to) = DateOf(Divided(v)[i].from)
            \/ /\ i = Last(v)
               /\ DateOf(Divided(v)[i].to) = DateOf(Divided(v)[i].from) + 1
               /\ TimeOf(v.to) < TimeOf(v.from)
<1> DEFINE D == DateOf(v.from)
<1>1. /\ Last(v) \in Nat /\ Last(v) = Diff(v) /\ Day \in Nat /\ Day > 0 /\ D \in Int
      /\ TimeOf(v.from) \in 0..(Day - 1) /\ v.from \in Int /\ v.to \in Int
  BY VisitEnds, VisitTypes, Division, CalendarAssumption DEF Last
<1>2. DateOf((D + i) * Day) = D + i
  <2>1. D + i \in Int /\ 0 \in 0..(Day - 1) /\ (D + i) * Day + 0 = (D + i) * Day
    BY <1>1
  <2>2. QED
    BY <2>1, DateOfSum
<1>3. DateOf(Divided(v)[i].from) = D + i
  BY <1>1, <1>2, RowEnds
<1>4. CASE i # Last(v)
  <2>1. /\ D + i \in Int /\ Day - 1 \in 0..(Day - 1)
        /\ (D + i) * Day + (Day - 1) = (D + i) * Day + Day - 1
    BY <1>1
  <2>2. DateOf((D + i) * Day + Day - 1) = D + i
    BY <2>1, DateOfSum
  <2>3. QED
    BY <1>3, <1>4, <2>2, RowEnds
<1>5. CASE i = Last(v)
  <2>1. v.to = (D + i) * Day + Slack(v) /\ Slack(v) \in 0..(2 * Day - 2)
    BY <1>1, <1>5, VisitEnds
  <2>2. Divided(v)[i].to = v.to
    BY <1>5, RowEnds
  <2>3. CASE Slack(v) < Day
    <3>1. DateOf(v.to) = D + i
      BY <1>1, <2>1, <2>3, DateOfSum
    <3>2. QED
      BY <1>3, <2>2, <3>1
  <2>4. CASE Slack(v) >= Day
    <3>1. /\ D + i + 1 \in Int /\ Slack(v) - Day \in 0..(Day - 1)
      BY <1>1, <2>1, <2>4
    <3>2. v.to = (D + i + 1) * Day + (Slack(v) - Day)
      BY <1>1, <2>1
    <3>3. DateOf(v.to) = D + i + 1 /\ TimeOf(v.to) = Slack(v) - Day
      BY <3>1, <3>2, DateOfSum
    <3>4. TimeOf(v.to - v.from) \in 0..(Day - 1)
      BY <1>1, Division
    <3>5. Slack(v) - Day < TimeOf(v.from)
      BY <1>1, <3>4 DEF Slack
    <3>6. QED
      BY <1>3, <1>5, <2>2, <3>3, <3>5
  <2>5. QED
    BY <1>1, <2>1, <2>3, <2>4
<1>6. QED
  BY <1>4, <1>5

-----------------------------------------------------------------------------
(* Whether a lock applies *)

\* An instant at which local clocks show midnight is known by its date.
LEMMA MidnightByDate ==
  ASSUME NEW x \in Int, NEW o \in Int, NEW k \in Int, TimeOf(x + o) = 0
  PROVE  DateOf(x + o) = k <=> x = k * Day - o
<1>1. x + o = DateOf(x + o) * Day + 0 /\ DateOf(x + o) \in Int
  BY Division
<1>2. k * Day \in Int /\ DateOf(x + o) * Day \in Int
  BY <1>1, CalendarAssumption
<1>3. ASSUME x = k * Day - o PROVE DateOf(x + o) = k
  <2>1. x + o = k * Day + 0 /\ 0 \in 0..(Day - 1)
    BY <1>2, <1>3, CalendarAssumption
  <2>2. QED
    BY <2>1, DateOfSum
<1>4. QED
  BY <1>1, <1>2, <1>3

LEMMA SlotTypes ==
  ASSUME NEW s \in Slots
  PROVE  /\ s.from \in Int /\ s.to \in Int /\ s.offset \in Int
         /\ s.holidays \subseteq Int
         /\ s.lock.date \in Int \cup {NULL}
         /\ s.lock.kind \in Kinds
         /\ DateOf(s.from + s.offset) \in Int
<1>1. /\ s.from \in Int /\ s.to \in Int /\ s.offset \in Int
      /\ s.holidays \in SUBSET Int /\ s.lock \in Lock
  BY CalendarAssumption
<1>2. s.lock.date \in Int \cup {NULL} /\ s.lock.kind \in Kinds
  BY <1>1 DEF Lock
<1>3. DateOf(s.from + s.offset) \in Int
  BY <1>1, Division
<1>4. QED
  BY <1>1, <1>2, <1>3

LEMMA WeekDaysAreNoHolidays ==
  ASSUME NEW k \in Int
  PROVE  listDays[(k % 7) + 1] \notin {"holiday", "holidayEve"}
<1>1. (k % 7) + 1 \in 1..7
  OBVIOUS
<1>2. \A i \in 1..7 : listDays[i] \notin {"holiday", "holidayEve"}
  BY DEF listDays
<1>3. QED
  BY <1>1, <1>2

LEMMA LockAgrees ==
  ASSUME NEW s \in Slots,
         \A h \in s.holidays : TimeOf(h + s.offset) = 0,
         s.lock.date # NULL => TimeOf(s.lock.date + s.offset) = 0
  PROVE  HasLock(s) <=> ClosedOnTheSpot(s)
<1> DEFINE date == DateOf(s.from + s.offset)
           today == StartOfDayAt(s.from, s.offset)
           holidays == {DateOf(h + s.offset) : h \in s.holidays}
           week == listDays[(date % 7) + 1]
<1>1. today = date * Day - s.offset
  BY DEF StartOfDayAt, StartOf
<1>2. /\ date \in Int /\ s.offset \in Int /\ s.holidays \subseteq Int /\ Day \in Int
      /\ s.lock.date \in Int \cup {NULL}
  BY SlotTypes, CalendarAssumption
<1>3. \A h \in s.holidays, k \in Int : DateOf(h + s.offset) = k <=> h = k * Day - s.offset
  BY <1>2, MidnightByDate
<1>4. date \in holidays <=> today \in s.holidays
  BY <1>1, <1>2, <1>3
<1>5. date + 1 \in holidays <=> today + Day \in s.holidays
  <2>1. date + 1 \in Int
    BY <1>2
  <2>2. (date + 1) * Day - s.offset = today + Day
    BY <1>1, <1>2
  <2>3. date + 1 \in holidays <=> (date + 1) * Day - s.offset \in s.holidays
    BY <2>1, <1>3
  <2>4. QED
    BY <2>2, <2>3
<1>6. s.lock.date \in {NULL, today} <=> (s.lock.date # NULL => DateOf(s.lock.date + s.offset) = date)
  <2>1. s.lock.date # NULL => (DateOf(s.lock.date + s.offset) = date <=> s.lock.date = today)
    BY <1>1, <1>2, MidnightByDate
  <2>2. QED
    BY <2>1
<1>7. week \notin {"holiday", "holidayEve"} /\ week = WeekDay(s.from, s.offset)
  BY <1>2, WeekDaysAreNoHolidays DEF WeekDay
<1>8. s.lock.kind \in ApplicableKinds(s) <=>
        \/ s.lock.kind = week
        \/ s.lock.kind = "holiday" /\ date \in holidays
        \/ s.lock.kind = "holidayEve" /\ date \notin holidays /\ date + 1 \in holidays
  <2>1. ApplicableKinds(s) = {week} \cup (IF today \in s.holidays THEN {"holiday"}
                                          ELSE IF today + Day \in s.holidays
                                               THEN {"holidayEve"} ELSE {})
    BY <1>7 DEF ApplicableKinds
  <2>2. CASE today \in s.holidays
    <3>1. ApplicableKinds(s) = {week, "holiday"}
      BY <2>1, <2>2
    <3>2. QED
      BY <2>2, <3>1, <1>4
  <2>3. CASE today \notin s.holidays /\ today + Day \in s.holidays
    <3>1. ApplicableKinds(s) = {week, "holidayEve"}
      BY <2>1, <2>3
    <3>2. QED
      BY <2>3, <3>1, <1>4, <1>5
  <2>4. CASE today \notin s.holidays /\ today + Day \notin s.holidays
    <3>1. ApplicableKinds(s) = {week}
      BY <2>1, <2>4
    <3>2. QED
      BY <2>4, <3>1, <1>4, <1>5
  <2>5. QED
    BY <2>2, <2>3, <2>4
<1>9. ShouldIgnore(s) <=> date \in holidays /\ s.lock.ignoreIfHoliday
  BY <1>4 DEF ShouldIgnore
<1>10. ClosedOnTheSpot(s) <=>
         /\ s.lock.date # NULL => DateOf(s.lock.date + s.offset) = date
         /\ \/ s.lock.kind = week /\ (date \in holidays => ~s.lock.ignoreIfHoliday)
            \/ s.lock.kind = "holiday" /\ date \in holidays /\ ~s.lock.ignoreIfHoliday
            \/ s.lock.kind = "holidayEve" /\ date \notin holidays /\ date + 1 \in holidays
         /\ TimeOf(s.from + s.offset) = s.lock.from
         /\ TimeOf(s.to + s.offset) = s.lock.to
  BY Zenon DEF ClosedOnTheSpot
<1>11. HasLock(s) <=>
         /\ s.lock.date \in {NULL, today}
         /\ s.lock.kind \in ApplicableKinds(s)
         /\ ~ShouldIgnore(s)
         /\ TimeOf(s.from + s.offset) = s.lock.from
         /\ TimeOf(s.to + s.offset) = s.lock.to
  BY Zenon DEF HasLock
<1> HIDE DEF date, today, holidays, week
<1>12. QED
  BY <1>6, <1>8, <1>9, <1>10, <1>11, Zenon

-----------------------------------------------------------------------------
(* The runs' properties, for every calendar *)

\* What the code answers is about what it was asked.
Answers ==
  /\ asked \in [visit : Visits, slot : {NULL}] \cup [visit : {NULL}, slot : Slots]
  /\ rows # NULL => asked.visit \in Visits /\ rows = Divided(asked.visit)
  /\ locked # NULL => asked.slot \in Slots /\ locked = HasLock(asked.slot)

LEMMA AnswersCorrect == Spec => []Answers
<1>1. Init => Answers
  BY DEF Init, Answers
<1>2. Answers /\ [Next]_vars => Answers'
  <2> SUFFICES ASSUME Answers, [Next]_vars PROVE Answers'
    OBVIOUS
  <2> USE DEF Answers
  <2>1. CASE DivideEventIntoDays
    <3>1. asked.visit \in Visits
      BY <2>1 DEF DivideEventIntoDays
    <3>2. QED
      BY <2>1, <3>1 DEF DivideEventIntoDays
  <2>2. CASE ValidateLock
    <3>1. asked.slot \in Slots
      BY <2>2 DEF ValidateLock
    <3>2. QED
      BY <2>2, <3>1 DEF ValidateLock
  <2>3. CASE UNCHANGED vars
    BY <2>3 DEF vars
  <2>4. QED
    BY <2>1, <2>2, <2>3 DEF Next
<1>3. QED
  BY <1>1, <1>2, PTL DEF Spec

\* A visit of any length is divided without gap or overlap, whatever the length
\* of a day (EventsService.divideEventIntoDays).
THEOREM VisitsTiled == Spec => []RowsTileVisit
<1>1. Answers => RowsTileVisit
  BY VisitTiled DEF Answers, RowsTileVisit
<1>2. QED
  BY <1>1, AnswersCorrect, PTL

\* Row i is about day i of the visit, and only the last one may go on into the
\* next day (EventsService.divideEventIntoDays).
THEOREM VisitsByDays == Spec => []OneRowPerDay
<1>1. Answers => OneRowPerDay
  <2> SUFFICES ASSUME Answers, rows # NULL, ~asked.visit.permanent, NEW i \in DOMAIN rows
               PROVE  /\ DateOf(rows[i].from) = DateOf(asked.visit.from) + i
                      /\ \/ DateOf(rows[i].to) = DateOf(rows[i].from)
                         \/ /\ i + 1 \notin DOMAIN rows
                            /\ DateOf(rows[i].to) = DateOf(rows[i].from) + 1
                            /\ TimeOf(asked.visit.to) < TimeOf(asked.visit.from)
    BY DEF OneRowPerDay
  <2> DEFINE v == asked.visit
  <2>1. v \in Visits /\ rows = Divided(v)
    BY DEF Answers
  <2>2. Last(v) \in Nat
    BY <2>1, VisitEnds
  <2>3. DOMAIN rows = 0..Last(v)
    <3>1. 0 \in 0..Last(v)
      BY <2>2
    <3>2. QED
      BY <2>1, <3>1, RowEnds
  <2>4. i = Last(v) => i + 1 \notin DOMAIN rows
    BY <2>2, <2>3
  <2>5. QED
    BY <2>1, <2>3, <2>4, VisitByDays
<1>2. QED
  BY <1>1, AnswersCorrect, PTL

\* A lock applies when the customer's calendar and clocks say so, for every offset
\* and every list of holidays (ReservationService.validateLock).
THEOREM LocksAsOnTheSpot == Spec => []LockedAsOnTheSpot
<1>1. Answers => LockedAsOnTheSpot
  BY LockAgrees DEF Answers, LockedAsOnTheSpot
<1>2. QED
  BY <1>1, AnswersCorrect, PTL
=============================================================================
