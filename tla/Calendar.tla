-------------------------------- MODULE Calendar --------------------------------
(***************************************************************************)
(* The two places in which dates are computed: a visit of several days is  *)
(* divided into one row per day (events.service.ts), and a reservation is  *)
(* compared with the locks of its space by the day of the week, and by     *)
(* whether the day or the next is a holiday (reservations.service.ts).     *)
(*                                                                         *)
(* An instant is a number of units since a midnight UTC; the end of a day  *)
(* is the unit before the next midnight.  A customer's offset is added to  *)
(* an instant to get what its clocks show.  Day 0 is a Sunday.             *)
(***************************************************************************)
EXTENDS Integers, FiniteSets

CONSTANTS
  Day,     \* units in a day
  Visits,  \* visits to divide: [from, to, permanent], as clocks show them
  Slots,   \* slots to look up: [from, to, offset, holidays, lock]
  NULL

listDays == <<"sun", "mon", "tue", "wed", "thu", "fri", "sat">>
Kinds == {listDays[i] : i \in 1..7} \cup {"holiday", "holidayEve"}

\* A row of the table of locks has schedules for several kinds of day; a lock
\* here is one schedule with its row.  Its date is NULL or an instant.
Lock == [date : Int \cup {NULL}, ignoreIfHoliday : BOOLEAN, kind : Kinds,
         from : 0..(Day - 1), to : 0..(Day - 1)]

ASSUME CalendarAssumption ==
  /\ Day \in Nat \ {0}
  /\ Visits \subseteq [from : Int, to : Int, permanent : BOOLEAN]
  /\ \A v \in Visits : v.from <= v.to
  /\ Slots \subseteq [from : Int, to : Int, offset : Int, holidays : SUBSET Int, lock : Lock]
  /\ NULL \notin BOOLEAN

VARIABLES
  asked,  \* the visit or slot the code is given
  rows,   \* the rows a visit was divided into, NULL before
  locked  \* whether the slot's lock applies, NULL before

vars == <<asked, rows, locked>>

DateOf(t) == t \div Day
StartOf(t) == DateOf(t) * Day
EndOf(t) == StartOf(t) + Day - 1
TimeOf(t) == t % Day

-----------------------------------------------------------------------------
(* Dividing a visit *)

\* Whole days between the two ends, not midnights.
Diff(v) == (v.to - v.from) \div Day

\* Row i begins i days after the first; the last one ends when the visit does.
RowsOneShort(v) ==  \* mutant: the last day is not added
  LET n == IF v.permanent \/ Diff(v) = 0 THEN 0 ELSE Diff(v) - 1 IN
  [i \in 0..n |->
    [from |-> IF i = 0 THEN v.from ELSE StartOf(v.from + i * Day),
     to |-> IF i = n THEN v.to ELSE EndOf(v.from + i * Day)]]
RowsFromNoon(v) ==  \* mutant: every row begins at the first one's time of day
  LET n == IF v.permanent THEN 0 ELSE Diff(v) IN
  [i \in 0..n |->
    [from |-> v.from + i * Day,
     to |-> IF i = n THEN v.to ELSE EndOf(v.from + i * Day)]]
Divided(v) ==
  LET n == IF v.permanent THEN 0 ELSE Diff(v) IN
  [i \in 0..n |->
    [from |-> IF i = 0 THEN v.from ELSE StartOf(v.from + i * Day),
     to |-> IF i = n THEN v.to ELSE EndOf(v.from + i * Day)]]

-----------------------------------------------------------------------------
(* Whether a lock applies *)

\* The instant at which the day of t begins where clocks show offset more.
StartOfDayAt(t, offset) == StartOf(t + offset) - offset

WeekDay(t, offset) == listDays[(DateOf(t + offset) % 7) + 1]

ApplicableKindsUtc(s) ==  \* mutant: the day is the one of the server's clock
  {WeekDay(s.from, 0)}
    \cup (IF StartOf(s.from) \in s.holidays THEN {"holiday"}
          ELSE IF StartOf(s.from) + Day \in s.holidays THEN {"holidayEve"} ELSE {})
ApplicableKinds(s) ==
  LET today == StartOfDayAt(s.from, s.offset) IN
  {WeekDay(s.from, s.offset)}
    \cup (IF today \in s.holidays THEN {"holiday"}
          ELSE IF today + Day \in s.holidays THEN {"holidayEve"} ELSE {})

ShouldIgnore(s) == StartOfDayAt(s.from, s.offset) \in s.holidays /\ s.lock.ignoreIfHoliday

HasLock(s) ==
  /\ s.lock.date \in {NULL, StartOfDayAt(s.from, s.offset)}
  /\ s.lock.kind \in ApplicableKinds(s)
  /\ ~ShouldIgnore(s)
  /\ TimeOf(s.from + s.offset) = s.lock.from
  /\ TimeOf(s.to + s.offset) = s.lock.to

-----------------------------------------------------------------------------
Init ==
  /\ asked \in [visit : Visits, slot : {NULL}] \cup [visit : {NULL}, slot : Slots]
  /\ rows = NULL
  /\ locked = NULL

DivideEventIntoDays ==
  /\ asked.visit # NULL /\ rows = NULL
  /\ rows' = Divided(asked.visit)
  /\ UNCHANGED <<asked, locked>>

ValidateLock ==
  /\ asked.slot # NULL /\ locked = NULL
  /\ locked' = HasLock(asked.slot)
  /\ UNCHANGED <<asked, rows>>

Next == DivideEventIntoDays \/ ValidateLock

Spec == Init /\ [][Next]_vars

-----------------------------------------------------------------------------
(* The rows tile the visit: the first begins and the last ends with it,     *)
(* each begins right after the one before, and none ends before it begins.  *)
Tiles(rs, v) ==
  \E n \in DOMAIN rs :
    /\ DOMAIN rs = 0..n
    /\ rs[0].from = v.from
    /\ rs[n].to = v.to
    /\ \A i \in 0..n : rs[i].from <= rs[i].to
    /\ \A i \in 1..n : rs[i].from = rs[i - 1].to + 1

\* A visit of several days is divided without a gap and without an overlap.
RowsTileVisit == rows # NULL => Tiles(rows, asked.visit)

\* Unless the visit is permanent, row i is about its i-th day and keeps to it; but
\* a visit that ends at an earlier time of day than it began has its last day in
\* the row of the day before.
OneRowPerDay ==
  (rows # NULL /\ ~asked.visit.permanent) =>
    \A i \in DOMAIN rows :
      /\ DateOf(rows[i].from) = DateOf(asked.visit.from) + i
      /\ \/ DateOf(rows[i].to) = DateOf(rows[i].from)
         \/ /\ i + 1 \notin DOMAIN rows
            /\ DateOf(rows[i].to) = DateOf(rows[i].from) + 1
            /\ TimeOf(asked.visit.to) < TimeOf(asked.visit.from)

\* What a person reads off a calendar and a clock on the spot: the dates that
\* are holidays, the date and the times of the slot.
ClosedOnTheSpot(s) ==
  LET date == DateOf(s.from + s.offset)
      holidays == {DateOf(h + s.offset) : h \in s.holidays} IN
  /\ s.lock.date # NULL => DateOf(s.lock.date + s.offset) = date
  /\ \/ s.lock.kind = listDays[(date % 7) + 1] /\ (date \in holidays => ~s.lock.ignoreIfHoliday)
     \/ s.lock.kind = "holiday" /\ date \in holidays /\ ~s.lock.ignoreIfHoliday
     \/ s.lock.kind = "holidayEve" /\ date \notin holidays /\ date + 1 \in holidays
  /\ TimeOf(s.from + s.offset) = s.lock.from
  /\ TimeOf(s.to + s.offset) = s.lock.to

\* A lock applies exactly when its kind of day and its times are those the
\* customer's own calendar and clocks show, whatever the offset; provided the
\* dates of holidays and locks are midnights of that offset.
LockedAsOnTheSpot ==
  (/\ locked # NULL
   /\ \A h \in asked.slot.holidays : TimeOf(h + asked.slot.offset) = 0
   /\ asked.slot.lock.date # NULL => TimeOf(asked.slot.lock.date + asked.slot.offset) = 0)
    => (locked <=> ClosedOnTheSpot(asked.slot))
=============================================================================
