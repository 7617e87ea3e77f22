------------------------------ MODULE MCCalendar ------------------------------
(* A small instance of Calendar for TLC. *)
EXTENDS Calendar, TLC

\* Visits of up to three days, beginning at every time of a day.
SomeVisits ==
  {v \in [from : 0..(2 * Day), to : 0..(5 * Day), permanent : BOOLEAN] : v.from <= v.to}

\* A day whose offset puts it into the next or the former one; a holiday before,
\* on and after it, each stored as its local midnight.
SomeSlots ==
  {[from |-> f, to |-> f + d, offset |-> o, holidays |-> {h * Day - o : h \in hs},
    lock |-> [date |-> IF l.dated THEN l.on * Day - o ELSE NULL,
              ignoreIfHoliday |-> l.ignore, kind |-> l.kind, from |-> l.at, to |-> (l.at + 1) % Day]] :
     f \in Day..(3 * Day - 1), d \in {1, Day + 1}, o \in {-1, 0, 2}, hs \in SUBSET {1, 2, 3},
     l \in [dated : {TRUE}, on : {1, 2}, ignore : BOOLEAN, kind : {"mon", "holidayEve"}, at : {0, 2}]
             \cup [dated : {FALSE}, on : {1}, ignore : BOOLEAN,
                   kind : {"mon", "tue", "wed", "holiday", "holidayEve"}, at : 0..(Day - 1)]}
=============================================================================
