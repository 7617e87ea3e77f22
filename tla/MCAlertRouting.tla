--------------------------- MODULE MCAlertRouting ---------------------------
(* A small instance of AlertRouting for TLC. *)
EXTENDS AlertRouting

CONSTANTS r1, h1, h2, north, south, west, club, ana, luz, mia

\* Three governments, one of them inactive, and a club.
MCGovernments == {north, south, west}
MCDistrictOf == [g \in MCGovernments |->
                   CASE g = north -> "norte" [] g = south -> "sur" [] OTHER -> "oeste"]
MCTypes == {"panic", "kidnapping", "fire", "arrived-well"}
MCLists == [g \in MCGovernments |-> IF g = south THEN MCTypes \ {"fire"} ELSE MCTypes]

\* Ana lives in the north and moves to the south, Luz belongs to the club, and
\* Mia, who has no customer, monitors it.
MCCustomerOf == [u \in {ana, luz, mia} |->
                   CASE u = ana -> north [] u = luz -> club [] OTHER -> NULL]
MCContacts == [u \in {ana, luz, mia} |-> [t \in MCTypes |->
                 IF u # mia /\ t # "fire" THEN {ana, luz} \ {u} ELSE {}]]
MCStaff == [c \in {north, south, west, club} |-> [t \in MCTypes |->
              IF c = club /\ t = "panic" THEN {mia, ana}
              ELSE IF c \in {club, north} THEN {mia} ELSE {}]]
MCGrants == {<<mia, club>>}
MCMoves == {<<ana, south>>}

\* The fire is the first metre too far from home.
House(type) == [at |-> IF type = "fire" THEN 250 ELSE 120, neighborhood |-> "plaza"]
Shop == [at |-> 9000, neighborhood |-> "puerto"]

Body(via, alarm, user, type, where) ==
  [via |-> via, alarm |-> alarm, user |-> user, type |-> type, place |-> where,
   home |-> IF user = ana THEN House(type) ELSE NULL,
   work |-> IF type = "kidnapping" THEN Shop ELSE NULL]

\* From the app: taken by another district, by none, and by a club; from an
\* SMS: an alarm, an unknown sender and one without customer; an alarm of a
\* user without number.
MCBodies ==
  {Body("app", FALSE, ana, "kidnapping", "sur"),
   Body("app", FALSE, ana, "fire", "oeste"),
   Body("app", FALSE, luz, "arrived-well", "norte"),
   Body("sms", TRUE,  luz, "panic", "norte"),
   Body("sms", TRUE,  mia, "panic", NULL),
   Body("sms", FALSE, NULL, "panic", NULL),
   Body("app", TRUE,  ana, "panic", NULL)}

Ask1(kind, by, customer, state) ==
  [kind |-> kind, alert |-> r1, by |-> by, customer |-> customer, state |-> state]

\* Ana may change an alert of the south once she has moved there.
MCAsks ==
  {Ask1("changeState", mia, club, "Atendida"),
   Ask1("changeState", ana, south, "Cerrada"),
   Ask1("checkpoint", ana, north, "Emitida"),
   Ask1("checkpoint", luz, club, "Emitida")}
=============================================================================
