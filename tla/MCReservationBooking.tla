------------------------ MODULE MCReservationBooking ------------------------
(* Small instances of ReservationBooking for TLC. *)
EXTENDS ReservationBooking, TLC

CONSTANTS q1, q2, q3, ana, bruno, carla

Symmetry3 == Permutations({q1, q2, q3})

\* Ana has an account and is on the list, Bruno is on the list only, Carla has
\* an account only.
MCPersons  == {ana, bruno, carla}
MCAccounts == {ana, carla}
MCListed   == {ana, bruno}
AnaUser  == <<"user", ana>>
AnaList  == <<"authorized", ana>>
BrunoList == <<"authorized", bruno>>
CarlaUser == <<"user", carla>>

MCModes == {"whole", "shared", "other"}
MCModeRule ==
  [whole  |-> [allRequired |-> TRUE,  maxPeople |-> 4, maxPerMonth |-> 0],
   shared |-> [allRequired |-> FALSE, maxPeople |-> 4, maxPerMonth |-> 1],
   other  |-> [allRequired |-> FALSE, maxPeople |-> 4, maxPerMonth |-> 0]]
NoQuota == [m \in MCModes |-> [MCModeRule[m] EXCEPT !.maxPerMonth = 0]]

MCTypes == {"perUser", "perLot", "simultaneous"}
MCTypeRule ==
  [perUser |-> [simultaneous |-> FALSE, pendingPerLot |-> FALSE, numberOfPending |-> 0],
   perLot  |-> [simultaneous |-> FALSE, pendingPerLot |-> TRUE,  numberOfPending |-> 0],
   simultaneous |-> [simultaneous |-> TRUE, pendingPerLot |-> FALSE, numberOfPending |-> 9]]
Generous == [t \in MCTypes |-> [MCTypeRule[t] EXCEPT !.numberOfPending = 9]]

MCSpaces == {"court", "grill"}
MCEventSpaces == {"court"}
MCLocked == {<<"court", 2, 3>>}
MCLotOf == [p \in MCPersons |-> IF p = ana THEN "lot1" ELSE "lot2"]
MCExtraLots == [p \in MCPersons |-> IF p = ana THEN {"lot2"} ELSE {}]

Body(named, guests, outsiders, space, mode, type, from, to) ==
  [named |-> named, logged |-> carla, guests |-> guests, outsiders |-> outsiders,
   space |-> space, mode |-> mode, type |-> type, dateFrom |-> from, dateTo |-> to]

\* One slot asked for in every mode, once with its dates swapped.
SlotBodies ==
  {Body(AnaUser, {}, 0, "court", "whole", "simultaneous", 0, 1),
   Body(BrunoList, {}, 0, "court", "shared", "simultaneous", 1, 0),
   Body(CarlaUser, {}, 2, "court", "other", "simultaneous", 0, 1)}

\* Two for the quotas of a mode in two months and of a listed person, one for
\* the quota of a lot; a party without owner whose times cross the latter's; a
\* locked slot; and the whole of the first one's slot, with its dates swapped.
TableBodies ==
  {Body(AnaUser, {}, 0, "court", "shared", "perUser", 0, 1),
   Body(AnaList, {}, 0, "grill", "shared", "perUser", 2, 3),
   Body(BrunoList, {}, 0, "grill", "other", "perLot", 0, 2),
   Body(NULL, {{BrunoList}, {CarlaUser}}, 1, "grill", "other", "perLot", 1, 3),
   Body(NULL, {}, 0, "court", "other", "perUser", 2, 3),
   Body(CarlaUser, {}, 0, "court", "whole", "simultaneous", 1, 0)}

\* Group sizes that fit the space two by two but not all together.
CapacityBodies ==
  {Body(CarlaUser, {}, 1, "court", "other", "simultaneous", 0, 1),
   Body(CarlaUser, {}, 2, "court", "other", "simultaneous", 0, 1)}

\* Ana is a guest by her list entry, then by her account.
GuestIdBodies ==
  {Body(BrunoList, {{AnaList}}, 0, "court", "other", "perLot", 0, 2),
   Body(CarlaUser, {{AnaUser}}, 0, "grill", "other", "perLot", 1, 3)}
=============================================================================
