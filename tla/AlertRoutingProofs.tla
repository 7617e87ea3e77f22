------------------------- MODULE AlertRoutingProofs -------------------------
(***************************************************************************)
(* Proofs about AlertRouting, for any number of reports, later requests    *)
(* and Firebase writes, and any customers, users and permissions.          *)
(***************************************************************************)
EXTENDS AlertRouting, TLAPS

Phases == {"idle", "sms", "user", "alarm", "customer", "geocode", "government",
           "addresses", "insert", "checkpoint", "announce", "monitor", "exists",
           "update", "show"} \cup Ended
Raising == {"geocode", "government", "addresses", "insert"}
Known == {"user", "alarm", "customer", "checkpoint", "announce"} \cup Raising

\* From the geocoder on a report is for a customer and of a user of one; its
\* alert is stored before the first checkpoint, and what follows needs it.
ReportOK(r) ==
  /\ pc[r] \in {"idle", "sms"} \cup Known \cup Ended
  /\ pc[r] # "idle" => req[r] \in Bodies
  /\ pc[r] \in Known => req[r].user \in Users
  /\ pc[r] \in Raising => /\ target[r] \in Customers
                          /\ asked[r] \in Customers
                          /\ req[r].type \in AlertTypes
  /\ pc[r] \in {"checkpoint", "announce"} => row[r] # NULL
  /\ row[r] # NULL => /\ pc[r] \in {"checkpoint", "announce", "done", "failed"}
                      /\ req[r].user \in Users
                      /\ asked[r] \in Customers
                      /\ req[r].type \in AlertTypes
  /\ job[r] # "off" => row[r] # NULL

\* A later request is on an alert that is stored.
HandlerOK(h) ==
  /\ pc[h] \in {"idle", "monitor", "exists", "update", "show"} \cup Ended
  /\ pc[h] # "idle" => req[h] \in Asks /\ row[req[h].alert] # NULL

TypeInv ==
  /\ TypeOK
  /\ req \in [Reports \cup Handlers -> Bodies \cup Asks \cup {NULL}]
  /\ \A u \in Users : <<u, member[u]>> \in granted
  /\ \A r \in Reports : ReportOK(r)
  /\ \A h \in Handlers : HandlerOK(h)

LEMMA BodyTypes ==
  \A b \in Bodies : /\ b # NULL
                    /\ b.user \in Users \cup {NULL}
                    /\ b.via = "app" => b.user \in Users
                    /\ b.home \in Address \cup {NULL}
                    /\ b.work \in Address \cup {NULL}
BY RoutingAssumption

LEMMA AskTypes ==
  \A o \in Asks : /\ o # NULL
                  /\ o.kind \in {"changeState", "checkpoint"}
                  /\ o.alert \in Reports
                  /\ o.by \in Users
                  /\ o.customer \in Customers
                  /\ o.state \in States
BY RoutingAssumption

LEMMA RowTypes ==
  /\ NULL \notin Rows
  /\ \A w \in Rows, s \in States :
       /\ [w EXCEPT !.state = s] \in Rows
       /\ [w EXCEPT !.state = s].customer = w.customer
       /\ [w EXCEPT !.state = s].neighborhood = w.neighborhood
  /\ \A c \in Customers, n \in Locations \cup {NULL}, s \in {"Emitida", "Vecinal"} :
       [customer |-> c, state |-> s, neighborhood |-> n] \in Rows
BY RoutingAssumption DEF Rows

LEMMA NeighborhoodTypes ==
  \A home \in Address \cup {NULL}, work \in Address \cup {NULL} :
    Neighborhood(home, work) \in Locations \cup {NULL}
<1> SUFFICES ASSUME NEW home \in Address \cup {NULL}, NEW work \in Address \cup {NULL}
             PROVE  Neighborhood(home, work) \in Locations \cup {NULL}
  OBVIOUS
<1>1. home # NULL => home.neighborhood \in Locations \cup {NULL}
  BY DEF Address
<1>2. work # NULL => work.neighborhood \in Locations \cup {NULL}
  BY DEF Address
<1>3. QED
  BY <1>1, <1>2 DEF Neighborhood

LEMMA TypeInit == Init => TypeInv
<1> SUFFICES ASSUME Init PROVE TypeInv
  OBVIOUS
<1> USE RoutingAssumption
<1>1. TypeOK
  BY DEF Init, TypeOK, Ended
<1>2. /\ req \in [Reports \cup Handlers -> Bodies \cup Asks \cup {NULL}]
      /\ \A u \in Users : <<u, member[u]>> \in granted
      /\ \A r \in Reports : ReportOK(r)
      /\ \A h \in Handlers : HandlerOK(h)
  BY DEF Init, ReportOK, HandlerOK, Known, Raising, Ended
<1>3. QED
  BY <1>1, <1>2 DEF TypeInv

\* What a step leaves of the alerts that are stored.
LEMMA RowsStay ==
  ASSUME TypeInv, [Next]_vars
  PROVE  \A r \in Reports : row[r] # NULL =>
           /\ row'[r] # NULL
           /\ row'[r].customer = row[r].customer
           /\ row'[r].neighborhood = row[r].neighborhood
<1> SUFFICES ASSUME NEW r \in Reports, row[r] # NULL
             PROVE  /\ row'[r] # NULL
                    /\ row'[r].customer = row[r].customer
                    /\ row'[r].neighborhood = row[r].neighborhood
  OBVIOUS
<1>1. ASSUME NEW x \in Reports, InsertAlert(x)
      PROVE  row'[r] = row[r]
  BY <1>1 DEF InsertAlert, TypeInv, TypeOK, ReportOK
<1>2. ASSUME NEW h \in Handlers, UpdateAlert(h)
      PROVE  /\ row'[r] # NULL
             /\ row'[r].customer = row[r].customer
             /\ row'[r].neighborhood = row[r].neighborhood
  <2>1. row[r] \in Rows /\ row \in [Reports -> Rows \cup {NULL}]
    BY DEF TypeInv, TypeOK
  <2>2. req[h].state \in States
    BY <1>2, AskTypes DEF UpdateAlert, TypeInv, HandlerOK
  <2>3. \/ row'[r] = row[r]
        \/ row'[r] = [row[r] EXCEPT !.state = req[h].state]
    BY <1>2, <2>1 DEF UpdateAlert
  <2>4. QED
    BY <2>1, <2>2, <2>3, RowTypes
<1>3. CASE UNCHANGED row
  BY <1>3
<1>4. \/ \E x \in Reports : InsertAlert(x)
      \/ \E h \in Handlers : UpdateAlert(h)
      \/ UNCHANGED row
  BY DEF Next, vars, Report, ReportStep, DecryptSms, FindUser, InsertAlarm, FindCustomer,
         Geocode, StoreStep, FindGovernment, FindAddresses, FirstCheckpoint, Announce,
         JobStep, FindContacts, FindStaff, RecordNotification, JobFails, CallsEnd, Ask,
         HandlerStep, FindMonitor, ExistAlert, ShowUpdate, AddCheckpoint, Fail,
         WriteLands, WriteLost, SetMonitor, MoveUser, SignToken
<1>5. QED
  BY <1>1, <1>2, <1>3, <1>4

LEMMA TypeNext == TypeInv /\ [Next]_vars => TypeInv'
<1> SUFFICES ASSUME TypeInv, [Next]_vars
             PROVE  TypeInv'
  OBVIOUS
<1> USE RowsStay, RowTypes, AskTypes, BodyTypes, RoutingAssumption
    DEF TypeInv, TypeOK, ReportOK, HandlerOK, Known, Raising, Ended, Goto,
        routeVars, tellVars, mirrorVars, permissionVars
<1>1. ASSUME NEW r \in Reports, NEW b \in Bodies, Report(r, b)
      PROVE  TypeInv'
  <2>1. PICK c \in Customers \cup {NULL}, phase \in {"user", "customer", "sms"} :
          /\ asked' = [asked EXCEPT ![r] = c]
          /\ pc' = [pc EXCEPT ![r] = phase]
          /\ phase # "sms" => b.user \in Users
    <3>1. CASE b.via = "app"
      <4>1. PICK t \in tokens : asked' = [asked EXCEPT ![r] = t[2]]
        BY <1>1, <3>1 DEF Report
      <4>2. t[2] \in Customers \cup {NULL}
        BY <4>1
      <4>3. QED
        BY <1>1, <3>1, <4>1, <4>2 DEF Report
    <3>2. CASE b.via = "sms"
      <4>1. asked' = [asked EXCEPT ![r] = asked[r]] /\ asked[r] \in Customers \cup {NULL}
        BY <1>1, <3>2 DEF Report
      <4>2. QED
        BY <1>1, <3>2, <4>1 DEF Report
    <3>3. QED
      BY <1>1, <3>1, <3>2 DEF Report
  <2>2. /\ pc[r] = "idle" /\ req' = [req EXCEPT ![r] = b]
        /\ UNCHANGED <<alarms, place, target, near, row, checkpoints, tellVars, permissionVars,
                       mirrorVars>>
    BY <1>1 DEF Report
  <2>3. TypeOK'
    <3>1. /\ pc' \in [Reports \cup Handlers -> Phases]
          /\ asked' \in [Reports \cup Handlers -> Customers \cup {NULL}]
      BY <2>1 DEF Phases
    <3>2. /\ \A x \in Reports : req'[x] \in Bodies \cup {NULL}
          /\ \A h \in Handlers : req'[h] \in Asks \cup {NULL}
      BY <2>2
    <3>3. QED
      BY <2>2, <3>1, <3>2 DEF Phases
  <2>4. \A x \in Reports : ReportOK(x)'
    BY <2>1, <2>2
  <2>5. \A h \in Handlers : HandlerOK(h)'
    BY <2>1, <2>2
  <2>6. /\ req' \in [Reports \cup Handlers -> Bodies \cup Asks \cup {NULL}]
        /\ \A u \in Users : <<u, member'[u]>> \in granted'
    BY <2>2
  <2>7. QED
    BY <2>3, <2>4, <2>5, <2>6
<1>2. ASSUME NEW r \in Reports, DecryptSms(r)
      PROVE  TypeInv'
  <2>1. PICK c \in Customers \cup {NULL}, phase \in {"rejected", "user", "customer"} :
          /\ asked' = [asked EXCEPT ![r] = c]
          /\ pc' = [pc EXCEPT ![r] = phase]
          /\ phase # "rejected" => req[r].user \in Users
    <3>1. CASE req[r].user = NULL \/ req[r].type = "unknown"
      <4>1. asked' = [asked EXCEPT ![r] = asked[r]] /\ asked[r] \in Customers \cup {NULL}
        BY <1>2, <3>1 DEF DecryptSms
      <4>2. pc' = [pc EXCEPT ![r] = "rejected"]
        BY <1>2, <3>1 DEF DecryptSms
      <4>3. QED
        BY <4>1, <4>2
    <3>2. CASE ~(req[r].user = NULL \/ req[r].type = "unknown")
      <4>1. req[r] \in Bodies /\ req[r].user \in Users
        BY <1>2, <3>2 DEF DecryptSms
      <4>2. member[req[r].user] \in Customers \cup {NULL}
        BY <4>1
      <4>3. /\ asked' = [asked EXCEPT ![r] = member[req[r].user]]
            /\ pc' = [pc EXCEPT ![r] = IF req[r].alarm THEN "user" ELSE "customer"]
        BY <1>2, <3>2 DEF DecryptSms
      <4>4. QED
        BY <4>1, <4>2, <4>3
    <3>3. QED
      BY <3>1, <3>2
  <2>2. /\ pc[r] = "sms"
        /\ UNCHANGED <<req, alarms, place, target, near, row, checkpoints, tellVars,
                       permissionVars, mirrorVars>>
    BY <1>2 DEF DecryptSms
  <2>3. TypeOK'
    <3>1. /\ pc' \in [Reports \cup Handlers -> Phases]
          /\ asked' \in [Reports \cup Handlers -> Customers \cup {NULL}]
      BY <2>1 DEF Phases
    <3>2. QED
      BY <2>2, <3>1 DEF Phases
  <2>4. \A x \in Reports : ReportOK(x)'
    BY <2>1, <2>2
  <2>5. \A h \in Handlers : HandlerOK(h)'
    BY <2>1, <2>2
  <2>6. \A u \in Users : <<u, member'[u]>> \in granted'
    BY <2>2
  <2>7. QED
    BY <2>2, <2>3, <2>4, <2>5, <2>6
<1>3. ASSUME NEW r \in Reports, FindUser(r)
      PROVE  TypeInv'
  BY <1>3 DEF FindUser
<1>4. ASSUME NEW r \in Reports, InsertAlarm(r)
      PROVE  TypeInv'
  <2>1. PICK phase \in {"rejected", "customer", "done"} : pc' = [pc EXCEPT ![r] = phase]
    <3>1. CASE asked[r] = NULL
      BY <1>4, <3>1 DEF InsertAlarm
    <3>2. CASE asked[r] # NULL
      BY <1>4, <3>2 DEF InsertAlarm
    <3>3. QED
      BY <3>1, <3>2
  <2>2. alarms' \subseteq Reports
    BY <1>4 DEF InsertAlarm
  <2>3. QED
    BY <1>4, <2>1, <2>2 DEF InsertAlarm
<1>5. ASSUME NEW r \in Reports, FindCustomer(r)
      PROVE  TypeInv'
  <2>1. PICK c \in Customers \cup {NULL}, phase \in {"geocode", "rejected"} :
          /\ target' = [target EXCEPT ![r] = c]
          /\ pc' = [pc EXCEPT ![r] = phase]
          /\ phase = "geocode" => /\ c \in Customers /\ asked[r] \in Customers
                                  /\ req[r].type \in AlertTypes
    <3>1. CASE asked[r] \in Equipped /\ req[r].type \in AlertTypes
      BY <1>5, <3>1 DEF FindCustomer
    <3>2. CASE ~(asked[r] \in Equipped /\ req[r].type \in AlertTypes)
      <4>1. target' = [target EXCEPT ![r] = target[r]] /\ target[r] \in Customers \cup {NULL}
        BY <1>5, <3>2 DEF FindCustomer
      <4>2. pc' = [pc EXCEPT ![r] = "rejected"]
        BY <1>5, <3>2 DEF FindCustomer
      <4>3. QED
        BY <4>1, <4>2
    <3>3. QED
      BY <3>1, <3>2
  <2>2. pc[r] = "customer" /\ UNCHANGED <<req, asked, row, job, permissionVars>>
    BY <1>5 DEF FindCustomer
  <2>3. TypeOK'
    <3>1. /\ pc' \in [Reports \cup Handlers -> Phases]
          /\ target' \in [Reports -> Customers \cup {NULL}]
      BY <2>1, <2>2 DEF Phases
    <3>2. QED
      BY <1>5, <3>1 DEF FindCustomer, Phases
  <2>4. \A x \in Reports : ReportOK(x)'
    BY <2>1, <2>2
  <2>5. \A h \in Handlers : HandlerOK(h)'
    BY <2>1, <2>2
  <2>6. QED
    BY <2>2, <2>3, <2>4, <2>5
<1>6. ASSUME NEW r \in Reports, Geocode(r)
      PROVE  TypeInv'
  <2>1. PICK phase \in {"insert", "addresses", "government"} :
          pc' = [pc EXCEPT ![r] = phase]
    BY <1>6 DEF Geocode
  <2>2. pc[r] = "geocode" /\ UNCHANGED <<req, asked, target, row, job, permissionVars>>
    BY <1>6 DEF Geocode
  <2>3. TypeOK'
    <3>1. PICK p \in Districts \cup {NULL} : place' = [place EXCEPT ![r] = p]
      BY <1>6 DEF Geocode
    <3>2. QED
      BY <1>6, <2>1, <3>1 DEF Geocode
  <2>4. \A x \in Reports : ReportOK(x)'
    BY <2>1, <2>2
  <2>5. \A h \in Handlers : HandlerOK(h)'
    BY <2>1, <2>2
  <2>6. QED
    BY <2>2, <2>3, <2>4, <2>5
<1>7. ASSUME NEW r \in Reports, FindGovernment(r)
      PROVE  TypeInv'
  <2>1. PICK c \in Customers : target' = [target EXCEPT ![r] = c]
    <3>1. CASE Candidates(r) = {} /\ UNCHANGED target
      BY <1>7, <3>1 DEF FindGovernment
    <3>2. CASE \E g \in Candidates(r) :
                 target' = [target EXCEPT ![r] = IF req[r].type \in Lists[g] THEN g ELSE @]
      <4>1. PICK g \in Candidates(r) :
              target' = [target EXCEPT ![r] = IF req[r].type \in Lists[g] THEN g ELSE @]
        BY <3>2
      <4>2. g \in Customers /\ target[r] \in Customers
        BY <1>7 DEF Candidates, FindGovernment
      <4>3. QED
        BY <4>1, <4>2
    <3>3. QED
      BY <1>7, <3>1, <3>2 DEF FindGovernment
  <2>2. QED
    BY <1>7, <2>1 DEF FindGovernment
<1>8. ASSUME NEW r \in Reports, FindAddresses(r)
      PROVE  TypeInv'
  <2>1. Neighborhood(req[r].home, req[r].work) \in Locations \cup {NULL}
    BY <1>8, NeighborhoodTypes DEF FindAddresses
  <2>2. near' \in [Reports -> Locations \cup {NULL}]
    BY <1>8, <2>1 DEF FindAddresses
  <2>3. QED
    BY <1>8, <2>2 DEF FindAddresses
<1>9. ASSUME NEW r \in Reports, InsertAlert(r)
      PROVE  TypeInv'
  <2>1. PICK w \in Rows : row' = [row EXCEPT ![r] = w]
    BY <1>9 DEF InsertAlert
  <2>2. PICK phase \in {"checkpoint", "announce"} : pc' = [pc EXCEPT ![r] = phase]
    BY <1>9 DEF InsertAlert
  <2>3. pc[r] = "insert" /\ UNCHANGED <<req, asked, target, job, permissionVars>>
    BY <1>9 DEF InsertAlert
  <2>4. TypeOK'
    BY <1>9, <2>1, <2>2 DEF InsertAlert
  <2>5. \A x \in Reports : ReportOK(x)'
    BY <2>1, <2>2, <2>3
  <2>6. \A h \in Handlers : HandlerOK(h)'
    BY <2>1, <2>2, <2>3
  <2>7. QED
    BY <2>3, <2>4, <2>5, <2>6
<1>10. ASSUME NEW r \in Reports, FirstCheckpoint(r)
      PROVE  TypeInv'
  <2>1. row[r] # NULL /\ UNCHANGED row
    BY <1>10 DEF FirstCheckpoint
  <2>2. checkpoints' \subseteq {x \in Reports : row'[x] # NULL} \X (Reports \cup Handlers)
    BY <1>10, <2>1 DEF FirstCheckpoint
  <2>3. QED
    BY <1>10, <2>2 DEF FirstCheckpoint
<1>11. ASSUME NEW r \in Reports, Announce(r)
      PROVE  TypeInv'
  BY <1>11 DEF Announce
<1>12. ASSUME NEW r \in Reports, FindContacts(r)
      PROVE  TypeInv'
  BY <1>12 DEF FindContacts
<1>13. ASSUME NEW r \in Reports, FindStaff(r)
      PROVE  TypeInv'
  BY <1>13 DEF FindStaff
<1>14. ASSUME NEW r \in Reports, RecordNotification(r)
      PROVE  TypeInv'
  BY <1>14 DEF RecordNotification
<1>15. ASSUME NEW r \in Reports, JobFails(r)
      PROVE  TypeInv'
  BY <1>15 DEF JobFails
<1>16. ASSUME NEW h \in Handlers, NEW o \in Asks, Ask(h, o)
      PROVE  TypeInv'
  <2>1. PICK c \in Customers \cup {NULL}, phase \in {"monitor", "exists"} :
          /\ asked' = [asked EXCEPT ![h] = c]
          /\ pc' = [pc EXCEPT ![h] = phase]
    <3>1. CASE o.kind = "changeState"
      BY <1>16, <3>1 DEF Ask
    <3>2. CASE o.kind = "checkpoint"
      <4>1. PICK t \in tokens : asked' = [asked EXCEPT ![h] = t[2]]
        BY <1>16, <3>2 DEF Ask
      <4>2. t[2] \in Customers \cup {NULL}
        BY <4>1
      <4>3. QED
        BY <1>16, <3>2, <4>1, <4>2 DEF Ask
    <3>3. QED
      BY <1>16, <3>1, <3>2 DEF Ask
  <2>2. /\ pc[h] = "idle" /\ req' = [req EXCEPT ![h] = o]
        /\ row[o.alert] # NULL
        /\ UNCHANGED <<alarms, place, target, near, row, checkpoints, tellVars, permissionVars,
                       writes, mirror>>
        /\ excused' \subseteq Reports
    BY <1>16 DEF Ask
  <2>3. TypeOK'
    <3>1. /\ pc' \in [Reports \cup Handlers -> Phases]
          /\ asked' \in [Reports \cup Handlers -> Customers \cup {NULL}]
      BY <2>1 DEF Phases
    <3>2. /\ \A x \in Reports : req'[x] \in Bodies \cup {NULL}
          /\ \A g \in Handlers : req'[g] \in Asks \cup {NULL}
      BY <2>2
    <3>3. QED
      BY <2>2, <3>1, <3>2 DEF Phases
  <2>4. \A x \in Reports : ReportOK(x)'
    BY <2>1, <2>2
  <2>5. \A g \in Handlers : HandlerOK(g)'
    BY <2>1, <2>2
  <2>6. /\ req' \in [Reports \cup Handlers -> Bodies \cup Asks \cup {NULL}]
        /\ \A u \in Users : <<u, member'[u]>> \in granted'
    BY <2>2
  <2>7. QED
    BY <2>3, <2>4, <2>5, <2>6
<1>17. ASSUME NEW h \in Handlers, FindMonitor(h)
      PROVE  TypeInv'
  BY <1>17 DEF FindMonitor
<1>18. ASSUME NEW h \in Handlers, ExistAlert(h)
      PROVE  TypeInv'
  BY <1>18 DEF ExistAlert
<1>19. ASSUME NEW h \in Handlers, UpdateAlert(h)
      PROVE  TypeInv'
  BY <1>19 DEF UpdateAlert
<1>20. ASSUME NEW h \in Handlers, ShowUpdate(h)
      PROVE  TypeInv'
  BY <1>20 DEF ShowUpdate
<1>21. ASSUME NEW h \in Handlers, AddCheckpoint(h)
      PROVE  TypeInv'
  BY <1>21 DEF AddCheckpoint
<1>22. ASSUME NEW x \in Reports \cup Handlers, Fail(x)
      PROVE  TypeInv'
  BY <1>22 DEF Fail, InFlight
<1>23. ASSUME NEW r \in calls, CallsEnd(r)
      PROVE  TypeInv'
  BY <1>23 DEF CallsEnd
<1>24. ASSUME NEW w \in writes, WriteLands(w)
      PROVE  TypeInv'
  BY <1>24 DEF WriteLands
<1>25. ASSUME NEW w \in writes, WriteLost(w)
      PROVE  TypeInv'
  BY <1>25 DEF WriteLost
<1>26. ASSUME NEW p \in Grants, SetMonitor(p)
      PROVE  TypeInv'
  BY <1>26 DEF SetMonitor
<1>27. ASSUME NEW u \in Users, NEW c \in Customers, MoveUser(u, c)
      PROVE  TypeInv'
  BY <1>27 DEF MoveUser
<1>28. ASSUME NEW u \in Users, SignToken(u)
      PROVE  TypeInv'
  BY <1>28 DEF SignToken
<1>29. ASSUME UNCHANGED vars
      PROVE  TypeInv'
  BY <1>29 DEF vars
<1>30. \A m \in Moves : m[1] \in Users /\ m[2] \in Customers
  OBVIOUS
<1>31. QED
  BY <1>1, <1>2, <1>3, <1>4, <1>5, <1>6, <1>7, <1>8, <1>9, <1>10, <1>11, <1>12, <1>13,
     <1>14, <1>15, <1>16, <1>17, <1>18, <1>19, <1>20, <1>21, <1>22, <1>23, <1>24, <1>25,
     <1>26, <1>27, <1>28, <1>29, <1>30
  DEF Next, ReportStep, StoreStep, JobStep, HandlerStep

\* TypeOK of every reachable state: requests, alerts, notifications and
\* writes are what AlertsService makes of the bodies it is sent.
THEOREM TypeCorrect == Spec => []TypeOK
<1>1. TypeInv => TypeOK
  BY DEF TypeInv
<1>2. QED
  BY <1>1, TypeInit, TypeNext, PTL DEF Spec

LEMMA TypeAlways == Spec => []TypeInv
BY TypeInit, TypeNext, PTL DEF Spec

-----------------------------------------------------------------------------
(* Where an alert goes *)

Routed(r, c) ==
  c # asked[r] =>
    /\ asked[r] \in Governments /\ place[r] # DistrictOf[asked[r]]
    /\ c \in Active
    /\ req[r].type \in Lists[c]
    /\ place[r] \in {DistrictOf[c], NULL}

Ascribed(r, n) ==
  n # NULL =>
    LET addresses == {req[r].home, req[r].work} \ {NULL}
    IN  /\ \E a \in addresses : Rounded(a) < 3
        /\ \E a \in addresses : a.neighborhood = n

Unplaced == {"idle", "sms", "user", "alarm", "customer", "geocode", "government", "addresses"}

\* While its report is raised, the customer and the neighbourhood an alert
\* will have are already right, and then they are the alert's.
PlaceInv ==
  \A r \in Reports :
    /\ pc[r] = "geocode" => target[r] = asked[r]
    /\ pc[r] = "government" =>
         /\ target[r] = asked[r]
         /\ asked[r] \in Governments /\ place[r] # DistrictOf[asked[r]]
    /\ pc[r] \in {"addresses", "insert"} => Routed(r, target[r])
    /\ pc[r] \in Unplaced => near[r] = NULL
    /\ pc[r] = "insert" => Ascribed(r, near[r])
    /\ row[r] # NULL => Routed(r, row[r].customer) /\ Ascribed(r, row[r].neighborhood)

LEMMA PlaceInit == Init => PlaceInv
BY DEF Init, PlaceInv

LEMMA NeighborhoodClose ==
  ASSUME NEW home, NEW work, Neighborhood(home, work) # NULL
  PROVE  /\ \E a \in {home, work} \ {NULL} : Rounded(a) < 3
         /\ \E a \in {home, work} \ {NULL} : a.neighborhood = Neighborhood(home, work)
BY DEF Neighborhood, Close

\* The steps that place an alert, and what every other one leaves alone.
LEMMA PlaceSteps ==
  ASSUME TypeInv, [Next]_vars, NEW r \in Reports
  PROVE  \/ \E b \in Bodies : Report(r, b)
         \/ FindCustomer(r) \/ Geocode(r) \/ FindGovernment(r)
         \/ FindAddresses(r) \/ InsertAlert(r)
         \/ /\ target'[r] = target[r] /\ place'[r] = place[r] /\ near'[r] = near[r]
            /\ req'[r] = req[r] /\ (asked'[r] = asked[r] \/ pc[r] = "sms")
            /\ \/ pc'[r] = pc[r]
               \/ pc[r] \in {"sms", "user", "alarm"} /\ pc'[r] \in {"user", "alarm", "customer"}
               \/ pc'[r] \in {"announce"} \cup Ended
            /\ row[r] = NULL => row'[r] = NULL
<1> DEFINE Same == /\ target'[r] = target[r] /\ place'[r] = place[r] /\ near'[r] = near[r]
                   /\ req'[r] = req[r] /\ (asked'[r] = asked[r] \/ pc[r] = "sms")
                   /\ \/ pc'[r] = pc[r]
                      \/ /\ pc[r] \in {"sms", "user", "alarm"}
                         /\ pc'[r] \in {"user", "alarm", "customer"}
                      \/ pc'[r] \in {"announce"} \cup Ended
                   /\ row[r] = NULL => row'[r] = NULL
<1> USE DEF Goto, routeVars, TypeInv, TypeOK, Ended
<1>1. ASSUME NEW x \in Reports, x # r,
             \/ \E b \in Bodies : Report(x, b)
             \/ FindCustomer(x) \/ Geocode(x) \/ FindGovernment(x)
             \/ FindAddresses(x) \/ InsertAlert(x)
      PROVE  Same
  <2>1. CASE \E b \in Bodies : Report(x, b)
    BY <1>1, <2>1 DEF Report
  <2>2. CASE FindCustomer(x)
    BY <1>1, <2>2 DEF FindCustomer
  <2>3. CASE Geocode(x)
    BY <1>1, <2>3 DEF Geocode
  <2>4. CASE FindGovernment(x)
    BY <1>1, <2>4 DEF FindGovernment
  <2>5. CASE FindAddresses(x)
    BY <1>1, <2>5 DEF FindAddresses
  <2>6. CASE InsertAlert(x)
    BY <1>1, <2>6 DEF InsertAlert
  <2>7. QED
    BY <1>1, <2>1, <2>2, <2>3, <2>4, <2>5, <2>6
<1>2. ASSUME NEW x \in Reports, DecryptSms(x) \/ FindUser(x) \/ InsertAlarm(x)
      PROVE  Same
  BY <1>2 DEF DecryptSms, FindUser, InsertAlarm
<1>3. ASSUME NEW x \in Reports, FirstCheckpoint(x) \/ Announce(x)
      PROVE  Same
  BY <1>3 DEF FirstCheckpoint, Announce
<1>4. ASSUME NEW x \in Reports, JobStep(x) \/ JobFails(x)
      PROVE  Same
  BY <1>4 DEF JobStep, JobFails, FindContacts, FindStaff, RecordNotification
<1>5. ASSUME NEW h \in Handlers, (\E o \in Asks : Ask(h, o)) \/ HandlerStep(h)
      PROVE  Same
  <2>1. h # r
    BY RoutingAssumption
  <2>2. CASE \E o \in Asks : Ask(h, o)
    BY <2>1, <2>2 DEF Ask
  <2>3. CASE FindMonitor(h) \/ ExistAlert(h) \/ ShowUpdate(h) \/ AddCheckpoint(h)
    BY <2>1, <2>3 DEF FindMonitor, ExistAlert, ShowUpdate, AddCheckpoint
  <2>4. CASE UpdateAlert(h)
    <3>1. row[req[h].alert] # NULL
      BY <2>4 DEF UpdateAlert, HandlerOK
    <3>2. row[r] = NULL => row'[r] = NULL
      BY <2>4, <3>1 DEF UpdateAlert
    <3>3. QED
      BY <2>1, <2>4, <3>2 DEF UpdateAlert
  <2>5. QED
    BY <1>5, <2>2, <2>3, <2>4 DEF HandlerStep
<1>6. ASSUME NEW x \in Reports \cup Handlers, Fail(x)
      PROVE  Same
  BY <1>6 DEF Fail
<1>7. ASSUME UNCHANGED <<pc, req, routeVars, row>>
      PROVE  Same
  BY <1>7
<1>8. QED
  BY <1>1, <1>2, <1>3, <1>4, <1>5, <1>6, <1>7
  DEF Next, ReportStep, StoreStep, vars, CallsEnd, WriteLands, WriteLost, SetMonitor, MoveUser, SignToken

LEMMA PlaceNext == TypeInv /\ PlaceInv /\ [Next]_vars => PlaceInv'
<1> SUFFICES ASSUME TypeInv, PlaceInv, [Next]_vars, NEW r \in Reports
             PROVE  /\ pc'[r] = "geocode" => target'[r] = asked'[r]
                    /\ pc'[r] = "government" =>
                         /\ target'[r] = asked'[r]
                         /\ asked'[r] \in Governments /\ place'[r] # DistrictOf[asked'[r]]
                    /\ pc'[r] \in {"addresses", "insert"} => Routed(r, target[r])'
                    /\ pc'[r] \in Unplaced => near'[r] = NULL
                    /\ pc'[r] = "insert" => Ascribed(r, near[r])'
                    /\ row'[r] # NULL => /\ Routed(r, row[r].customer)'
                                         /\ Ascribed(r, row[r].neighborhood)'
  BY DEF PlaceInv
<1> DEFINE Goal == /\ pc'[r] = "geocode" => target'[r] = asked'[r]
                   /\ pc'[r] = "government" =>
                        /\ target'[r] = asked'[r]
                        /\ asked'[r] \in Governments /\ place'[r] # DistrictOf[asked'[r]]
                   /\ pc'[r] \in {"addresses", "insert"} => Routed(r, target[r])'
                   /\ pc'[r] \in Unplaced => near'[r] = NULL
                   /\ pc'[r] = "insert" => Ascribed(r, near[r])'
                   /\ row'[r] # NULL => /\ Routed(r, row[r].customer)'
                                        /\ Ascribed(r, row[r].neighborhood)'
<1>0. /\ pc \in [Reports \cup Handlers -> Phases] /\ row \in [Reports -> Rows \cup {NULL}]
      /\ target \in [Reports -> Customers \cup {NULL}]
      /\ place \in [Reports -> Districts \cup {NULL}]
      /\ near \in [Reports -> Locations \cup {NULL}]
      /\ ReportOK(r)
  BY DEF TypeInv, TypeOK, Phases
<1> USE DEF Goto, Unplaced, Ended
<1>1. ASSUME NEW b \in Bodies, Report(r, b)
      PROVE  Goal
  <2>1. /\ pc[r] = "idle" /\ pc'[r] \in {"sms", "user", "customer"}
        /\ near' = near /\ row' = row
    BY <1>1, <1>0 DEF Report, routeVars
  <2>2. QED
    BY <2>1, <1>0 DEF PlaceInv, ReportOK
<1>2. ASSUME FindCustomer(r)
      PROVE  Goal
  <2>1. /\ pc[r] = "customer" /\ near' = near /\ row' = row /\ req' = req /\ asked' = asked
        /\ \/ pc'[r] = "geocode" /\ target'[r] = asked[r]
           \/ pc'[r] = "rejected"
    BY <1>2, <1>0 DEF FindCustomer
  <2>2. QED
    BY <2>1, <1>0 DEF PlaceInv, ReportOK
<1>3. ASSUME Geocode(r)
      PROVE  Goal
  <2>1. /\ pc[r] = "geocode" /\ near' = near /\ row' = row /\ req' = req /\ asked' = asked /\ target' = target
        /\ target[r] = asked[r] /\ row[r] = NULL /\ near[r] = NULL
    BY <1>3, <1>0 DEF Geocode, PlaceInv, ReportOK
  <2>2. \/ pc'[r] \in {"insert", "addresses"}
        \/ /\ pc'[r] = "government" /\ target[r] \in Governments
           /\ place'[r] # DistrictOf[target[r]]
    BY <1>3, <1>0 DEF Geocode
  <2>3. QED
    BY <2>1, <2>2 DEF Routed, Ascribed
<1>4. ASSUME FindGovernment(r)
      PROVE  Goal
  <2>1. /\ pc[r] = "government" /\ pc'[r] = "addresses" /\ row[r] = NULL /\ near[r] = NULL
        /\ place' = place /\ near' = near /\ row' = row /\ req' = req /\ asked' = asked
        /\ target[r] = asked[r]
        /\ asked[r] \in Governments /\ place[r] # DistrictOf[asked[r]]
    BY <1>4, <1>0 DEF FindGovernment, PlaceInv, ReportOK
  <2>2. \/ target'[r] = target[r]
        \/ \E g \in Candidates(r) : target'[r] = g /\ req[r].type \in Lists[g]
    BY <1>4, <1>0 DEF FindGovernment
  <2>3. Routed(r, target[r])'
    BY <2>1, <2>2 DEF Routed, Candidates
  <2>4. QED
    BY <2>1, <2>3
<1>5. ASSUME FindAddresses(r)
      PROVE  Goal
  <2>1. /\ pc[r] = "addresses" /\ pc'[r] = "insert" /\ row[r] = NULL
        /\ place' = place /\ target' = target /\ row' = row /\ req' = req /\ asked' = asked
        /\ near'[r] = Neighborhood(req[r].home, req[r].work)
    BY <1>5, <1>0 DEF FindAddresses, ReportOK
  <2>2. Routed(r, target[r])'
    BY <2>1 DEF PlaceInv, Routed
  <2>3. Ascribed(r, near[r])'
    BY <2>1, NeighborhoodClose DEF Ascribed
  <2>4. QED
    BY <2>1, <2>2, <2>3
<1>6. ASSUME InsertAlert(r)
      PROVE  Goal
  <2>1. /\ pc[r] = "insert" /\ pc'[r] \in {"checkpoint", "announce"}
        /\ place' = place /\ near' = near /\ target' = target /\ req' = req /\ asked' = asked
        /\ row'[r].customer = target[r] /\ row'[r].neighborhood = near[r]
    BY <1>6, <1>0 DEF InsertAlert, routeVars
  <2>2. Routed(r, row[r].customer)' /\ Ascribed(r, row[r].neighborhood)'
    BY <2>1 DEF PlaceInv, Routed, Ascribed
  <2>3. QED
    BY <2>1, <2>2
<1>7. ASSUME /\ target'[r] = target[r] /\ place'[r] = place[r] /\ near'[r] = near[r]
             /\ req'[r] = req[r] /\ (asked'[r] = asked[r] \/ pc[r] = "sms")
             /\ \/ pc'[r] = pc[r]
                \/ pc[r] \in {"sms", "user", "alarm"} /\ pc'[r] \in {"user", "alarm", "customer"}
                \/ pc'[r] \in {"announce"} \cup Ended
             /\ row[r] = NULL => row'[r] = NULL
      PROVE  Goal
  <2>0. CASE pc[r] = "sms"
    <3>1. row'[r] = NULL /\ near'[r] = NULL
      BY <1>7, <1>0, <2>0 DEF ReportOK, PlaceInv
    <3>2. QED
      BY <1>7, <2>0, <3>1
  <2> SUFFICES ASSUME asked'[r] = asked[r]
               PROVE  Goal
    BY <1>7, <2>0
  <2>1. row[r] # NULL => /\ row'[r].customer = row[r].customer
                         /\ row'[r].neighborhood = row[r].neighborhood
    BY RowsStay
  <2>2. row'[r] # NULL => /\ Routed(r, row[r].customer)'
                          /\ Ascribed(r, row[r].neighborhood)'
    BY <1>7, <2>1 DEF PlaceInv, Routed, Ascribed
  <2>3. pc'[r] \in {"addresses", "insert"} => Routed(r, target[r])'
    BY <1>7 DEF PlaceInv, Routed
  <2>4. pc'[r] = "insert" => Ascribed(r, near[r])'
    BY <1>7 DEF PlaceInv, Ascribed
  <2>5. QED
    BY <1>7, <2>2, <2>3, <2>4 DEF PlaceInv
<1>8. QED
  BY <1>1, <1>2, <1>3, <1>4, <1>5, <1>6, <1>7, PlaceSteps

LEMMA PlaceAlways == Spec => []PlaceInv
BY PlaceInit, PlaceNext, TypeAlways, PTL DEF Spec

\* An alert leaves the author's customer only for an active government that
\* takes its type, after it happened in another district: findGovernmentCustomer
\* never misroutes.
THEOREM RoutedRight == Spec => []RoutedByPlace
<1>1. PlaceInv => RoutedByPlace
  BY DEF PlaceInv, Routed, RoutedByPlace
<1>2. QED
  BY <1>1, PlaceAlways, PTL

\* setAlertNeighborhoodId ascribes an alert to a neighbourhood of its author
\* only if one of his addresses is close.
THEOREM AscribedClose == Spec => []NeighborhoodIsClose
<1>1. PlaceInv => NeighborhoodIsClose
  BY DEF PlaceInv, Ascribed, NeighborhoodIsClose
<1>2. QED
  BY <1>1, PlaceAlways, PTL

-----------------------------------------------------------------------------
(* Who is told, and who may change an alert *)

\* NeighborhoodService.create calls the neighbours after the alert is created,
\* whatever fails before: a stored alarm whose alert is refused calls nobody.
THEOREM AlarmsAreAlerts == Spec => []AlarmRaisesAlert
<1>1. Init => AlarmRaisesAlert
  BY DEF Init, AlarmRaisesAlert
<1>2. TypeInv /\ AlarmRaisesAlert /\ [Next]_vars => AlarmRaisesAlert'
  <2> SUFFICES ASSUME TypeInv, AlarmRaisesAlert, [Next]_vars
               PROVE  AlarmRaisesAlert'
    OBVIOUS
  <2>1. ASSUME NEW r \in Reports, Announce(r)
        PROVE  /\ alarms \subseteq alarms'
               /\ \A x \in calls' : \/ x \in calls
                                    \/ x = r /\ r \in alarms /\ row[r] # NULL
    <3>1. row[r] # NULL /\ alarms' = alarms
      BY <2>1 DEF Announce, routeVars, TypeInv, ReportOK
    <3>2. \/ calls' = calls
          \/ r \in alarms /\ calls' = calls \cup {r}
      BY <2>1 DEF Announce
    <3>3. QED
      BY <3>1, <3>2
  <2>2. ASSUME NEW r \in Reports, InsertAlarm(r)
        PROVE  alarms \subseteq alarms' /\ calls' \subseteq calls
    BY <2>2 DEF InsertAlarm, tellVars
  <2>3. ASSUME NEW r \in calls, CallsEnd(r)
        PROVE  alarms \subseteq alarms' /\ calls' \subseteq calls
    BY <2>3 DEF CallsEnd, routeVars
  <2>4. \/ \E r \in Reports : Announce(r)
        \/ \E r \in Reports : InsertAlarm(r)
        \/ \E r \in calls : CallsEnd(r)
        \/ UNCHANGED <<alarms, calls>>
    BY DEF Next, vars, Report, ReportStep, DecryptSms, FindUser, FindCustomer, InsertAlert,
           Geocode, StoreStep, FindGovernment, FindAddresses, FirstCheckpoint,
           JobStep, FindContacts, FindStaff, RecordNotification, JobFails, Ask,
           HandlerStep, FindMonitor, ExistAlert, UpdateAlert, ShowUpdate, AddCheckpoint, Fail,
           WriteLands, WriteLost, SetMonitor, MoveUser, SignToken, routeVars, tellVars
  <2>5. /\ alarms \subseteq alarms'
        /\ \A r \in calls' : \/ r \in calls
                             \/ r \in alarms /\ r \in Reports /\ row[r] # NULL
    <3>1. CASE \E r \in Reports : Announce(r)
      BY <2>1, <3>1
    <3>2. CASE \E r \in Reports : InsertAlarm(r)
      BY <2>2, <3>2
    <3>3. CASE \E r \in calls : CallsEnd(r)
      BY <2>3, <3>3
    <3>4. CASE UNCHANGED <<alarms, calls>>
      BY <3>4
    <3>5. QED
      BY <2>4, <3>1, <3>2, <3>3, <3>4
  <2>6. \A r \in calls' : r \in Reports /\ r \in alarms' /\ row[r] # NULL
    BY <2>5 DEF AlarmRaisesAlert, TypeInv, TypeOK
  <2>7. QED
    BY <2>6, RowsStay DEF AlarmRaisesAlert
<1>3. QED
  BY <1>1, <1>2, TypeAlways, PTL DEF Spec

\* A handler past the permission query may have it no longer but had it; past
\* existAlert the alert is its customer's; a checkpoint it refused was not.
MonitorInv ==
  \A h \in Handlers :
    /\ pc[h] = "monitor" => req[h].kind = "changeState"
    /\ pc[h] \in {"exists", "update"} /\ req[h].kind = "changeState" =>
         <<req[h].by, asked[h]>> \in granted
    /\ pc[h] = "update" => row[req[h].alert].customer = asked[h]
    /\ pc[h] = "rejected" /\ req[h].kind = "checkpoint" =>
         row[req[h].alert].customer # asked[h]

LEMMA MonitorInit == Init => MonitorInv
BY RoutingAssumption DEF Init, MonitorInv

\* The steps that bring a handler on, and what every other one leaves alone.
LEMMA MonitorSteps ==
  ASSUME TypeInv, [Next]_vars, NEW h \in Handlers
  PROVE  \/ \E o \in Asks : Ask(h, o)
         \/ FindMonitor(h) \/ ExistAlert(h)
         \/ /\ req'[h] = req[h] /\ asked'[h] = asked[h] /\ granted \subseteq granted'
            /\ pc'[h] = pc[h] \/ pc'[h] \in {"show", "done", "failed"}
<1> DEFINE Same == /\ req'[h] = req[h] /\ asked'[h] = asked[h] /\ granted \subseteq granted'
                   /\ pc'[h] = pc[h] \/ pc'[h] \in {"show", "done", "failed"}
<1> USE DEF Goto, TypeInv, TypeOK, permissionVars, routeVars
<1>1. ASSUME NEW x \in Handlers, x # h,
             (\E o \in Asks : Ask(x, o)) \/ FindMonitor(x) \/ ExistAlert(x)
      PROVE  Same
  BY <1>1 DEF Ask, FindMonitor, ExistAlert
<1>2. ASSUME NEW x \in Handlers, UpdateAlert(x) \/ ShowUpdate(x) \/ AddCheckpoint(x)
      PROVE  Same
  BY <1>2 DEF UpdateAlert, ShowUpdate, AddCheckpoint
<1>3. ASSUME NEW r \in Reports, (\E b \in Bodies : Report(r, b)) \/ ReportStep(r)
      PROVE  Same
  <2>1. h # r
    BY RoutingAssumption
  <2>2. PICK phase : pc' = [pc EXCEPT ![r] = phase]
    BY <1>3 DEF Report, ReportStep, DecryptSms, FindUser, InsertAlarm, FindCustomer, Geocode,
                StoreStep, FindGovernment, FindAddresses, InsertAlert, FirstCheckpoint, Announce
  <2>3. /\ req' = req \/ \E b \in Bodies : req' = [req EXCEPT ![r] = b]
        /\ asked' = asked \/ \E c : asked' = [asked EXCEPT ![r] = c]
        /\ granted' = granted
    BY <1>3 DEF Report, ReportStep, DecryptSms, FindUser, InsertAlarm, FindCustomer, Geocode,
                StoreStep, FindGovernment, FindAddresses, InsertAlert, FirstCheckpoint, Announce
  <2>4. QED
    BY <2>1, <2>2, <2>3
<1>4. ASSUME NEW x \in Reports \cup Handlers, Fail(x)
      PROVE  Same
  BY <1>4 DEF Fail
<1>5. ASSUME NEW p \in Grants, SetMonitor(p)
      PROVE  Same
  BY <1>5 DEF SetMonitor
<1>6. ASSUME UNCHANGED <<pc, req, asked>>, granted \subseteq granted'
      PROVE  Same
  BY <1>6
<1>7. QED
  BY <1>1, <1>2, <1>3, <1>4, <1>5, <1>6
  DEF Next, vars, HandlerStep, JobStep, JobFails, FindContacts, FindStaff,
      RecordNotification, CallsEnd, WriteLands, WriteLost, MoveUser, SignToken

LEMMA MonitorNext == TypeInv /\ MonitorInv /\ [Next]_vars => MonitorInv'
<1> DEFINE Good(h) ==
      /\ pc[h] = "monitor" => req[h].kind = "changeState"
      /\ pc[h] \in {"exists", "update"} /\ req[h].kind = "changeState" =>
           <<req[h].by, asked[h]>> \in granted
      /\ pc[h] = "update" => row[req[h].alert].customer = asked[h]
      /\ pc[h] = "rejected" /\ req[h].kind = "checkpoint" =>
           row[req[h].alert].customer # asked[h]
<1> SUFFICES ASSUME TypeInv, MonitorInv, [Next]_vars, NEW h \in Handlers
             PROVE  Good(h)'
  BY DEF MonitorInv
<1>0. /\ Good(h) /\ pc \in [Reports \cup Handlers -> Phases]
      /\ asked \in [Reports \cup Handlers -> Customers \cup {NULL}]
      /\ req \in [Reports \cup Handlers -> Bodies \cup Asks \cup {NULL}]
      /\ pc[h] # "idle" => req[h] \in Asks /\ req[h].alert \in Reports /\ row[req[h].alert] # NULL
  BY AskTypes DEF MonitorInv, TypeInv, TypeOK, HandlerOK, Phases
<1> USE DEF Goto, permissionVars, routeVars
<1>1. ASSUME NEW o \in Asks, Ask(h, o)
      PROVE  Good(h)'
  <2>1. /\ req'[h] = o /\ o.kind \in {"changeState", "checkpoint"}
        /\ pc'[h] = IF o.kind = "changeState" THEN "monitor" ELSE "exists"
    BY <1>1, <1>0, AskTypes DEF Ask
  <2>2. QED
    BY <2>1
<1>2. ASSUME FindMonitor(h)
      PROVE  Good(h)'
  <2>1. /\ req' = req /\ asked' = asked /\ granted' = granted /\ req[h].kind = "changeState"
        /\ \/ pc'[h] = "rejected"
           \/ /\ pc'[h] = "exists"
              /\ \/ member[req[h].by] = asked[h]
                 \/ <<req[h].by, asked[h]>> \in monitors
    BY <1>2, <1>0 DEF FindMonitor
  <2>2. req[h].by \in Users
    BY <1>2, <1>0, AskTypes DEF FindMonitor
  <2>3. QED
    BY <2>1, <2>2 DEF TypeInv, TypeOK
<1>3. ASSUME ExistAlert(h)
      PROVE  Good(h)'
  <2>1. /\ req' = req /\ asked' = asked /\ granted' = granted /\ row' = row
        /\ pc[h] = "exists"
        /\ \/ pc'[h] = "update" /\ row[req[h].alert].customer = asked[h]
           \/ pc'[h] = "rejected" /\ row[req[h].alert].customer # asked[h]
    BY <1>3, <1>0 DEF ExistAlert
  <2>2. QED
    BY <2>1, <1>0
<1>4. ASSUME /\ req'[h] = req[h] /\ asked'[h] = asked[h] /\ granted \subseteq granted'
             /\ pc'[h] = pc[h] \/ pc'[h] \in {"show", "done", "failed"}
      PROVE  Good(h)'
  <2>1. CASE pc'[h] \in {"show", "done", "failed"}
    BY <2>1
  <2>2. CASE pc'[h] = pc[h] /\ pc[h] # "idle"
    <3>1. row'[req[h].alert].customer = row[req[h].alert].customer
      BY <2>2, <1>0, RowsStay
    <3>2. QED
      BY <1>4, <1>0, <2>2, <3>1
  <2>3. CASE pc'[h] = "idle"
    BY <2>3
  <2>4. QED
    BY <1>4, <2>1, <2>2, <2>3
<1>5. QED
  BY <1>1, <1>2, <1>3, <1>4, MonitorSteps

LEMMA MonitorAlways == Spec => []MonitorInv
BY MonitorInit, MonitorNext, TypeAlways, PTL DEF Spec

\* createCheckpoint asks for the customer of the author's token: if the alert was
\* raised for that one, his checkpoint is refused only when create may have given
\* the alert to another, for a place outside the district or an unknown one.
THEOREM AuthorFollows == Spec => []AuthorRefusedOnlyAway
<1>1. TypeInv /\ PlaceInv /\ MonitorInv => AuthorRefusedOnlyAway
  <2> SUFFICES ASSUME TypeInv, PlaceInv, MonitorInv, NEW h \in Handlers,
                      pc[h] = "rejected", req[h].kind = "checkpoint",
                      asked[h] = asked[req[h].alert]
               PROVE  /\ asked[req[h].alert] \in Governments
                      /\ place[req[h].alert] # DistrictOf[asked[req[h].alert]]
    BY DEF AuthorRefusedOnlyAway
  <2>1. req[h].alert \in Reports /\ row[req[h].alert] # NULL
    BY AskTypes DEF TypeInv, HandlerOK
  <2>2. row[req[h].alert].customer # asked[req[h].alert]
    BY DEF MonitorInv
  <2>3. QED
    BY <2>1, <2>2 DEF PlaceInv, Routed
<1>2. QED
  BY <1>1, TypeAlways, PlaceAlways, MonitorAlways, PTL

\* changeState changes nothing but the state of an alert, for a user of the
\* customer it was routed to or one who had permission to monitor that.
THEOREM OnlyMonitorsChange == Spec => ChangedByItsMonitors
<1>1. TypeInv /\ MonitorInv /\ [Next]_vars =>
        [\A r \in Reports : (row[r] # NULL /\ row'[r] # row[r]) =>
           /\ row'[r] = [row[r] EXCEPT !.state = row'[r].state]
           /\ \E h \in Handlers : /\ pc[h] = "update" /\ pc'[h] = "show"
                                  /\ req[h].alert = r
                                  /\ <<req[h].by, row[r].customer>> \in granted]_vars
  <2> SUFFICES ASSUME TypeInv, MonitorInv, [Next]_vars, NEW r \in Reports,
                      row[r] # NULL, row'[r] # row[r]
               PROVE  /\ row'[r] = [row[r] EXCEPT !.state = row'[r].state]
                      /\ \E h \in Handlers :
                           /\ pc[h] = "update" /\ pc'[h] = "show" /\ req[h].alert = r
                           /\ <<req[h].by, row[r].customer>> \in granted
    OBVIOUS
  <2>1. ~\E x \in Reports : InsertAlert(x)
    BY DEF InsertAlert, TypeInv, TypeOK, ReportOK
  <2>2. PICK h \in Handlers : UpdateAlert(h)
    <3>1. \/ \E x \in Reports : InsertAlert(x)
          \/ \E h \in Handlers : UpdateAlert(h)
          \/ UNCHANGED row
      BY DEF Next, vars, Report, ReportStep, DecryptSms, FindUser, InsertAlarm, FindCustomer,
             Geocode, StoreStep, FindGovernment, FindAddresses, FirstCheckpoint, Announce,
             JobStep, FindContacts, FindStaff, RecordNotification, JobFails, CallsEnd, Ask,
             HandlerStep, FindMonitor, ExistAlert, ShowUpdate, AddCheckpoint, Fail,
             WriteLands, WriteLost, SetMonitor, MoveUser, SignToken
    <3>2. QED
      BY <2>1, <3>1
  <2>3. /\ req[h].alert = r /\ pc[h] = "update" /\ pc'[h] = "show"
        /\ req[h].kind = "changeState"
        /\ row'[r] = [row[r] EXCEPT !.state = req[h].state]
    BY <2>2 DEF UpdateAlert, Goto, TypeInv, TypeOK
  <2>4. row[r] \in Rows
    BY DEF TypeInv, TypeOK
  <2>5. row'[r] = [row[r] EXCEPT !.state = row'[r].state]
    <3>1. \A w \in Rows : \A s : [w EXCEPT !.state = s].state = s
      BY DEF Rows
    <3>2. row'[r].state = req[h].state
      BY <2>3, <2>4, <3>1
    <3>3. QED
      BY <2>3, <3>2
  <2>6. row[r].customer = asked[h] /\ <<req[h].by, asked[h]>> \in granted
    BY <2>3 DEF MonitorInv
  <2>7. QED
    BY <2>3, <2>5, <2>6
<1>2. QED
  BY <1>1, TypeAlways, MonitorAlways, PTL DEF Spec, ChangedByItsMonitors


-----------------------------------------------------------------------------
(* The mirror *)

\* A request to change the alert's state that is under way.
Changing(h, r) ==
  pc[h] \notin {"idle"} \cup Ended /\ req[h].kind = "changeState" /\ req[h].alert = r

\* The state an alert is stored in, and first shown with.
Stored(r) == IF req[r].alarm THEN "Vecinal" ELSE "Emitida"
Storing(r) == pc[r] \in {"checkpoint", "announce"}

\* At most one change is under way, and no write before it has its own; a write
\* carries the alert's state, and an alert that is not shown yet has its create,
\* a change or a write to come.
MirrorOK(r) ==
  /\ \A g, h \in Handlers : (Changing(g, r) /\ Changing(h, r)) => g = h
  /\ Storing(r) => row[r].state = Stored(r) /\ \A h \in Handlers : ~Changing(h, r)
  /\ (Storing(r) \/ \E h \in Handlers : Changing(h, r)) => \A w \in writes : w[1] # r
  /\ \A h \in Handlers : (Changing(h, r) /\ pc[h] = "show") => row[r].state = req[h].state
  /\ \A w \in writes : w[1] = r => w[2] = row[r].state
  /\ \/ mirror[r] = row[r].state
     \/ Storing(r)
     \/ \E h \in Handlers : Changing(h, r) /\ pc[h] = "show"
     \/ \E w \in writes : w[1] = r

RowMirror(r) ==
  IF row[r] = NULL THEN mirror[r] = NULL
  ELSE IF req[r].type \in Quiet THEN mirror[r] = NULL /\ \A w \in writes : w[1] # r
  ELSE r \in excused \/ MirrorOK(r)

MirrorInv ==
  /\ \A h \in Handlers : pc[h] = "show" => req[h].kind = "changeState"
  /\ \A r \in Reports : RowMirror(r)

\* A step that leaves the alert, its mirror, its writes and its create alone,
\* and at most brings a change of it on towards its update.
LEMMA MirrorFrame ==
  ASSUME NEW r \in Reports, RowMirror(r),
         row'[r] = row[r], mirror'[r] = mirror[r], excused \subseteq excused',
         row[r] # NULL => req'[r] = req[r],
         \A w : w[1] = r => (w \in writes' <=> w \in writes),
         row[r] # NULL => (Storing(r)' <=> Storing(r)),
         \A h \in Handlers : Changing(h, r)' =>
           /\ Changing(h, r) /\ req'[h] = req[h]
           /\ pc'[h] = "show" => pc[h] = "show",
         \A h \in Handlers : (Changing(h, r) /\ pc[h] = "show") =>
           (Changing(h, r)' /\ pc'[h] = "show")
  PROVE  RowMirror(r)'
<1>1. CASE row[r] = NULL \/ req[r].type \in Quiet \/ r \in excused
  BY <1>1 DEF RowMirror
<1>2. CASE MirrorOK(r) /\ row[r] # NULL
  <2>1. Stored(r)' = Stored(r)
    BY <1>2 DEF Stored
  <2>2. MirrorOK(r)'
    BY <1>2, <2>1 DEF MirrorOK
  <2>3. QED
    BY <2>2, <1>1, <1>2 DEF RowMirror
<1>3. QED
  BY <1>1, <1>2 DEF RowMirror

\* Only changes are shown.
LEMMA ShowNext ==
  ASSUME TypeInv, MirrorInv, [Next]_vars, NEW h \in Handlers, pc'[h] = "show"
  PROVE  req'[h].kind = "changeState"
<1> USE DEF Goto, TypeInv, TypeOK
<1>1. ASSUME UpdateAlert(h)
      PROVE  req'[h].kind = "changeState"
  BY <1>1 DEF UpdateAlert
<1>2. ASSUME pc'[h] = pc[h], req'[h] = req[h]
      PROVE  req'[h].kind = "changeState"
  BY <1>2 DEF MirrorInv
<1>3. ASSUME NEW x \in Handlers \ {h}, UpdateAlert(x)
      PROVE  pc'[h] = pc[h] /\ req'[h] = req[h]
  BY <1>3 DEF UpdateAlert
<1>4. ASSUME NEW x \in Reports \cup Handlers, NEW p, p # "show", pc' = [pc EXCEPT ![x] = p],
             req' = req \/ \E v : req' = [req EXCEPT ![x] = v]
      PROVE  x # h /\ pc'[h] = pc[h] /\ req'[h] = req[h]
  BY <1>4
<1>5. ASSUME NEW x \in Reports, (\E b \in Bodies : Report(x, b)) \/ ReportStep(x)
      PROVE  req'[h].kind = "changeState"
  <2>1. PICK p : p # "show" /\ pc' = [pc EXCEPT ![x] = p]
    BY <1>5 DEF Report, ReportStep, DecryptSms, FindUser, InsertAlarm, FindCustomer, Geocode,
                StoreStep, FindGovernment, FindAddresses, InsertAlert, FirstCheckpoint, Announce
  <2>2. req' = req \/ \E b \in Bodies : req' = [req EXCEPT ![x] = b]
    BY <1>5 DEF Report, ReportStep, DecryptSms, FindUser, InsertAlarm, FindCustomer, Geocode,
                StoreStep, FindGovernment, FindAddresses, InsertAlert, FirstCheckpoint, Announce
  <2>3. QED
    BY <1>2, <1>4, <2>1, <2>2
<1>6. ASSUME NEW x \in Handlers, (\E o \in Asks : Ask(x, o)) \/ FindMonitor(x)
                                 \/ ExistAlert(x) \/ ShowUpdate(x) \/ AddCheckpoint(x)
      PROVE  req'[h].kind = "changeState"
  <2>1. PICK p : p # "show" /\ pc' = [pc EXCEPT ![x] = p]
    BY <1>6 DEF Ask, FindMonitor, ExistAlert, ShowUpdate, AddCheckpoint
  <2>2. req' = req \/ \E o \in Asks : req' = [req EXCEPT ![x] = o]
    BY <1>6 DEF Ask, FindMonitor, ExistAlert, ShowUpdate, AddCheckpoint
  <2>3. QED
    BY <1>2, <1>4, <2>1, <2>2
<1>7. ASSUME NEW x \in Reports \cup Handlers, Fail(x)
      PROVE  req'[h].kind = "changeState"
  BY <1>2, <1>4, <1>7 DEF Fail
<1>8. ASSUME UNCHANGED <<pc, req>>
      PROVE  req'[h].kind = "changeState"
  BY <1>2, <1>8
<1>9. QED
  BY <1>1, <1>2, <1>3, <1>5, <1>6, <1>7, <1>8
  DEF Next, vars, HandlerStep, JobStep, JobFails, FindContacts, FindStaff,
      RecordNotification, CallsEnd, WriteLands, WriteLost, SetMonitor, MoveUser, SignToken

LEMMA MirrorNext == TypeInv /\ MirrorInv /\ [Next]_vars => MirrorInv'
<1> SUFFICES ASSUME TypeInv, MirrorInv, [Next]_vars, NEW r \in Reports
             PROVE  RowMirror(r)'
  BY ShowNext DEF MirrorInv
<1>b. RowMirror(r) /\ \A h \in Handlers : pc[h] = "show" => req[h].kind = "changeState"
  BY DEF MirrorInv
<1>c. /\ \A x \in Reports \cup Handlers : \A p : [pc EXCEPT ![x] = p][x] = p
      /\ \A x, y \in Reports \cup Handlers : \A p : x # y => [pc EXCEPT ![x] = p][y] = pc[y]
      /\ \A x \in Reports, h \in Handlers : x # h
  BY RoutingAssumption DEF TypeInv, TypeOK
<1>d. /\ \A w \in writes : w[1] \in Reports /\ row[w[1]] # NULL /\ w = <<w[1], w[2]>>
      /\ \A h \in Handlers : pc[h] # "idle" => row[req[h].alert] # NULL
      /\ \A h \in Handlers : \A s : Changing(h, s) => row[s] # NULL
      /\ row[r] # NULL => pc[r] \in {"checkpoint", "announce", "done", "failed"}
  BY DEF TypeInv, TypeOK, HandlerOK, ReportOK, Changing
<1> USE DEF Goto
\* A step of another report.
<1>1. ASSUME NEW x \in Reports \ {r}, NEW p, pc' = [pc EXCEPT ![x] = p],
             \A y \in (Reports \cup Handlers) \ {x} : req'[y] = req[y],
             row'[r] = row[r], mirror' = mirror, excused \subseteq excused',
             \A w : w[1] = r => (w \in writes' <=> w \in writes)
      PROVE  RowMirror(r)'
  <2>1. /\ pc'[r] = pc[r] /\ req'[r] = req[r]
        /\ \A h \in Handlers : pc'[h] = pc[h] /\ req'[h] = req[h]
    BY <1>1, <1>c
  <2>2. \A h \in Handlers : Changing(h, r)' <=> Changing(h, r)
    BY <2>1 DEF Changing
  <2>3. Storing(r)' <=> Storing(r)
    BY <2>1 DEF Storing
  <2>4. QED
    BY <1>1, <1>b, <2>1, <2>2, <2>3, MirrorFrame
\* A step of a request: what it leaves of an alert that it does not change.
<1>2. ASSUME NEW h \in Handlers, NEW p, pc' = [pc EXCEPT ![h] = p],
             ~Changing(h, r) \/ (pc[h] # "show" /\ p # "show" /\ req'[h] = req[h]),
             Changing(h, r)' => Changing(h, r),
             \A y \in (Reports \cup Handlers) \ {h} : req'[y] = req[y],
             row'[r] = row[r], mirror' = mirror, excused \subseteq excused',
             \A w : w[1] = r => (w \in writes' <=> w \in writes)
      PROVE  RowMirror(r)'
  <2>1. /\ pc'[r] = pc[r] /\ req'[r] = req[r] /\ pc'[h] = p
        /\ \A g \in Handlers \ {h} : pc'[g] = pc[g] /\ req'[g] = req[g]
    BY <1>2, <1>c
  <2>2. \A g \in Handlers \ {h} : Changing(g, r)' <=> Changing(g, r)
    BY <2>1 DEF Changing
  <2>3. Storing(r)' <=> Storing(r)
    BY <2>1 DEF Storing
  <2>4. \A g \in Handlers : Changing(g, r)' =>
          /\ Changing(g, r) /\ req'[g] = req[g]
          /\ pc'[g] = "show" => pc[g] = "show"
    BY <1>2, <2>1, <2>2
  <2>5. \A g \in Handlers : (Changing(g, r) /\ pc[g] = "show") =>
          (Changing(g, r)' /\ pc'[g] = "show")
    BY <1>2, <2>1, <2>2
  <2>6. QED
    BY <1>2, <1>b, <2>1, <2>3, <2>4, <2>5, MirrorFrame
<1>3. ASSUME NEW x \in Reports,
             (\E b \in Bodies : Report(x, b)) \/ DecryptSms(x) \/ FindUser(x) \/ InsertAlarm(x)
             \/ FindCustomer(x) \/ Geocode(x) \/ FindGovernment(x) \/ FindAddresses(x)
      PROVE  RowMirror(r)'
  <2>1. /\ UNCHANGED <<row, mirrorVars>> /\ pc[x] \notin {"checkpoint", "announce"} \cup Ended
        /\ \E p : pc' = [pc EXCEPT ![x] = p]
        /\ req' = req \/ \E b \in Bodies : req' = [req EXCEPT ![x] = b]
    BY <1>3 DEF Report, DecryptSms, FindUser, InsertAlarm, FindCustomer, Geocode,
                FindGovernment, FindAddresses, Ended
  <2>2. CASE x = r
    <3>1. row[r] = NULL /\ row'[r] = NULL /\ mirror'[r] = mirror[r]
      BY <1>d, <2>1, <2>2 DEF Ended, mirrorVars
    <3>2. QED
      BY <1>b, <3>1 DEF RowMirror
  <2>3. CASE x # r
    <3>1. \A y \in (Reports \cup Handlers) \ {x} : req'[y] = req[y]
      BY <2>1 DEF TypeInv
    <3>2. QED
      BY <1>1, <2>1, <2>3, <3>1 DEF mirrorVars
  <2>4. QED
    BY <2>2, <2>3
<1>4. ASSUME NEW x \in Reports, InsertAlert(x)
      PROVE  RowMirror(r)'
  <2>0. PICK p \in {"checkpoint", "announce"} : pc' = [pc EXCEPT ![x] = p]
    BY <1>4 DEF InsertAlert
  <2>1. UNCHANGED <<req, mirror, writes, excused>> /\ pc[x] = "insert"
    BY <1>4 DEF InsertAlert, mirrorVars
  <2>2. CASE x # r
    <3>1. row'[r] = row[r]
      BY <1>4, <2>2 DEF InsertAlert, TypeInv, TypeOK
    <3>2. QED
      BY <1>1, <2>0, <2>1, <2>2, <3>1
  <2>3. CASE x = r
    <3>1. row[r] = NULL /\ mirror'[r] = NULL /\ \A w \in writes' : w[1] # r
      BY <1>b, <1>d, <2>1, <2>3 DEF RowMirror
    <3>2. row'[r].state = Stored(r)'
      BY <1>4, <2>1, <2>3 DEF InsertAlert, Stored, TypeInv, TypeOK
    <3>3. /\ pc'[r] = p /\ \A h \in Handlers : pc'[h] = pc[h]
      BY <1>c, <2>0, <2>3
    <3>4. Storing(r)' /\ \A h \in Handlers : ~Changing(h, r)'
      BY <1>d, <2>1, <3>1, <3>3 DEF Storing, Changing
    <3>5. MirrorOK(r)'
      BY <3>1, <3>2, <3>4 DEF MirrorOK
    <3>6. QED
      BY <3>1, <3>5 DEF RowMirror
  <2>4. QED
    BY <2>2, <2>3
<1>5. ASSUME NEW x \in Reports, FirstCheckpoint(x)
      PROVE  RowMirror(r)'
  <2>1. UNCHANGED <<req, row, mirrorVars>> /\ pc[x] = "checkpoint"
        /\ pc' = [pc EXCEPT ![x] = "announce"]
    BY <1>5 DEF FirstCheckpoint
  <2>2. Storing(r)' <=> Storing(r)
    BY <1>c, <2>1 DEF Storing
  <2>3. \A h \in Handlers : pc'[h] = pc[h] /\ (Changing(h, r)' <=> Changing(h, r))
    BY <1>c, <2>1 DEF Changing
  <2>4. QED
    BY <1>b, <2>1, <2>2, <2>3, MirrorFrame DEF mirrorVars
<1>6. ASSUME NEW x \in Reports, Announce(x)
      PROVE  RowMirror(r)'
  <2>1. /\ UNCHANGED <<req, row, mirror, excused>> /\ pc[x] = "announce"
        /\ pc' = [pc EXCEPT ![x] = "done"]
        /\ writes' = IF req[x].type \in Quiet THEN writes ELSE writes \cup {<<x, Stored(x)>>}
    BY <1>6 DEF Announce, Stored
  <2>2. CASE x # r
    <3>1. \A w : w[1] = r => (w \in writes' <=> w \in writes)
      BY <2>1, <2>2
    <3>2. QED
      BY <1>1, <2>1, <2>2, <3>1
  <2>3. CASE x = r /\ (req[r].type \in Quiet \/ r \in excused \/ row[r] = NULL)
    BY <1>b, <2>1, <2>3 DEF RowMirror
  <2>4. CASE x = r /\ req[r].type \notin Quiet /\ row[r] # NULL /\ MirrorOK(r)
    <3>1. Storing(r)
      BY <2>1, <2>4 DEF Storing
    <3>2. /\ row[r].state = Stored(r) /\ \A w \in writes : w[1] # r
          /\ \A h \in Handlers : ~Changing(h, r)
      BY <2>4, <3>1 DEF MirrorOK
    <3>3. ~Storing(r)' /\ \A h \in Handlers : ~Changing(h, r)'
      <4>1. pc'[r] = "done" /\ \A h \in Handlers : pc'[h] = pc[h]
        BY <1>c, <2>1, <2>4
      <4>2. QED
        BY <2>1, <3>2, <4>1 DEF Storing, Changing
    <3>4. <<r, Stored(r)>>[1] = r /\ <<r, Stored(r)>>[2] = Stored(r)
      OBVIOUS
    <3>5. /\ \A w \in writes' : w[1] = r => w[2] = row'[r].state
          /\ \E w \in writes' : w[1] = r
      BY <2>1, <2>4, <3>2, <3>4
    <3>6. MirrorOK(r)'
      BY <3>3, <3>5 DEF MirrorOK
    <3>7. QED
      BY <2>1, <2>4, <3>6 DEF RowMirror
  <2>5. QED
    BY <1>b, <2>2, <2>3, <2>4 DEF RowMirror
<1>7. ASSUME NEW h \in Handlers, NEW o \in Asks, Ask(h, o)
      PROVE  RowMirror(r)'
  <2>0. PICK p \in {"monitor", "exists"} : pc' = [pc EXCEPT ![h] = p]
    BY <1>7 DEF Ask
  <2>1. /\ UNCHANGED <<row, mirror, writes>> /\ pc[h] = "idle" /\ pc'[h] = p
        /\ req'[h] = o /\ \A y \in (Reports \cup Handlers) \ {h} : req'[y] = req[y]
        /\ excused \subseteq excused' /\ row[o.alert] # NULL
        /\ (o.kind = "changeState" /\ Busy(o.alert)) => o.alert \in excused'
    BY <1>7, <2>0, <1>c DEF Ask, TypeInv, TypeOK
  <2>2. ~Changing(h, r)
    BY <2>1 DEF Changing
  <2>3. CASE o.kind # "changeState" \/ o.alert # r
    <3>1. ~Changing(h, r)'
      BY <2>1, <2>3 DEF Changing
    <3>2. QED
      BY <1>2, <2>0, <2>1, <2>2, <3>1
  <2>4. CASE o.kind = "changeState" /\ o.alert = r
    <3>1. req'[r] = req[r]
      BY <1>c, <2>1
    <3>2. CASE req[r].type \in Quiet \/ r \in excused'
      BY <1>b, <2>1, <2>4, <3>1, <3>2 DEF RowMirror
    <3>3. CASE req[r].type \notin Quiet /\ r \notin excused'
      <4>1. MirrorOK(r)
        BY <1>b, <2>1, <2>4, <3>3 DEF RowMirror
      <4>2. ~Storing(r) /\ (\A w \in writes : w[1] # r) /\ \A g \in Handlers : ~Changing(g, r)
        BY <2>1, <2>4, <3>3 DEF Busy, InFlight, Storing, Changing, Ended
      <4>3. mirror[r] = row[r].state
        BY <4>1, <4>2 DEF MirrorOK
      <4>4. ~Storing(r)' /\ \A g \in Handlers \ {h} : ~Changing(g, r)'
        BY <1>c, <2>0, <2>1, <4>2 DEF Storing, Changing
      <4>5. p # "show" /\ writes' = writes
        BY <2>1
      <4>6. MirrorOK(r)'
        BY <2>1, <4>2, <4>3, <4>4, <4>5 DEF MirrorOK
      <4>7. QED
        BY <2>1, <2>4, <3>1, <3>3, <4>6 DEF RowMirror
    <3>4. QED
      BY <3>2, <3>3
  <2>5. QED
    BY <2>3, <2>4
<1>8. ASSUME NEW h \in Handlers, FindMonitor(h) \/ ExistAlert(h) \/ AddCheckpoint(h)
      PROVE  RowMirror(r)'
  <2>1. PICK p \in {"exists", "rejected", "update", "done"} : pc' = [pc EXCEPT ![h] = p]
    BY <1>8 DEF FindMonitor, ExistAlert, AddCheckpoint
  <2>2. UNCHANGED <<req, row, mirror, writes, excused>> /\ pc[h] \in {"monitor", "exists", "update"}
    BY <1>8 DEF FindMonitor, ExistAlert, AddCheckpoint, mirrorVars
  <2>3. Changing(h, r)' => Changing(h, r)
    BY <2>2 DEF Changing, Ended
  <2>4. QED
    BY <1>2, <2>1, <2>2, <2>3
<1>9. ASSUME NEW h \in Handlers, UpdateAlert(h)
      PROVE  RowMirror(r)'
  <2>1. /\ UNCHANGED <<req, mirror, writes, excused>> /\ pc[h] = "update"
        /\ pc' = [pc EXCEPT ![h] = "show"] /\ pc'[h] = "show"
        /\ req[h].kind = "changeState"
        /\ row' = [row EXCEPT ![req[h].alert].state = req[h].state]
    BY <1>9, <1>c DEF UpdateAlert, mirrorVars
  <2>2. CASE req[h].alert # r
    <3>1. row'[r] = row[r]
      BY <2>1, <2>2 DEF TypeInv, TypeOK
    <3>2. ~Changing(h, r) /\ ~Changing(h, r)'
      BY <2>1, <2>2 DEF Changing
    <3>3. QED
      BY <1>2, <2>1, <3>1, <3>2
  <2>3. CASE req[h].alert = r
    <3>1. Changing(h, r) /\ Changing(h, r)' /\ row[r] # NULL
      BY <1>d, <2>1, <2>3 DEF Changing, Ended
    <3>2. row'[r] # NULL /\ row'[r].state = req[h].state
      <4>1. row[r] \in Rows /\ req[h].state \in States /\ row'[r] = [row[r] EXCEPT !.state = req[h].state]
        BY <2>1, <2>3, <3>1, AskTypes DEF TypeInv, TypeOK, HandlerOK
      <4>2. \A w \in Rows : \A s : [w EXCEPT !.state = s].state = s
        BY DEF Rows
      <4>3. QED
        BY <4>1, <4>2, RowTypes
    <3>3. CASE req[r].type \in Quiet \/ r \in excused
      BY <1>b, <2>1, <3>1, <3>2, <3>3 DEF RowMirror
    <3>4. CASE MirrorOK(r) /\ req[r].type \notin Quiet
      <4>1. /\ ~Storing(r) /\ \A w \in writes : w[1] # r
            /\ \A g \in Handlers : Changing(g, r) => g = h
        BY <3>1, <3>4 DEF MirrorOK
      <4>2. ~Storing(r)' /\ \A g \in Handlers : Changing(g, r)' => g = h
        BY <1>c, <2>1, <4>1 DEF Storing, Changing
      <4>3. MirrorOK(r)'
        BY <2>1, <3>1, <3>2, <4>1, <4>2 DEF MirrorOK
      <4>4. QED
        BY <2>1, <3>2, <3>4, <4>3 DEF RowMirror
    <3>5. QED
      BY <1>b, <3>1, <3>3, <3>4 DEF RowMirror
  <2>4. QED
    BY <2>2, <2>3
<1>10. ASSUME NEW h \in Handlers, ShowUpdate(h)
       PROVE  RowMirror(r)'
  <2>1. /\ UNCHANGED <<req, row, mirror, excused>> /\ pc[h] = "show"
        /\ pc' = [pc EXCEPT ![h] = "done"] /\ pc'[h] = "done"
        /\ req[h].kind = "changeState"
        /\ writes' = IF req[req[h].alert].type \in Quiet THEN writes
                     ELSE writes \cup {<<req[h].alert, req[h].state>>}
    BY <1>10, <1>b, <1>c DEF ShowUpdate
  <2>2. CASE req[h].alert # r
    <3>1. ~Changing(h, r) /\ ~Changing(h, r)'
      BY <2>2, <2>1 DEF Changing
    <3>2. \A w : w[1] = r => (w \in writes' <=> w \in writes)
      BY <2>1, <2>2
    <3>3. QED
      BY <1>2, <2>1, <3>1, <3>2
  <2>3. CASE req[h].alert = r /\ (req[r].type \in Quiet \/ r \in excused \/ row[r] = NULL)
    BY <1>b, <2>1, <2>3 DEF RowMirror
  <2>4. CASE req[h].alert = r /\ req[r].type \notin Quiet /\ row[r] # NULL /\ MirrorOK(r)
    <3>1. Changing(h, r)
      BY <2>1, <2>4 DEF Changing, Ended
    <3>2. /\ ~Storing(r) /\ row[r].state = req[h].state /\ \A w \in writes : w[1] # r
          /\ \A g \in Handlers : Changing(g, r) => g = h
      BY <2>1, <2>4, <3>1 DEF MirrorOK
    <3>3. ~Storing(r)' /\ \A g \in Handlers : ~Changing(g, r)'
      BY <1>c, <2>1, <3>2 DEF Storing, Changing, Ended
    <3>4. <<r, req[h].state>>[1] = r /\ <<r, req[h].state>>[2] = req[h].state
      OBVIOUS
    <3>5. /\ \A w \in writes' : w[1] = r => w[2] = row'[r].state
          /\ \E w \in writes' : w[1] = r
      BY <2>1, <2>4, <3>2, <3>4
    <3>6. MirrorOK(r)'
      BY <3>3, <3>5 DEF MirrorOK
    <3>7. QED
      BY <2>1, <2>4, <3>6 DEF RowMirror
  <2>5. QED
    BY <1>b, <2>2, <2>3, <2>4 DEF RowMirror
<1>11. ASSUME NEW x \in Reports \cup Handlers, Fail(x)
       PROVE  RowMirror(r)'
  <2>1. /\ UNCHANGED <<req, row, mirror, writes>> /\ pc' = [pc EXCEPT ![x] = "failed"]
        /\ excused' = excused \cup {IF x \in Reports THEN x ELSE req[x].alert}
    BY <1>11 DEF Fail
  <2>2. CASE r \in excused'
    BY <1>b, <2>1, <2>2 DEF RowMirror
  <2>3. CASE r \notin excused' /\ x \in Reports
    BY <1>1, <2>1, <2>3
  <2>4. CASE r \notin excused' /\ x \in Handlers
    <3>1. ~Changing(x, r) /\ ~Changing(x, r)'
      BY <1>c, <2>1, <2>4 DEF Changing
    <3>2. QED
      BY <1>2, <2>1, <2>4, <3>1
  <2>5. QED
    BY <2>2, <2>3, <2>4
<1>12. ASSUME NEW w \in writes, WriteLands(w) \/ WriteLost(w)
       PROVE  RowMirror(r)'
  <2>1. /\ UNCHANGED <<pc, req, row>> /\ writes' = writes \ {w}
        /\ excused \subseteq excused'
        /\ mirror'[r] = IF WriteLands(w) /\ w[1] = r THEN w[2] ELSE mirror[r]
        /\ w[1] = r => (WriteLands(w) \/ r \in excused')
    BY <1>12, <1>d DEF WriteLands, WriteLost, TypeInv, TypeOK
  <2>2. /\ Storing(r)' <=> Storing(r)
        /\ Stored(r)' = Stored(r)
        /\ \A h \in Handlers : Changing(h, r)' <=> Changing(h, r)
    BY <2>1 DEF Storing, Stored, Changing
  <2>3. CASE w[1] # r
    <3>1. \A v : v[1] = r => (v \in writes' <=> v \in writes)
      BY <2>1, <2>3
    <3>2. QED
      BY <1>b, <2>1, <2>2, <2>3, <3>1, MirrorFrame
  <2>4. CASE w[1] = r
    <3>1. row[r] # NULL /\ req[r].type \in Quiet => FALSE
      BY <1>b, <2>4 DEF RowMirror
    <3>2. row[r] # NULL
      BY <1>d, <2>4
    <3>3. CASE r \in excused'
      BY <2>1, <3>1, <3>2, <3>3 DEF RowMirror
    <3>4. CASE r \notin excused'
      <4>1. MirrorOK(r) /\ WriteLands(w)
        BY <1>b, <2>1, <2>4, <3>1, <3>2, <3>4 DEF RowMirror
      <4>2. /\ mirror'[r] = row'[r].state /\ ~Storing(r)
            /\ \A h \in Handlers : ~Changing(h, r)
        BY <2>1, <2>4, <4>1 DEF MirrorOK
      <4>3. \A v \in writes' : v[1] = r => v[2] = row'[r].state
        BY <2>1, <4>1 DEF MirrorOK
      <4>4. MirrorOK(r)'
        BY <2>2, <4>2, <4>3 DEF MirrorOK
      <4>5. QED
        BY <2>1, <3>1, <3>2, <4>4 DEF RowMirror
    <3>5. QED
      BY <3>3, <3>4
  <2>5. QED
    BY <2>3, <2>4
<1>13. ASSUME UNCHANGED <<pc, req, row, mirrorVars>>
       PROVE  RowMirror(r)'
  <2>1. /\ Storing(r)' <=> Storing(r)
        /\ \A h \in Handlers : Changing(h, r)' <=> Changing(h, r)
    BY <1>13 DEF Storing, Changing
  <2>2. QED
    BY <1>13, <1>b, <2>1, MirrorFrame DEF mirrorVars
<1>14. QED
  BY <1>3, <1>4, <1>5, <1>6, <1>7, <1>8, <1>9, <1>10, <1>11, <1>12, <1>13
  DEF Next, vars, ReportStep, StoreStep, HandlerStep, JobStep, JobFails, FindContacts,
      FindStaff, RecordNotification, CallsEnd, SetMonitor, MoveUser, SignToken

\* AlertMirrorAgrees holds: the writes of create and changeState, which nobody
\* waits for, leave the monitors' screen with the state of the alert as long as
\* no two requests on it overlap, and never show a message of safe arrival.
THEOREM AlertsAreShown == Spec => []AlertMirrorAgrees
<1>1. Init => MirrorInv
  BY DEF Init, MirrorInv, RowMirror
<1>2. TypeInv /\ MirrorInv => AlertMirrorAgrees
  <2> SUFFICES ASSUME TypeInv, MirrorInv, NEW r \in Reports, row[r] # NULL, r \notin excused,
                      ~Busy(r)
               PROVE  mirror[r] = IF req[r].type \in Quiet THEN NULL ELSE row[r].state
    BY DEF AlertMirrorAgrees
  <2>1. RowMirror(r)
    BY DEF MirrorInv
  <2>2. ~Storing(r) /\ (\A w \in writes : w[1] # r) /\ \A h \in Handlers : ~Changing(h, r)
    BY DEF Busy, InFlight, Storing, Changing, Ended
  <2>3. QED
    BY <2>1, <2>2 DEF RowMirror, MirrorOK
<1>3. QED
  BY TypeInit, TypeNext, MirrorNext, <1>1, <1>2, PTL DEF Spec
=============================================================================
