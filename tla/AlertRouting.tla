---------------------------- MODULE AlertRouting ----------------------------
(***************************************************************************)
(* An alert from the app, an SMS or a neighbourhood alarm: which customer  *)
(* it goes to, who is told, what the monitors' screen shows of it, and who *)
(* may change or follow it.  A report is one such request; the alert it    *)
(* makes has its name.  AlertsService.create routes it by the place the    *)
(* geocoder gives, stores it, writes the first checkpoint and starts the   *)
(* notifications and the Firebase write without waiting for them.          *)
(*                                                                         *)
(* Configuration that no operation here changes (customers, alert types,   *)
(* settings) is read in one step even where the code needs two queries.    *)
(* Users are moved between customers, and given and denied permissions; a  *)
(* request acts for the customer its token was signed with.                *)
(***************************************************************************)
EXTENDS Integers, FiniteSets

CONSTANTS
  Reports,      \* requests that raise an alert
  Handlers,     \* later requests on alerts: [kind, alert, by, customer, state]
  Customers,
  Governments,  \* those of type government
  Active,       \* those that are active
  Equipped,     \* customers with their settings and integrations rows
  Districts,
  DistrictOf,   \* of a government
  Locations,    \* neighbourhoods
  AlertTypes,
  Lists,        \* Lists[g]: the alert types a government takes
  Tracking,     \* kidnapping, bad-company
  Quiet,        \* arrived-well
  Users,
  CustomerOf,   \* a user's customer at first, or NULL
  Enabled,      \* active users
  Numbered,     \* users with an alarm number
  Contacts,     \* Contacts[u][t]: active contacts of u who want to know of t
  Staff,        \* Staff[c][t]: the users the settings of c name for t
  Grants,       \* <<u, c>>: monitoring permissions given or taken meanwhile
  Moves,        \* <<u, c>>: an update may move u to c
  States,       \* alert states a customer may use
  Bodies,       \* what reports say
  Asks,         \* what later requests ask for
  NULL

Address == [at : Nat, neighborhood : Locations \cup {NULL}]

ASSUME RoutingAssumption ==
  /\ Reports \cap Handlers = {}
  /\ Governments \subseteq Customers
  /\ Active \subseteq Governments
  /\ Equipped \subseteq Customers
  /\ DistrictOf \in [Governments -> Districts]
  /\ Lists \in [Governments -> SUBSET AlertTypes]
  /\ Tracking \subseteq AlertTypes
  /\ Quiet \subseteq AlertTypes
  /\ CustomerOf \in [Users -> Customers \cup {NULL}]
  /\ Enabled \subseteq Users
  /\ Numbered \subseteq Users
  /\ Contacts \in [Users -> [AlertTypes -> SUBSET Users]]
  /\ Staff \in [Customers -> [AlertTypes -> SUBSET Users]]
  /\ {"Emitida", "Vecinal"} \subseteq States
  /\ NULL \notin Customers \cup Districts \cup Locations \cup Users \cup States
  /\ Grants \subseteq Users \X Customers
  /\ Moves \subseteq Users \X Customers
  /\ NULL \notin [customer : Customers, state : States,
                  neighborhood : Locations \cup {NULL}]
  /\ Bodies \subseteq [via : {"app", "sms"}, alarm : BOOLEAN, user : Users \cup {NULL},
                       type : AlertTypes \cup {"unknown"}, place : Districts \cup {NULL},
                       home : Address \cup {NULL}, work : Address \cup {NULL}]
  /\ \A b \in Bodies : (b.via = "app" => b.user # NULL) /\ (b.alarm => b.type = "panic")
  /\ Asks \subseteq [kind : {"changeState", "checkpoint"}, alert : Reports, by : Users,
                     customer : Customers, state : States]
  /\ NULL \notin Bodies \cup Asks

VARIABLES
  pc,          \* the next await of every report and later request
  req,         \* what they say: a body or an ask
  asked,       \* the customer every report and later request acts for
  alarms,      \* reports with a row in NeighborhoodAlarm
  place,       \* place[r]: the district the geocoder gave
  target,      \* target[r]: the customer r is for
  near,        \* near[r]: the neighbourhood it is ascribed to
  row,         \* row[r]: the alert, NULL until it is stored
  checkpoints, \* <<r, x>>: x wrote a checkpoint of r
  job,         \* job[r]: the next await of sendPushNotifications
  audience,    \* audience[r]: the users it has found
  told,        \* told[r]: the users of the Notification
  calls,       \* alarms of which neighbours are being notified and texted
  monitors,    \* <<u, c>>: u has monitoring permission for c
  member,      \* member[u]: the user's customer, or NULL
  tokens,      \* <<u, c>>: u holds a token that names the customer c
  granted,     \* history: <<u, c>>: u has been of c or had permission to monitor it
  writes,      \* Firebase writes under way: <<r, state>>
  mirror,      \* mirror[r]: the state in Firebase
  excused      \* history: alerts whose mirror may be wrong

routeVars == <<asked, alarms, place, target, near>>
tellVars == <<job, audience, told, calls>>
mirrorVars == <<writes, mirror, excused>>
permissionVars == <<monitors, member, tokens, granted>>
vars == <<pc, req, routeVars, row, checkpoints, tellVars, permissionVars, mirrorVars>>

Ended == {"done", "rejected", "failed"}
InFlight == {x \in Reports \cup Handlers : pc[x] \notin {"idle"} \cup Ended}
Goto(x, phase) == pc' = [pc EXCEPT ![x] = phase]

Init ==
  /\ pc = [x \in Reports \cup Handlers |-> "idle"]
  /\ req = [x \in Reports \cup Handlers |-> NULL]
  /\ asked = [x \in Reports \cup Handlers |-> NULL]
  /\ alarms = {}
  /\ place = [r \in Reports |-> NULL]
  /\ target = [r \in Reports |-> NULL]
  /\ near = [r \in Reports |-> NULL]
  /\ row = [r \in Reports |-> NULL]
  /\ checkpoints = {}
  /\ job = [r \in Reports |-> "off"]
  /\ audience = [r \in Reports |-> {}]
  /\ told = [r \in Reports |-> {}]
  /\ calls = {}
  /\ monitors \in SUBSET Grants
  /\ member = CustomerOf
  /\ tokens = {<<u, CustomerOf[u]>> : u \in Users}
  /\ granted = monitors \cup tokens
  /\ writes = {}
  /\ mirror = [r \in Reports |-> NULL]
  /\ excused = {}

-----------------------------------------------------------------------------
(* The three ways in: POST alerts, GET alerts/sms, POST neighborhood-alarm *)

\* A request of the app is for the customer of its token; the path of an alarm
\* must name the same.
Report(r, b) ==
  /\ pc[r] = "idle"
  /\ req' = [req EXCEPT ![r] = b]
  /\ \/ /\ b.via = "app"
        /\ \E t \in tokens : t[1] = b.user /\ asked' = [asked EXCEPT ![r] = t[2]]
        /\ Goto(r, IF b.alarm THEN "user" ELSE "customer")
     \/ /\ b.via = "sms"
        /\ Goto(r, "sms")
        /\ UNCHANGED asked
  /\ UNCHANGED <<alarms, place, target, near, row, checkpoints, tellVars, permissionVars, mirrorVars>>

\* decryptSms: the message names the user and the type of alert; it is for the
\* customer the user has now.
DecryptSms(r) ==
  /\ pc[r] = "sms"
  /\ IF req[r].user = NULL \/ req[r].type = "unknown"
     THEN Goto(r, "rejected") /\ UNCHANGED asked
     ELSE /\ asked' = [asked EXCEPT ![r] = member[req[r].user]]
          /\ Goto(r, IF req[r].alarm THEN "user" ELSE "customer")
  /\ UNCHANGED <<req, alarms, place, target, near, row, checkpoints, tellVars, permissionVars, mirrorVars>>

FindUser(r) ==
  /\ pc[r] = "user"
  /\ Goto(r, IF req[r].user \in Enabled THEN "alarm" ELSE "rejected")
  /\ UNCHANGED <<req, routeVars, row, checkpoints, tellVars, permissionVars, mirrorVars>>

\* The alarm is stored; without a number nothing more happens.  A user without
\* customer, whom only an SMS brings here, has nothing to connect it to.
InsertAlarm(r) ==
  /\ pc[r] = "alarm"
  /\ IF asked[r] = NULL
     THEN Goto(r, "rejected") /\ UNCHANGED alarms
     ELSE /\ alarms' = alarms \cup {r}
          /\ Goto(r, IF req[r].user \in Numbered THEN "customer" ELSE "done")
  /\ UNCHANGED <<req, asked, place, target, near, row, checkpoints, tellVars, permissionVars,
                 mirrorVars>>

-----------------------------------------------------------------------------
(* AlertsService.create *)

FindCustomer(r) ==
  /\ pc[r] = "customer"
  /\ IF asked[r] \in Equipped /\ req[r].type \in AlertTypes
     THEN target' = [target EXCEPT ![r] = asked[r]] /\ Goto(r, "geocode")
     ELSE Goto(r, "rejected") /\ UNCHANGED target
  /\ UNCHANGED <<req, asked, alarms, place, near, row, checkpoints, tellVars, permissionVars,
                 mirrorVars>>

GeocodeClubs(r) ==  \* mutant: a club's alerts are given to governments too
  /\ pc[r] = "geocode"
  /\ place' \in {[place EXCEPT ![r] = p] : p \in {req[r].place, NULL}}
  /\ Goto(r, IF /\ target[r] \in Governments
                /\ place'[r] = DistrictOf[target[r]] THEN "addresses" ELSE "government")
  /\ UNCHANGED <<req, asked, alarms, target, near, row, checkpoints, tellVars, permissionVars,
                 mirrorVars>>
\* setAlertLocation: without coordinates, or results, there is no district.
Geocode(r) ==
  /\ pc[r] = "geocode"
  /\ place' \in {[place EXCEPT ![r] = p] : p \in {req[r].place, NULL}}
  /\ Goto(r, IF target[r] \notin Governments THEN "insert"
             ELSE IF place'[r] = DistrictOf[target[r]] THEN "addresses" ELSE "government")
  /\ UNCHANGED <<req, asked, alarms, target, near, row, checkpoints, tellVars, permissionVars,
                 mirrorVars>>

\* An undefined district is no condition for the query.
Candidates(r) ==
  {g \in Active : place[r] = NULL \/ DistrictOf[g] = place[r]}

FindGovernmentAnyType(r) ==  \* mutant: the types it takes are not looked at
  /\ pc[r] = "government"
  /\ \E g \in IF Candidates(r) = {} THEN {target[r]} ELSE Candidates(r) :
       target' = [target EXCEPT ![r] = g]
  /\ Goto(r, "addresses")
  /\ UNCHANGED <<req, asked, alarms, place, near, row, checkpoints, tellVars, permissionVars,
                 mirrorVars>>
\* findGovernmentCustomer: one row of those that match, then whether it takes
\* the type.
FindGovernment(r) ==
  /\ pc[r] = "government"
  /\ \/ /\ Candidates(r) = {}
        /\ UNCHANGED target
     \/ \E g \in Candidates(r) :
          target' = [target EXCEPT ![r] = IF req[r].type \in Lists[g] THEN g ELSE @]
  /\ Goto(r, "addresses")
  /\ UNCHANGED <<req, asked, alarms, place, near, row, checkpoints, tellVars, permissionVars,
                 mirrorVars>>

\* Distances are kilometres with one decimal: addresses closer than 0.3 count.
\* They are compared as strings, which makes no difference below that.
Rounded(a) == (a.at + 50) \div 100
Close(a) == Rounded(a) < 3
Nearer(a, b) == Rounded(a) < Rounded(b)

\* setAlertNeighborhoodId: of two addresses it is always work's that is taken.
Neighborhood(home, work) ==
  CASE home # NULL /\ work # NULL ->
         IF \/ Nearer(home, work) /\ Close(home)
            \/ Nearer(work, home) /\ Close(work)
         THEN work.neighborhood ELSE NULL
    [] home # NULL /\ work = NULL /\ Close(home) -> home.neighborhood
    [] home = NULL /\ work # NULL /\ Close(work) -> work.neighborhood
    [] OTHER -> NULL

FindAddresses(r) ==
  /\ pc[r] = "addresses"
  /\ near' = [near EXCEPT ![r] = Neighborhood(req[r].home, req[r].work)]
  /\ Goto(r, "insert")
  /\ UNCHANGED <<req, asked, alarms, place, target, row, checkpoints, tellVars, permissionVars,
                 mirrorVars>>

InsertAlert(r) ==
  /\ pc[r] = "insert"
  /\ row' = [row EXCEPT ![r] =
               [customer |-> target[r],
                state |-> IF req[r].alarm THEN "Vecinal" ELSE "Emitida",
                neighborhood |-> near[r]]]
  /\ Goto(r, IF req[r].type \in Tracking THEN "checkpoint" ELSE "announce")
  /\ UNCHANGED <<req, routeVars, checkpoints, tellVars, permissionVars, mirrorVars>>

FirstCheckpoint(r) ==
  /\ pc[r] = "checkpoint"
  /\ checkpoints' = checkpoints \cup {<<r, r>>}
  /\ Goto(r, "announce")
  /\ UNCHANGED <<req, routeVars, row, tellVars, permissionVars, mirrorVars>>

AnnounceNobody(r) ==  \* mutant: sendPushNotifications is not called
  /\ pc[r] = "announce"
  /\ writes' = IF req[r].type \in Quiet THEN writes
               ELSE writes \cup {<<r, IF req[r].alarm THEN "Vecinal" ELSE "Emitida">>}
  /\ calls' = IF r \in alarms THEN calls \cup {r} ELSE calls
  /\ Goto(r, "done")
  /\ UNCHANGED <<req, routeVars, row, checkpoints, job, audience, told,
                 permissionVars, mirror, excused>>
\* The alert is shown in the state it was stored in.  Nothing is awaited; back
\* in the alarm's handler the neighbours and their SMS follow at once.
Announce(r) ==
  /\ pc[r] = "announce"
  /\ job' = [job EXCEPT ![r] = "contacts"]
  /\ writes' = IF req[r].type \in Quiet THEN writes
               ELSE writes \cup {<<r, IF req[r].alarm THEN "Vecinal" ELSE "Emitida">>}
  /\ calls' = IF r \in alarms THEN calls \cup {r} ELSE calls
  /\ Goto(r, "done")
  /\ UNCHANGED <<req, routeVars, row, checkpoints, audience, told, permissionVars,
                 mirror, excused>>

-----------------------------------------------------------------------------
(* sendPushNotifications, and the calls of an alarm *)

FindContacts(r) ==
  /\ job[r] = "contacts"
  /\ audience' = [audience EXCEPT ![r] = Contacts[req[r].user][req[r].type]]
  /\ job' = [job EXCEPT ![r] = "staff"]
  /\ UNCHANGED <<pc, req, routeVars, row, checkpoints, told, calls, permissionVars,
                 mirrorVars>>

\* The settings are those of the customer that was asked.
FindStaff(r) ==
  /\ job[r] = "staff"
  /\ audience' = [audience EXCEPT ![r] = @ \cup Staff[asked[r]][req[r].type]]
  /\ job' = [job EXCEPT ![r] = "record"]
  /\ UNCHANGED <<pc, req, routeVars, row, checkpoints, told, calls, permissionVars,
                 mirrorVars>>

RecordNotification(r) ==
  /\ job[r] = "record"
  /\ told' = [told EXCEPT ![r] = audience[r]]
  /\ job' = [job EXCEPT ![r] = "ended"]
  /\ UNCHANGED <<pc, req, routeVars, row, checkpoints, audience, calls,
                 permissionVars, mirrorVars>>

\* A query throws, which is logged, or the process stops.
JobFails(r) ==
  /\ job[r] \in {"contacts", "staff", "record"}
  /\ job' = [job EXCEPT ![r] = "failed"]
  /\ UNCHANGED <<pc, req, routeVars, row, checkpoints, audience, told, calls,
                 permissionVars, mirrorVars>>

\* Answered or refused: what it throws nobody catches.
CallsEnd(r) ==
  /\ r \in calls
  /\ calls' = calls \ {r}
  /\ UNCHANGED <<pc, req, routeVars, row, checkpoints, job, audience, told, permissionVars,
                 mirrorVars>>

-----------------------------------------------------------------------------
(* changeState and createCheckpoint *)

\* A request of r, its create or a Firebase write of it is under way.
Busy(r) == \/ r \in InFlight
           \/ \E h \in InFlight \cap Handlers : req[h].alert = r
           \/ \E w \in writes : w[1] = r

\* The alert's id is known once it is stored.  A change of state is for the
\* customer it names, a checkpoint for that of its token.
Ask(h, o) ==
  /\ pc[h] = "idle"
  /\ row[o.alert] # NULL
  /\ req' = [req EXCEPT ![h] = o]
  /\ \/ /\ o.kind = "changeState"
        /\ asked' = [asked EXCEPT ![h] = o.customer]
        /\ Goto(h, "monitor")
     \/ /\ o.kind = "checkpoint"
        /\ \E t \in tokens : t[1] = o.by /\ asked' = [asked EXCEPT ![h] = t[2]]
        /\ Goto(h, "exists")
  /\ excused' = IF o.kind = "changeState" /\ Busy(o.alert)
                THEN excused \cup {o.alert} ELSE excused
  /\ UNCHANGED <<alarms, place, target, near, row, checkpoints, tellVars, permissionVars, writes, mirror>>

\* The customer named must be the user's own or one he monitors.
FindMonitor(h) ==
  /\ pc[h] = "monitor"
  /\ Goto(h, IF \/ member[req[h].by] = asked[h]
                \/ <<req[h].by, asked[h]>> \in monitors
             THEN "exists" ELSE "rejected")
  /\ UNCHANGED <<req, routeVars, row, checkpoints, tellVars, permissionVars, mirrorVars>>

ExistAlertAnywhere(h) ==  \* mutant: any alert of that id
  /\ pc[h] = "exists"
  /\ Goto(h, "update")
  /\ UNCHANGED <<req, routeVars, row, checkpoints, tellVars, permissionVars, mirrorVars>>
\* existAlert: the alert must be that customer's.
ExistAlert(h) ==
  /\ pc[h] = "exists"
  /\ Goto(h, IF row[req[h].alert].customer = asked[h] THEN "update" ELSE "rejected")
  /\ UNCHANGED <<req, routeVars, row, checkpoints, tellVars, permissionVars, mirrorVars>>

UpdateAlert(h) ==
  /\ pc[h] = "update"
  /\ req[h].kind = "changeState"
  /\ row' = [row EXCEPT ![req[h].alert].state = req[h].state]
  /\ Goto(h, "show")
  /\ UNCHANGED <<req, routeVars, checkpoints, tellVars, permissionVars, mirrorVars>>

ShowUpdateNot(h) ==  \* mutant: the change is not shown
  /\ pc[h] = "show"
  /\ Goto(h, "done")
  /\ UNCHANGED <<req, routeVars, row, checkpoints, tellVars, permissionVars, mirrorVars>>
ShowUpdate(h) ==
  /\ pc[h] = "show"
  /\ writes' = IF req[req[h].alert].type \in Quiet THEN writes
               ELSE writes \cup {<<req[h].alert, req[h].state>>}
  /\ Goto(h, "done")
  /\ UNCHANGED <<req, routeVars, row, checkpoints, tellVars, permissionVars, mirror, excused>>

AddCheckpoint(h) ==
  /\ pc[h] = "update"
  /\ req[h].kind = "checkpoint"
  /\ checkpoints' = checkpoints \cup {<<req[h].alert, h>>}
  /\ Goto(h, "done")
  /\ UNCHANGED <<req, routeVars, row, tellVars, permissionVars, mirrorVars>>

-----------------------------------------------------------------------------
\* A query or the geocoder throws, or the process stops.
Fail(x) ==
  /\ x \in InFlight
  /\ Goto(x, "failed")
  /\ excused' = excused \cup {IF x \in Reports THEN x ELSE req[x].alert}
  /\ UNCHANGED <<req, routeVars, row, checkpoints, tellVars, permissionVars, writes, mirror>>

\* The set of the child lands, or is lost and logged.
WriteLands(w) ==
  /\ w \in writes
  /\ writes' = writes \ {w}
  /\ mirror' = [mirror EXCEPT ![w[1]] = w[2]]
  /\ UNCHANGED <<pc, req, routeVars, row, checkpoints, tellVars, permissionVars, excused>>

WriteLost(w) ==
  /\ w \in writes
  /\ writes' = writes \ {w}
  /\ excused' = excused \cup {w[1]}
  /\ UNCHANGED <<pc, req, routeVars, row, checkpoints, tellVars, permissionVars, mirror>>

\* UsersService.update gives or takes a monitoring permission.
SetMonitor(p) ==
  /\ monitors' = IF p \in monitors THEN monitors \ {p} ELSE monitors \cup {p}
  /\ granted' = granted \cup monitors'
  /\ UNCHANGED <<pc, req, routeVars, row, checkpoints, tellVars, member, tokens,
                 mirrorVars>>

\* UsersService.update moves a user to another customer.
MoveUser(u, c) ==
  /\ member' = [member EXCEPT ![u] = c]
  /\ granted' = granted \cup {<<u, c>>}
  /\ UNCHANGED <<pc, req, routeVars, row, checkpoints, tellVars, monitors, tokens,
                 mirrorVars>>

\* A login, or the answer to the update, signs a token for the user's customer;
\* the tokens of before still count.
SignToken(u) ==
  /\ tokens' = tokens \cup {<<u, member[u]>>}
  /\ UNCHANGED <<pc, req, routeVars, row, checkpoints, tellVars, monitors, member, granted,
                 mirrorVars>>

\* After the geocoder has answered only the database is waited for.
StoreStep(r) ==
  FindGovernment(r) \/ FindAddresses(r) \/ InsertAlert(r) \/ FirstCheckpoint(r) \/ Announce(r)

ReportStep(r) ==
  \/ DecryptSms(r)
  \/ FindUser(r)
  \/ InsertAlarm(r)
  \/ FindCustomer(r)
  \/ Geocode(r)
  \/ StoreStep(r)

JobStep(r) == FindContacts(r) \/ FindStaff(r) \/ RecordNotification(r)

HandlerStep(h) ==
  FindMonitor(h) \/ ExistAlert(h) \/ UpdateAlert(h) \/ ShowUpdate(h) \/ AddCheckpoint(h)

Next ==
  \/ \E r \in Reports : \/ \E b \in Bodies : Report(r, b)
                        \/ ReportStep(r)
                        \/ JobStep(r)
                        \/ JobFails(r)
  \/ \E h \in Handlers : (\E o \in Asks : Ask(h, o)) \/ HandlerStep(h)
  \/ \E x \in Reports \cup Handlers : Fail(x)
  \/ \E r \in calls : CallsEnd(r)
  \/ \E w \in writes : WriteLands(w) \/ WriteLost(w)
  \/ \E p \in Grants : SetMonitor(p)
  \/ \E m \in Moves : MoveUser(m[1], m[2])
  \/ \E u \in Users : SignToken(u)

Spec == Init /\ [][Next]_vars

\* Queries are answered; the geocoder, Firebase and the push service may not.
FairSpec ==
  /\ Spec
  /\ \A r \in Reports : WF_vars(StoreStep(r)) /\ WF_vars(JobStep(r))
-----------------------------------------------------------------------------
Rows == [customer : Customers, state : States, neighborhood : Locations \cup {NULL}]

TypeOK ==
  /\ pc \in [Reports \cup Handlers ->
              {"idle", "sms", "user", "alarm", "customer", "geocode", "government",
               "addresses", "insert", "checkpoint", "announce", "monitor", "exists",
               "update", "show"} \cup Ended]
  /\ \A r \in Reports : req[r] \in Bodies \cup {NULL}
  /\ \A h \in Handlers : req[h] \in Asks \cup {NULL}
  /\ asked \in [Reports \cup Handlers -> Customers \cup {NULL}]
  /\ alarms \subseteq Reports
  /\ place \in [Reports -> Districts \cup {NULL}]
  /\ target \in [Reports -> Customers \cup {NULL}]
  /\ near \in [Reports -> Locations \cup {NULL}]
  /\ row \in [Reports -> Rows \cup {NULL}]
  /\ checkpoints \subseteq {r \in Reports : row[r] # NULL} \X (Reports \cup Handlers)
  /\ job \in [Reports -> {"off", "contacts", "staff", "record", "ended", "failed"}]
  /\ audience \in [Reports -> SUBSET Users]
  /\ told \in [Reports -> SUBSET Users]
  /\ calls \subseteq Reports
  /\ monitors \subseteq Grants \cap granted
  /\ member \in [Users -> Customers \cup {NULL}]
  /\ tokens \subseteq granted
  /\ granted \subseteq Users \X (Customers \cup {NULL})
  /\ writes \subseteq {r \in Reports : row[r] # NULL} \X States
  /\ mirror \in [Reports -> States \cup {NULL}]
  /\ excused \subseteq Reports

\* An alert leaves the customer it was sent to only for an active government
\* that takes its type, and only if it happened in another district than the
\* customer's; it goes to the government of that district unless the geocoder
\* knew no district, when it may go to any.
RoutedByPlace ==
  \A r \in Reports : (row[r] # NULL /\ row[r].customer # asked[r]) =>
    /\ asked[r] \in Governments /\ place[r] # DistrictOf[asked[r]]
    /\ row[r].customer \in Active
    /\ req[r].type \in Lists[row[r].customer]
    /\ place[r] \in {DistrictOf[row[r].customer], NULL}

\* The neighbourhood of an alert is one of the user's, and one of the user's
\* addresses rounds to less than 300 metres from where it happened.
NeighborhoodIsClose ==
  \A r \in Reports : (row[r] # NULL /\ row[r].neighborhood # NULL) =>
    LET addresses == {req[r].home, req[r].work} \ {NULL}
    IN  /\ \E a \in addresses : Rounded(a) < 3
        /\ \E a \in addresses : a.neighborhood = row[r].neighborhood

\* Neighbours hear, and are called, about an alarm only once its alert is with
\* the customer: an alarm whose alert is refused or fails stays silent.
AlarmRaisesAlert ==
  \A r \in calls : r \in alarms /\ row[r] # NULL

\* An author's checkpoint, sent with a token of the customer his alert was
\* raised for, is refused only if the alert happened outside that government's
\* district or at a place the geocoder did not know: it may be another's then,
\* and his phone cannot follow it.  With a token of another customer, after an
\* update moved him, it may be refused wherever it happened.
AuthorRefusedOnlyAway ==
  \A h \in Handlers :
    LET r == req[h].alert
    IN  (/\ pc[h] = "rejected" /\ req[h].kind = "checkpoint"
         /\ req[h].by = req[r].user /\ asked[h] = asked[r])
          => /\ asked[r] \in Governments
             /\ place[r] = NULL \/ place[r] # DistrictOf[asked[r]]

\* A stored alert only changes its state, and by a request of a user who is of
\* the customer the alert was routed to, or has had permission to monitor it.
ChangedByItsMonitors ==
  [][\A r \in Reports : (row[r] # NULL /\ row'[r] # row[r]) =>
       /\ row'[r] = [row[r] EXCEPT !.state = row'[r].state]
       /\ \E h \in Handlers : /\ pc[h] = "update" /\ pc'[h] = "show"
                              /\ req[h].alert = r
                              /\ <<req[h].by, row[r].customer>> \in granted]_vars

\* Once nothing of an alert is under way Firebase shows its state, unless two
\* requests on it overlapped, one broke off or a write was lost.  Messages of
\* safe arrival are never shown.
AlertMirrorAgrees ==
  \A r \in Reports : (row[r] # NULL /\ r \notin excused /\ ~Busy(r)) =>
    mirror[r] = IF req[r].type \in Quiet THEN NULL ELSE row[r].state

\* A stored alert is told to the user's contacts and to the staff his customer
\* names for its type, unless its request or the job behind it fails.
AlertEventuallyTold ==
  \A r \in Reports :
    row[r] # NULL ~> \/ /\ row[r] # NULL
                        /\ told[r] = Contacts[req[r].user][req[r].type]
                                       \cup Staff[asked[r]][req[r].type]
                     \/ job[r] = "failed" \/ pc[r] = "failed"
=============================================================================
