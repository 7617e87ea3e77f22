----------------------------- MODULE Subscriptions -----------------------------
(***************************************************************************)
(* What follows the alert types of one customer: its monitors are to see   *)
(* alerts of these types, the contacts of its residents are to be told of  *)
(* them (customers.service.ts, users/contacts/contacts.service.ts).  An    *)
(* update of the customer reads its alert types, its active categories of  *)
(* events, its monitors and its contacts in separate queries and then      *)
(* writes, in one transaction, the differences to what it has read.        *)
(*                                                                         *)
(* Others write the same rows: the owner of a contact chooses its types,   *)
(* an administrator those of a monitor, residents and monitors come from   *)
(* another customer with the types they had there, and go again            *)
(* (users.service.ts); a category is switched by hand, or for everyone     *)
(* (customers.service.ts updateEvent, event-category.service.ts).          *)
(*                                                                         *)
(* A contact is named after the request that creates it, or is in          *)
(* PriorContacts; each stands for a resident of its own.  The rows that    *)
(* subscribe a contact to a type, and those of a category, have no unique  *)
(* key: the former are counted.  A monitor has a type or not.              *)
(***************************************************************************)
EXTENDS RequestHandling

CONSTANTS
  PriorContacts,  \* contacts there may be from the start
  Monitors,
  Types,          \* alert types
  ArrivedWell,    \* the type an update does not give monitors
  Categories,     \* categories of events
  SubscriptionOps \* what a request may ask for

Contacts == Handlers \cup PriorContacts
Followers == Contacts \cup Monitors

\* A category's row is named after the request that created it.
Rows == Categories \X (Handlers \cup {NULL})

\* An update of the customer that lists no alert types, or has no list of
\* categories, leaves them alone.  What a follower brings from another customer
\* is whatever that customer's updates made of it.
SubscriptionOp ==
  [kind : {"customer"}, types : SUBSET Types, listed : BOOLEAN, categories : SUBSET Categories]
        \cup [kind : {"create"}]
        \cup [kind : {"choose"}, follower : Followers, types : SUBSET Types]
        \cup [kind : {"delete"}, follower : Contacts]
        \cup [kind : {"come"}, follower : Contacts, brings : [Types -> Nat]]
        \cup [kind : {"come"}, follower : Monitors, brings : [Types -> {0, 1}]]
        \cup [kind : {"go"}, follower : Followers]
        \cup [kind : {"switch"}, row : Rows, active : BOOLEAN]
        \cup [kind : {"retire"}, category : Categories]

ASSUME SubscriptionsAssumption ==
  /\ Handlers \cap PriorContacts = {} /\ Contacts \cap Monitors = {}
  /\ NULL \notin Followers \cup [Types -> Nat] \cup SubscriptionOps
  /\ SubscriptionOps \subseteq SubscriptionOp

VARIABLES
  types,    \* the customer's alert types
  follows,  \* follows[f]: subscriptions of f by type, NULL: no such contact or monitor
  here,     \* the monitors of this customer, the contacts whose resident is of it
  rows,     \* the rows of categories
  active,   \* those that are active
  sawTypes, \* sawTypes[h]: the customer's types as h read them
  sawRows,  \* sawRows[h]: the active categories as h read them
  sawList,  \* sawList[h]: the followers h is to update
  apart,    \* history: apart[f], the types in which f was last set apart from the
            \* customer's by whoever chose or brought them, since these had the type
  doubled   \* history: requests that switched a row on beside an active one

lists == <<types, follows, here, rows, active>>
saw == <<sawTypes, sawRows, sawList>>
histories == <<apart, doubled>>
subscriptionsVars == <<lists, handling, saw, histories>>

There == {f \in here : follows[f] # NULL}
Once(ts) == [t \in Types |-> IF t \in ts THEN 1 ELSE 0]

\* What f is to follow, and where a bag of subscriptions differs from that.
Due(f) == IF f \in Monitors THEN types \ {ArrivedWell} ELSE types
Apart(f, bag) == {t \in Types : bag[t] # Once(Due(f))[t]}

-----------------------------------------------------------------------------
SubscriptionsInit ==
  /\ types \in SUBSET Types
  /\ \E fs \in SUBSET (PriorContacts \cup Monitors) :
       /\ follows = [f \in Followers |-> IF f \in fs THEN Once(Due(f)) ELSE NULL]
       /\ here = Contacts \cup fs
  /\ rows \in SUBSET (Categories \X {NULL})
  /\ active \in SUBSET rows
  /\ NoRequests
  /\ sawTypes = [h \in Handlers |-> {}]
  /\ sawRows = [h \in Handlers |-> {}]
  /\ sawList = [h \in Handlers |-> {}]
  /\ apart = [f \in Followers |-> {}]
  /\ doubled = {}

\* What h has read is gone when it has answered.
Forget(h) ==
  /\ sawTypes' = [sawTypes EXCEPT ![h] = {}]
  /\ sawRows' = [sawRows EXCEPT ![h] = {}]
  /\ sawList' = [sawList EXCEPT ![h] = {}]

ReceiveSubscriptionOp(h, op) ==
  /\ Receive(h, op, IF op.kind \in {"come", "go", "retire"} THEN "write" ELSE "find")
  /\ UNCHANGED <<lists, saw, histories>>

\* The customer, or the contact's owner with the customer, is read with its
\* types: the other customer's, if the owner is not of this one.
FindCustomer(h) ==
  /\ pc[h] = "find" /\ req[h].kind \in {"customer", "create"}
  /\ \E ts \in IF req[h].kind = "create" /\ h \notin here THEN SUBSET Types ELSE {types} :
       sawTypes' = [sawTypes EXCEPT ![h] = ts]
  /\ Goto(h, IF req[h].kind = "customer" THEN "categories" ELSE "write")
  /\ UNCHANGED <<lists, req, sawRows, sawList, met, histories>>

\* The contact, the monitor or the category's row is read.
Find(h) ==
  /\ pc[h] = "find" /\ req[h].kind \in {"choose", "delete", "switch"}
  /\ LET found == IF req[h].kind = "switch" THEN req[h].row \in rows
                  ELSE follows[req[h].follower] # NULL IN
     Goto(h, IF ~found THEN "refused" ELSE IF req[h].kind = "delete" THEN "types" ELSE "write")
  /\ UNCHANGED <<lists, req, saw, met, histories>>

FindCategories(h) ==
  /\ Is(h, "customer", "categories")
  /\ sawRows' = [sawRows EXCEPT ![h] = active]
  /\ Goto(h, IF req[h].types = {} THEN "write" ELSE "lists")
  /\ UNCHANGED <<lists, req, sawTypes, sawList, met, histories>>

FindLists(h) ==
  /\ Is(h, "customer", "lists")
  /\ sawList' = [sawList EXCEPT ![h] = There]
  /\ Goto(h, "write")
  /\ UNCHANGED <<lists, req, sawTypes, sawRows, met, histories>>

\* What the update adds to followers, and takes from them.
Added(h) == req[h].types \ sawTypes[h]
Removed(h) == sawTypes[h] \ req[h].types

FollowerFromOld(h, f, bag) ==  \* mutant: what was taken away is kept
  [t \in Types |-> IF t \in Added(h) THEN 1 ELSE bag[t]]
FollowerReset(h, f, bag) ==    \* mutant: every type is added, new or not
  [t \in Types |-> IF t \in req[h].types THEN bag[t] + 1 ELSE 0]
FollowerLess(h, f, bag) ==     \* mutant: one row of the type is taken away, there or not
  [t \in Types |-> IF t \in Removed(h) THEN bag[t] - 1
                   ELSE IF t \in Added(h) THEN bag[t] + 1 ELSE bag[t]]
Follower(h, f, bag) ==
  [t \in Types |-> IF t \in Removed(h) THEN 0
                   ELSE IF t \notin Added(h) \/ (f \in Monitors /\ t = ArrivedWell) THEN bag[t]
                   ELSE IF f \in Monitors THEN 1 ELSE bag[t] + 1]

\* The rows that were active are kept or made inactive, as read: a row made
\* inactive meanwhile is active again if it is to be kept.  Categories without
\* a row among them get one.
Kept(h) == {r \in sawRows[h] : r[1] \in req[h].categories}
CategoriesAppended(h) ==    \* mutant: the list is created without looking
  (active \ (sawRows[h] \ Kept(h))) \cup (req[h].categories \X {h})
CategoriesAfter(h) ==
  (active \ sawRows[h]) \cup Kept(h)
    \cup ({k \in req[h].categories : \A r \in sawRows[h] : r[1] # k} \X {h})

\* One transaction; a contact deleted meanwhile refuses all of it.
UpdateCustomer(h) ==
  /\ Is(h, "customer", "write")
  /\ IF \A f \in sawList[h] : follows[f] # NULL
     THEN /\ IF req[h].types = {} THEN UNCHANGED <<types, follows, apart>>
             ELSE /\ types' = req[h].types
                  /\ follows' = [f \in Followers |-> IF f \in sawList[h]
                                                     THEN Follower(h, f, follows[f]) ELSE follows[f]]
                  /\ apart' = [f \in Followers |-> apart[f] \ (types \ types')]
          /\ IF req[h].listed THEN active' = CategoriesAfter(h) ELSE UNCHANGED active
          /\ rows' = rows \cup active'
          /\ Goto(h, "done")
     ELSE Goto(h, "failed") /\ UNCHANGED <<types, follows, rows, active, apart>>
  /\ Forget(h)
  /\ UNCHANGED <<here, req, met, doubled>>

\* A contact begins with the types its owner's customer had.
CreateContact(h) ==
  /\ Is(h, "create", "write")
  /\ follows' = [follows EXCEPT ![h] = Once(sawTypes[h])]
  /\ Goto(h, "done")
  /\ Forget(h)
  /\ UNCHANGED <<types, here, rows, active, req, met, histories>>

\* The owner of a contact, or the administrator who edits a monitor, chooses
\* among all types there are, not among the customer's.
Choose(h) ==
  /\ Is(h, "choose", "write")
  /\ LET f == req[h].follower
         bag == Once(req[h].types) IN
     IF follows[f] # NULL
     THEN /\ follows' = [follows EXCEPT ![f] = bag]
          /\ apart' = [apart EXCEPT ![f] = Apart(f, bag)]
          /\ Goto(h, "done")
     ELSE Goto(h, "failed") /\ UNCHANGED <<follows, apart>>
  /\ UNCHANGED <<types, here, rows, active, req, saw, met, doubled>>

\* A contact is deleted in two steps.
DeleteContactTypes(h) ==
  /\ Is(h, "delete", "types")
  /\ follows' = [follows EXCEPT ![req[h].follower] = IF @ = NULL THEN NULL ELSE Once({})]
  /\ Goto(h, "write")
  /\ UNCHANGED <<types, here, rows, active, req, saw, met, histories>>

\* The second fails if the contact has been subscribed to a type meanwhile.
DeleteContact(h) ==
  /\ Is(h, "delete", "write")
  /\ IF follows[req[h].follower] \in {NULL, Once({})}
     THEN /\ follows' = [follows EXCEPT ![req[h].follower] = NULL]
          /\ Goto(h, "done")
     ELSE Goto(h, "failed") /\ UNCHANGED follows
  /\ UNCHANGED <<types, here, rows, active, req, saw, met, histories>>

\* A resident registers here or is moved here, with a contact if it has one; a
\* monitor is created or moved here.
Come(h) ==
  /\ Is(h, "come", "write")
  /\ LET f == req[h].follower IN
     /\ here' = here \cup {f}
     /\ IF f \notin here /\ (f \in Monitors \/ follows[f] # NULL)
        THEN /\ follows' = [follows EXCEPT ![f] = req[h].brings]
             /\ apart' = [apart EXCEPT ![f] = Apart(f, req[h].brings)]
        ELSE UNCHANGED <<follows, apart>>
  /\ Goto(h, "done")
  /\ UNCHANGED <<types, rows, active, req, saw, met, doubled>>

Go(h) ==
  /\ Is(h, "go", "write")
  /\ here' = here \ {req[h].follower}
  /\ Goto(h, "done")
  /\ UNCHANGED <<types, follows, rows, active, req, saw, met, histories>>

\* A category of the customer is switched on or off by hand, whatever other row
\* it has.
UpdateEvent(h) ==
  /\ Is(h, "switch", "write")
  /\ LET row == req[h].row IN
     /\ active' = IF req[h].active THEN active \cup {row} ELSE active \ {row}
     /\ doubled' = IF req[h].active /\ \E r \in active \ {row} : r[1] = row[1]
                   THEN doubled \cup {h} ELSE doubled
  /\ Goto(h, "done")
  /\ UNCHANGED <<types, follows, here, rows, req, saw, met, apart>>

\* A category that is given up is switched off for all customers.
RetireCategory(h) ==
  /\ Is(h, "retire", "write")
  /\ active' = {r \in active : r[1] # req[h].category}
  /\ Goto(h, "done")
  /\ UNCHANGED <<types, follows, here, rows, req, saw, met, histories>>

SubscriptionFail(h) == BreakOff(h) /\ Forget(h) /\ UNCHANGED <<lists, histories>>

SubscriptionStep(h) ==
  \/ \E op \in SubscriptionOps : ReceiveSubscriptionOp(h, op)
  \/ FindCustomer(h)
  \/ Find(h)
  \/ FindCategories(h)
  \/ FindLists(h)
  \/ UpdateCustomer(h)
  \/ CreateContact(h)
  \/ Choose(h)
  \/ DeleteContactTypes(h)
  \/ DeleteContact(h)
  \/ Come(h)
  \/ Go(h)
  \/ UpdateEvent(h)
  \/ RetireCategory(h)
  \/ SubscriptionFail(h)

SubscriptionsNext == \E h \in Handlers : SubscriptionStep(h)

SubscriptionsSpec == SubscriptionsInit /\ [][SubscriptionsNext]_subscriptionsVars

-----------------------------------------------------------------------------
SubscriptionsTypeOK ==
  /\ types \subseteq Types
  /\ follows \in [Followers -> [Types -> Nat] \cup {NULL}]
  /\ here \subseteq Followers
  /\ rows \subseteq Rows
  /\ active \subseteq rows
  /\ pc \in [Handlers -> {"idle", "find", "categories", "lists", "types", "write"} \cup Ended]
  /\ req \in [Handlers -> SubscriptionOps \cup {NULL}]
  /\ sawTypes \in [Handlers -> SUBSET Types]
  /\ sawRows \in [Handlers -> SUBSET Rows]
  /\ sawList \in [Handlers -> SUBSET Followers]
  /\ met \in [Handlers -> SUBSET Handlers]
  /\ apart \in [Followers -> SUBSET Types]
  /\ doubled \subseteq Handlers

Updates == {h \in Handlers : req[h] # NULL /\ req[h].kind = "customer"}
Overlapped(h) == met[h] \cap Updates # {}
Alone == \A h \in Updates : ~Overlapped(h)

\* f came, or was created, while an update was under way and may have missed it;
\* or its resident came while it was being created.
Missed(f) ==
  \/ f \in Handlers /\ Overlapped(f)
  \/ \E g \in Handlers : /\ req[g] # NULL /\ req[g].kind = "come" /\ req[g].follower = f
                         /\ Overlapped(g) \/ f \in met[g]

\* When nothing is under way, who follows the customer's alert types has exactly
\* them, monitors and contacts alike, and a contact once; apart from types
\* in which it was set apart (a choice, what it brought along) and which the
\* customer has not taken away since; unless two updates of the customer
\* overlapped, or one the follower's creation or coming, or a deletion stopped,
\* or was refused, between its two steps.
FollowersAgree ==
  (Quiet /\ Alone) =>
    \A f \in There :
      \/ \A t \in Types \ apart[f] : follows[f][t] = Once(Due(f))[t]
      \/ Missed(f)
      \/ \E d \in Handlers : /\ req[d] # NULL /\ pc[d] = "failed"
                             /\ req[d].kind = "delete" /\ req[d].follower = f

\* A follower is subscribed to a type once, with the same exceptions, and at any
\* time.
SubscribedOnce ==
  Alone => \A f \in There : \A t \in Types \ apart[f] : follows[f][t] <= 1 \/ Missed(f)

\* A category has one active row, unless two updates of the customer overlapped,
\* or one of two rows was switched on by hand, beside an active one or during an
\* update.
CategoryOnce ==
  Alone => \A r1, r2 \in active : r1[1] = r2[1] /\ r1 # r2 =>
    \E g \in Handlers : /\ req[g] # NULL /\ req[g].kind = "switch" /\ req[g].row \in {r1, r2}
                        /\ g \in doubled \/ Overlapped(g)

\* An update of the customer, made of differences to what it read, doubles no
\* subscription and no category by itself.
ListsKeepNoDoubles == SubscribedOnce /\ CategoryOnce
=============================================================================
