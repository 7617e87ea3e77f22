------------------------------ MODULE PeopleProofs ------------------------------
(***************************************************************************)
(* Proofs about Accounts, Credentials and Subscriptions, for any number of *)
(* requests and any bound on those under way: first what their handlers    *)
(* have in common, then a part for each of the three.                      *)
(***************************************************************************)
EXTENDS Accounts, Credentials, Subscriptions, TLAPS

-----------------------------------------------------------------------------
(* Handlers *)

HandlingOK ==
  /\ pc = [h \in Handlers |-> pc[h]]
  /\ req = [h \in Handlers |-> req[h]]
  /\ met \in [Handlers -> SUBSET Handlers]

\* Two handlers under way at once have met; nobody meets one that has not begun.
MetInv ==
  /\ \A g, h \in InFlight : g # h => g \in met[h]
  /\ \A h \in Handlers : \A g \in met[h] : pc[g] # "idle"

\* What a step does to the handler that takes it.
Handles(h) ==
  \/ \E op, phase : phase # "idle" /\ Receive(h, op, phase)
  \/ /\ h \in InFlight
     /\ \E phase : phase # "idle" /\ Goto(h, phase)
     /\ UNCHANGED <<req, met>>

HandlingNext == (\E h \in Handlers : Handles(h)) \/ UNCHANGED handling

\* What was asked and who was met stays so; an answer is final.
Onward ==
  \A h \in Handlers :
    pc[h] # "idle" => /\ pc'[h] # "idle" /\ req'[h] = req[h]
                      /\ met[h] \subseteq met'[h]
                      /\ pc[h] \in Ended => pc'[h] = pc[h]

LEMMA HandlersMeet == HandlingOK /\ MetInv /\ HandlingNext => MetInv' /\ Onward
<1> SUFFICES ASSUME HandlingOK, MetInv, HandlingNext PROVE MetInv' /\ Onward
  OBVIOUS
<1> USE DEF HandlingOK, MetInv, InFlight, Onward
<1>1. ASSUME NEW h \in Handlers, NEW op, NEW phase, phase # "idle", Receive(h, op, phase)
      PROVE  MetInv' /\ Onward
  <2>1. /\ pc[h] = "idle"
        /\ pc' = [pc EXCEPT ![h] = phase] /\ req' = [req EXCEPT ![h] = op]
        /\ \A g \in Handlers : met'[g] = IF g = h THEN InFlight
                                ELSE IF g \in InFlight THEN met[g] \cup {h} ELSE met[g]
    BY <1>1 DEF Receive, Goto
  <2>2. pc'[h] = phase /\ \A g \in Handlers : g # h => pc'[g] = pc[g] /\ req'[g] = req[g]
    BY <2>1
  <2>3. \A g \in Handlers : h \notin met[g]
    BY <2>1
  <2>4. h \notin InFlight /\ InFlight' \subseteq InFlight \cup {h}
    BY <2>1, <2>2
  <2>5. \A f, g \in InFlight' : f # g => f \in met'[g]
    BY <2>1, <2>4
  <2>6. \A g \in Handlers : \A f \in met'[g] : f = h \/ f \in met[g] \/ f \in InFlight
    BY <2>1
  <2>7. \A g \in Handlers : \A f \in met'[g] : pc'[f] # "idle"
    BY <1>1, <2>2, <2>6
  <2>8. Onward
    BY <2>1, <2>2 DEF Ended
  <2>9. QED
    BY <2>5, <2>7, <2>8
<1>2. ASSUME NEW h \in InFlight, NEW phase, phase # "idle", Goto(h, phase), UNCHANGED <<req, met>>
      PROVE  MetInv' /\ Onward
  <2>1. pc'[h] = phase /\ \A g \in Handlers : g # h => pc'[g] = pc[g]
    BY <1>2 DEF Goto
  <2>2. QED
    BY <1>2, <2>1
<1>3. CASE UNCHANGED handling
  BY <1>3 DEF handling
<1>4. QED
  BY <1>1, <1>2, <1>3 DEF HandlingNext, Handles

-----------------------------------------------------------------------------
(* Accounts *)

\* What a handler's next await says of what it was asked and has found.
AccountPhase(h) ==
  /\ pc[h] = "idle" => req[h] = NULL /\ lot[h] = NULL
  /\ pc[h] # "idle" => req[h] \in AccountOps
  /\ pc[h] = "entry" => /\ req[h].kind \in {"register", "move"}
                        /\ req[h].customer \in Customers \ Governments
  /\ pc[h] = "account" => req[h].kind \in {"register", "move", "reassign", "delete"}
  /\ pc[h] = "name" => req[h].kind = "create"
  /\ pc[h] \in {"text", "untold"} => req[h].kind = "register"
  /\ pc[h] = "sync" => req[h].kind = "edit"

LotPhase(h) ==
  /\ (/\ pc[h] \in {"account", "write"} /\ req[h].kind = "register"
      /\ req[h].customer \notin Governments) => lot[h] # NULL
  /\ pc[h] = "write" /\ req[h].kind = "move" => lot[h] # NULL
  /\ pc[h] = "write" /\ req[h].kind = "edit" => lot[h] = NULL
  /\ pc[h] = "sync" => lot[h] # NULL

TargetPhase(h) ==
  /\ target[h] # NULL => acct[target[h]] # NULL
  /\ known[h] => target[h] # NULL
  /\ pc[h] \in {"idle", "account", "name"} => target[h] = NULL
  /\ pc[h] = "entry" /\ req[h].kind = "register" => target[h] = NULL
  /\ pc[h] = "write" /\ req[h].kind \in {"create", "edit"} => target[h] = NULL
  /\ pc[h] \in {"entry", "write"} /\ req[h].kind \in {"move", "reassign", "delete"} =>
       target[h] = req[h].account
  /\ pc[h] \in {"text", "sync"} => target[h] # NULL

RowPhase(h) ==
  acct[h] # NULL => pc[h] \in {"text", "done", "untold", "failed"}

AccountTypes ==
  /\ AccountsTypeOK
  /\ \A h \in Handlers : AccountPhase(h) /\ LotPhase(h) /\ TargetPhase(h) /\ RowPhase(h)

LEMMA NullIsNone ==
  /\ NULL \notin Accts /\ NULL \notin Account /\ NULL \notin Customers /\ NULL \notin Lots
  /\ NULL \notin Handlers /\ Handlers \subseteq Accts
BY AccountsAssumption, HandlingAssumption DEF Accts

LEMMA AccountOpTypes ==
  ASSUME NEW op \in AccountOps
  PROVE  /\ op.kind \in {"register", "create", "reassign", "move", "delete", "edit"}
         /\ op.kind \notin {"delete", "reassign"} => op.customer \in Customers
         /\ op.kind = "reassign" => /\ op.customer \in Customers \cup {NULL}
                                     /\ op.lot \in Lots \cup {NULL}
         /\ op.kind \in {"move", "edit"} => op.customer \in Customers \ Governments
         /\ op.kind \in {"reassign", "move", "delete"} => op.account \in Accts
         /\ op.kind = "edit" => op.lot \in Lots /\ op.active \in BOOLEAN
         /\ FirstAwait(op) \in {"entry", "account", "name", "write"}
<1>1. op \in AccountOp
  BY AccountsAssumption
<1>2. /\ op.kind \in {"register", "create", "reassign", "move", "delete", "edit"}
      /\ op.kind \notin {"delete", "reassign"} => op.customer \in Customers
      /\ op.kind = "reassign" => /\ op.customer \in Customers \cup {NULL}
                                  /\ op.lot \in Lots \cup {NULL}
      /\ op.kind \in {"move", "edit"} => op.customer \in Customers \ Governments
      /\ op.kind \in {"reassign", "move", "delete"} => op.account \in Accts
      /\ op.kind = "edit" => op.lot \in Lots /\ op.active \in BOOLEAN
  BY <1>1 DEF AccountOp
<1>3. QED
  BY <1>2 DEF FirstAwait

\* A step writes at most one account.
Writes(a) ==
  /\ a \in Accts /\ acct'[a] \in Account
  /\ acct' = [acct EXCEPT ![a] = acct'[a]]

LEMMA RegisteredRow ==
  ASSUME AccountTypes, NEW h \in Handlers, Is(h, "register", "write")
  PROVE  /\ RegisteredAt(h) \in Accts /\ Registered(h) \in Account
         /\ Registered(h).code = h
         /\ target[h] = NULL =>
              /\ Registered(h).name = "phone" /\ ~Registered(h).removed
              /\ req[h].customer \in Governments => Registered(h).entry = NULL
              /\ req[h].customer \notin Governments =>
                   Registered(h).entry = req[h].customer /\ Registered(h).lot = lot[h]
         /\ target[h] # NULL =>
              LET r == acct[target[h]] IN
              /\ Registered(h).removed = r.removed
              /\ known[h] => Registered(h).name = r.name
              /\ known[h] \/ req[h].customer \in Governments =>
                   Registered(h).entry = r.entry /\ Registered(h).lot = r.lot
              /\ ~known[h] /\ req[h].customer \notin Governments =>
                   Registered(h).entry = req[h].customer /\ Registered(h).lot = lot[h]
<1> DEFINE c == req[h].customer
<1>1. /\ req[h] \in AccountOps /\ c \in Customers
      /\ pc[h] = "write" /\ req[h].kind = "register"
      /\ target[h] \in Accts \cup {NULL} /\ lot[h] \in Lots \cup {NULL} /\ known[h] \in BOOLEAN
      /\ known[h] => target[h] # NULL
  BY AccountOpTypes DEF Is, AccountTypes, AccountsTypeOK, AccountPhase, TargetPhase
<1>2. Type(c) \in {"business", "government"}
  BY DEF Type
<1>3. CASE target[h] = NULL
  <2>1. Registered(h) = [name |-> "phone", type |-> Type(c), home |-> c, removed |-> FALSE,
          code |-> h, entry |-> IF c \in Governments THEN NULL ELSE c, lot |-> lot[h]]
    BY <1>3 DEF Registered, NewRow
  <2>2. RegisteredAt(h) = h /\ h \in Accts
    BY <1>3 DEF RegisteredAt, Accts
  <2>3. Registered(h) \in Account
    BY <1>1, <1>2, <2>1 DEF Account
  <2>4. QED
    BY <1>3, <2>1, <2>2, <2>3
<1>4. CASE target[h] # NULL
  <2> DEFINE r == acct[target[h]]
  <2>1. RegisteredAt(h) = target[h] /\ target[h] \in Accts /\ r \in Account
    BY <1>1, <1>4 DEF RegisteredAt, AccountTypes, AccountsTypeOK, TargetPhase
  <2>2. CASE known[h]
    <3>1. Registered(h) = [r EXCEPT !.code = h]
      BY <1>4, <2>2 DEF Registered
    <3>2. QED
      BY <1>4, <2>1, <2>2, <3>1 DEF Account
  <2>3. CASE ~known[h] /\ c \in Governments
    <3>1. Registered(h) = [[r EXCEPT !.code = h] EXCEPT !.name = "phone", !.type = Type(c), !.home = c]
      BY <1>4, <2>3 DEF Registered
    <3>2. QED
      BY <1>1, <1>2, <1>4, <2>1, <2>3, <3>1 DEF Account
  <2>4. CASE ~known[h] /\ c \notin Governments
    <3>1. Registered(h) = [[[r EXCEPT !.code = h] EXCEPT !.name = "phone", !.type = Type(c), !.home = c]
            EXCEPT !.entry = c, !.lot = lot[h]]
      BY <1>4, <2>4 DEF Registered
    <3>2. QED
      BY <1>1, <1>2, <1>4, <2>1, <2>4, <3>1 DEF Account
  <2>5. QED
    BY <1>1, <2>2, <2>3, <2>4
<1>5. QED
  BY <1>1, <1>3, <1>4

\* What the later steps write to the account they found.
LEMMA MovedRow ==
  ASSUME AccountTypes, NEW h \in Handlers, Move(h)
  PROVE  /\ Writes(target[h]) /\ acct[target[h]] \in Account
         /\ acct'[target[h]] = [acct[target[h]] EXCEPT !.home = req[h].customer,
                                  !.entry = req[h].customer, !.lot = lot[h]]
<1>1. /\ req[h] \in AccountOps /\ req[h].customer \in Customers
      /\ target[h] \in Accts /\ acct[target[h]] \in Account /\ lot[h] \in Lots
  BY AccountOpTypes, NullIsNone
  DEF Move, Is, AccountTypes, AccountsTypeOK, AccountPhase, LotPhase, TargetPhase
<1>2. acct' = [acct EXCEPT ![target[h]] = [acct[target[h]] EXCEPT !.home = req[h].customer,
                                  !.entry = req[h].customer, !.lot = lot[h]]]
  BY <1>1 DEF Move, AccountTypes, AccountsTypeOK
<1>3. QED
  BY <1>1, <1>2 DEF Writes, Account, AccountTypes, AccountsTypeOK

LEMMA ReassignedRow ==
  ASSUME AccountTypes, NEW h \in Handlers, Reassign(h)
  PROVE  /\ Writes(target[h]) /\ acct[target[h]] \in Account
         /\ \A f \in {"name", "type", "entry", "removed", "code"} :
              acct'[target[h]][f] = acct[target[h]][f]
         /\ \/ given'[target[h]]
            \/ given'[target[h]] = given[target[h]] /\ acct'[target[h]].lot = acct[target[h]].lot
         /\ given' \in [Accts -> BOOLEAN]
<1> DEFINE r == acct[target[h]]
           new == [r EXCEPT !.home = IF req[h].customer = NULL THEN @ ELSE req[h].customer,
                            !.lot = IF req[h].lot = NULL THEN @ ELSE req[h].lot]
<1>1. /\ req[h] \in AccountOps /\ target[h] \in Accts /\ r \in Account
      /\ req[h].customer \in Customers \cup {NULL} /\ req[h].lot \in Lots \cup {NULL}
  BY AccountOpTypes, NullIsNone
  DEF Reassign, Is, AccountTypes, AccountsTypeOK, AccountPhase, TargetPhase
<1>2. acct' = [acct EXCEPT ![target[h]] = new]
  BY <1>1 DEF Reassign, AccountTypes, AccountsTypeOK
<1>3. /\ new \in Account
      /\ \A f \in {"name", "type", "entry", "removed", "code"} : new[f] = r[f]
      /\ req[h].lot = NULL => new.lot = r.lot
  BY <1>1 DEF Account
<1>4. /\ given' \in [Accts -> BOOLEAN]
      /\ req[h].lot = NULL => given'[target[h]] = given[target[h]]
      /\ req[h].lot # NULL => given'[target[h]]
  BY <1>1 DEF Reassign, AccountTypes, AccountsTypeOK
<1>5. acct'[target[h]] = new
  BY <1>1, <1>2 DEF AccountTypes, AccountsTypeOK
<1> HIDE DEF new
<1>6. Writes(target[h])
  BY <1>1, <1>2, <1>3, <1>5 DEF Writes
<1>7. \A f \in {"name", "type", "entry", "removed", "code"} :
        acct'[target[h]][f] = acct[target[h]][f]
  BY <1>3, <1>5
<1>8. \/ given'[target[h]]
      \/ given'[target[h]] = given[target[h]] /\ acct'[target[h]].lot = acct[target[h]].lot
  <2>1. req[h].lot = NULL => acct'[target[h]].lot = acct[target[h]].lot
    BY <1>3, <1>5
  <2>2. QED
    BY <1>4, <2>1
<1>9. QED
  BY <1>1, <1>4, <1>6, <1>7, <1>8

LEMMA DeletedRow ==
  ASSUME AccountTypes, NEW h \in Handlers, DeleteAcc(h), pc'[h] # "collided"
  PROVE  /\ Writes(target[h]) /\ acct[target[h]] \in Account
         /\ acct'[target[h]] = [acct[target[h]] EXCEPT !.removed = TRUE, !.name = "deleted",
                                                       !.entry = NULL]
<1>1. /\ target[h] \in Accts /\ acct[target[h]] \in Account
  BY AccountOpTypes, NullIsNone
  DEF DeleteAcc, Is, AccountTypes, AccountsTypeOK, AccountPhase, TargetPhase
<1>2. acct' = [acct EXCEPT ![target[h]] = [acct[target[h]] EXCEPT !.removed = TRUE,
                                             !.name = "deleted", !.entry = NULL]]
  BY <1>1 DEF DeleteAcc, Goto, AccountTypes, AccountsTypeOK
<1>3. QED
  BY <1>1, <1>2 DEF Writes, Account, AccountTypes, AccountsTypeOK

LEMMA SyncedRow ==
  ASSUME AccountTypes, NEW h \in Handlers, SyncAccount(h)
  PROVE  /\ Writes(target[h]) /\ acct[target[h]] \in Account
         /\ acct'[target[h]] = [acct[target[h]] EXCEPT !.lot = lot[h]]
<1>1. /\ target[h] \in Accts /\ acct[target[h]] \in Account /\ lot[h] \in Lots
  BY DEF SyncAccount, AccountTypes, AccountsTypeOK, LotPhase, TargetPhase
<1>2. acct' = [acct EXCEPT ![target[h]] = [acct[target[h]] EXCEPT !.lot = lot[h]]]
  BY <1>1 DEF SyncAccount, AccountTypes, AccountsTypeOK
<1>3. QED
  BY <1>1, <1>2 DEF Writes, Account, AccountTypes, AccountsTypeOK

LEMMA CreatedRow ==
  ASSUME AccountTypes, NEW h \in Handlers, Create(h)
  PROVE  /\ Writes(h) /\ acct[h] = NULL
         /\ acct'[h] = [name |-> "phone", type |-> "none", home |-> req[h].customer,
                        removed |-> FALSE, code |-> NULL, entry |-> NULL, lot |-> NULL]
<1>1. req[h] \in AccountOps /\ req[h].customer \in Customers /\ acct[h] = NULL /\ h \in Accts
  BY AccountOpTypes, NullIsNone DEF Create, Is, AccountTypes, AccountPhase, RowPhase, Accts
<1>2. QED
  BY <1>1 DEF Create, Writes, Account, AccountTypes, AccountsTypeOK

LEMMA RegistrationWritten ==
  ASSUME AccountTypes, NEW h \in Handlers, WriteRegistration(h), pc'[h] # "collided"
  PROVE  /\ Writes(RegisteredAt(h)) /\ acct'[RegisteredAt(h)] = Registered(h)
         /\ target' = [target EXCEPT ![h] = RegisteredAt(h)]
         /\ target[h] = NULL => RegisteredAt(h) = h /\ acct[h] = NULL
         /\ target[h] # NULL => /\ RegisteredAt(h) = target[h]
                                /\ target[h] \in Accts /\ acct[target[h]] \in Account
         /\ beside' = [beside EXCEPT ![h] = IF RegisteredAt(h) = h THEN Named ELSE {}]
         /\ given' = [given EXCEPT ![RegisteredAt(h)] = @ /\ ~RenewsLot(h)]
         /\ given' \in [Accts -> BOOLEAN]
         /\ Goto(h, "text")
<1>1. Is(h, "register", "write")
  BY DEF WriteRegistration
<1>2. /\ acct' = [acct EXCEPT ![RegisteredAt(h)] = Registered(h)]
      /\ target' = [target EXCEPT ![h] = RegisteredAt(h)]
      /\ beside' = [beside EXCEPT ![h] = IF RegisteredAt(h) = h THEN Named ELSE {}]
      /\ given' = [given EXCEPT ![RegisteredAt(h)] = @ /\ ~RenewsLot(h)]
      /\ Goto(h, "text")
  BY DEF WriteRegistration, Goto, AccountTypes, AccountsTypeOK
<1>3. RegisteredAt(h) \in Accts /\ Registered(h) \in Account
  BY <1>1, RegisteredRow
<1>4. target[h] = NULL => RegisteredAt(h) = h /\ acct[h] = NULL
  BY <1>1 DEF RegisteredAt, Is, AccountTypes, RowPhase
<1>5. target[h] # NULL => /\ RegisteredAt(h) = target[h]
                          /\ target[h] \in Accts /\ acct[target[h]] \in Account
  BY DEF RegisteredAt, AccountTypes, AccountsTypeOK, TargetPhase
<1>6. given' \in [Accts -> BOOLEAN]
  <2>1. (given[RegisteredAt(h)] /\ ~RenewsLot(h)) \in BOOLEAN
    OBVIOUS
  <2>2. QED
    BY <1>2, <1>3, <2>1 DEF AccountTypes, AccountsTypeOK
<1>7. QED
  BY <1>2, <1>3, <1>4, <1>5, <1>6 DEF Writes, AccountTypes, AccountsTypeOK

\* Apart from what h has at hand, and its own account, a step of h leaves
\* everything as it was; no account disappears, and h changes the account it found.
OnlyOf(h) ==
  /\ \A g \in Handlers \ {h} : /\ pc'[g] = pc[g] /\ req'[g] = req[g]
                               /\ lot'[g] = lot[g] /\ target'[g] = target[g]
                               /\ known'[g] = known[g]
  /\ \A a \in Accts : acct[a] # NULL => acct'[a] # NULL
  /\ \A a \in Accts \ {h} : acct'[a] # NULL => acct[a] # NULL
  /\ target[h] # NULL => target'[h] = target[h]
  /\ lot[h] # NULL => lot'[h] # NULL

AccountFits(h) ==
  /\ AccountsTypeOK' /\ OnlyOf(h)
  /\ (AccountPhase(h) /\ LotPhase(h) /\ TargetPhase(h) /\ RowPhase(h))'

LEMMA PhasesKept ==
  ASSUME AccountTypes, NEW h \in Handlers, AccountFits(h)
  PROVE  AccountTypes'
<1> SUFFICES ASSUME NEW g \in Handlers, g # h
             PROVE  (AccountPhase(g) /\ LotPhase(g) /\ TargetPhase(g) /\ RowPhase(g))'
  BY DEF AccountTypes, AccountFits
<1>1. /\ pc'[g] = pc[g] /\ req'[g] = req[g] /\ lot'[g] = lot[g]
      /\ target'[g] = target[g] /\ known'[g] = known[g]
      /\ acct'[g] # NULL => acct[g] # NULL
  BY NullIsNone DEF OnlyOf, AccountFits
<1>2. AccountPhase(g)' /\ LotPhase(g)'
  BY <1>1 DEF AccountTypes, AccountPhase, LotPhase
<1>3. target[g] # NULL => target[g] \in Accts
  BY DEF AccountTypes, AccountsTypeOK
<1>4. TargetPhase(g)'
  BY <1>1, <1>3 DEF AccountTypes, TargetPhase, OnlyOf, AccountFits
<1>5. RowPhase(g)'
  BY <1>1 DEF AccountTypes, RowPhase
<1>6. QED
  BY <1>2, <1>4, <1>5

LEMMA WritesOne ==
  ASSUME AccountTypes, NEW a, Writes(a)
  PROVE  /\ acct' \in [Accts -> Account \cup {NULL}]
         /\ a \in Accts /\ acct'[a] # NULL
         /\ \A b \in Accts : b # a => acct'[b] = acct[b]
         /\ \A b \in Accts : acct[b] # NULL => acct'[b] # NULL
BY NullIsNone DEF Writes, AccountTypes, AccountsTypeOK

LEMMA AccountTypesInit == AccountsInit => AccountTypes
<1> SUFFICES ASSUME AccountsInit PROVE AccountTypes
  OBVIOUS
<1>1. entry \in [Customers \ Governments -> Entry]
  <2>1. entry \in [Customers \ Governments -> [lot : Lots, active : {TRUE}]]
    BY DEF AccountsInit
  <2>2. [lot : Lots, active : {TRUE}] \subseteq Entry
    BY DEF Entry
  <2>3. QED
    BY <2>1, <2>2
<1>2. acct \in [Accts -> Account \cup {NULL}] /\ \A h \in Handlers : acct[h] = NULL
  <2>1. CASE acct = [a \in Accts |-> NULL]
    BY <2>1, NullIsNone
  <2>2. ASSUME NEW p \in PriorAccts, NEW c \in Customers \ Governments,
               acct = [a \in Accts |-> IF a # p THEN NULL ELSE
                 [name |-> "phone", type |-> "none", home |-> c, removed |-> FALSE,
                  code |-> NULL, entry |-> c, lot |-> entry[c].lot]]
        PROVE  acct \in [Accts -> Account \cup {NULL}] /\ \A h \in Handlers : acct[h] = NULL
    <3>1. entry[c].lot \in Lots
      BY <1>1 DEF Entry
    <3>2. [name |-> "phone", type |-> "none", home |-> c, removed |-> FALSE,
           code |-> NULL, entry |-> c, lot |-> entry[c].lot] \in Account
      BY <3>1 DEF Account
    <3>3. \A h \in Handlers : h # p
      BY AccountsAssumption
    <3>4. QED
      BY <2>2, <3>2, <3>3, NullIsNone
  <2>3. QED
    BY <2>1, <2>2 DEF AccountsInit
<1>3. AccountsTypeOK
  BY <1>1, <1>2 DEF AccountsInit, NoRequests, AccountsTypeOK
<1>4. \A h \in Handlers : AccountPhase(h) /\ LotPhase(h) /\ TargetPhase(h) /\ RowPhase(h)
  BY <1>2 DEF AccountsInit, NoRequests, AccountPhase, LotPhase, TargetPhase, RowPhase
<1>5. QED
  BY <1>3, <1>4 DEF AccountTypes

LEMMA AccountStepFits ==
  ASSUME AccountTypes, NEW h \in Handlers, AccountStep(h)
  PROVE  AccountFits(h)
<1> USE NullIsNone DEF Goto, Is, Tables, local, Ended
<1>1. ASSUME NEW op \in AccountOps, ReceiveAccountOp(h, op) PROVE AccountFits(h)
  <2> USE AccountOpTypes
  <2>1. /\ pc[h] = "idle" /\ pc' = [pc EXCEPT ![h] = FirstAwait(op)]
        /\ req' = [req EXCEPT ![h] = op]
        /\ met' \in [Handlers -> SUBSET Handlers]
        /\ UNCHANGED <<acct, entry, text, target, lot, known, beside, given>>
    BY <1>1 DEF ReceiveAccountOp, Receive, InFlight, AccountTypes, AccountsTypeOK
  <2>2. AccountsTypeOK'
    BY <2>1 DEF AccountTypes, AccountsTypeOK
  <2>3. OnlyOf(h)
    BY <2>1 DEF OnlyOf, AccountTypes, AccountsTypeOK
  <2>4. /\ pc'[h] = FirstAwait(op) /\ req'[h] = op /\ acct[h] = NULL
        /\ lot'[h] = NULL /\ target'[h] = NULL /\ ~known'[h]
    BY <2>1 DEF AccountTypes, AccountsTypeOK, AccountPhase, TargetPhase, RowPhase
  <2>5. (AccountPhase(h) /\ LotPhase(h) /\ TargetPhase(h) /\ RowPhase(h))'
    BY <2>1, <2>4 DEF FirstAwait, AccountPhase, LotPhase, TargetPhase, RowPhase
  <2>6. QED
    BY <2>2, <2>3, <2>5 DEF AccountFits
<1>2. CASE FindEntry(h)
  <2>1. /\ pc[h] = "entry" /\ req[h] \in AccountOps
        /\ req[h].kind \in {"register", "move"} /\ req[h].customer \in Customers \ Governments
        /\ entry[req[h].customer].lot \in Lots
    BY <1>2 DEF FindEntry, AccountTypes, AccountsTypeOK, AccountPhase, Entry
  <2>2. /\ UNCHANGED <<acct, entry, text, beside, req, target, known, met, given>>
        /\ \/ /\ pc' = [pc EXCEPT ![h] = "refused"] /\ lot' = lot
           \/ /\ lot' = [lot EXCEPT ![h] = entry[req[h].customer].lot]
              /\ pc' = [pc EXCEPT ![h] = IF req[h].kind = "register" THEN "account" ELSE "write"]
    BY <1>2 DEF FindEntry
  <2>3. AccountsTypeOK'
    BY <2>1, <2>2 DEF AccountTypes, AccountsTypeOK
  <2>4. OnlyOf(h)
    BY <2>1, <2>2 DEF OnlyOf, AccountTypes, AccountsTypeOK
  <2>5. (AccountPhase(h) /\ LotPhase(h) /\ RowPhase(h))'
    BY <2>1, <2>2 DEF AccountTypes, AccountsTypeOK, AccountPhase, LotPhase, RowPhase
  <2>6. TargetPhase(h)'
    BY <2>1, <2>2 DEF AccountTypes, AccountsTypeOK, TargetPhase
  <2>7. QED
    BY <2>3, <2>4, <2>5, <2>6 DEF AccountFits
<1>3. CASE FindAccount(h)
  <2>1. /\ pc[h] = "account" /\ req[h].kind = "register" /\ target[h] = NULL
        /\ pc' = [pc EXCEPT ![h] = "write"]
        /\ UNCHANGED <<acct, entry, text, beside, req, lot, met, given>>
        /\ \/ UNCHANGED <<target, known>>
           \/ \E a \in Accts : \E k \in BOOLEAN : /\ acct[a] # NULL
                                 /\ target' = [target EXCEPT ![h] = a]
                                 /\ known' = [known EXCEPT ![h] = k]
    BY <1>3 DEF FindAccount, Named, AccountTypes, TargetPhase
  <2>2. AccountsTypeOK'
    BY <2>1 DEF AccountTypes, AccountsTypeOK
  <2>3. OnlyOf(h)
    BY <2>1 DEF OnlyOf, AccountTypes, AccountsTypeOK
  <2>4. (AccountPhase(h) /\ LotPhase(h) /\ TargetPhase(h) /\ RowPhase(h))'
    BY <2>1 DEF AccountTypes, AccountsTypeOK, AccountPhase, LotPhase, TargetPhase, RowPhase
  <2>5. QED
    BY <2>2, <2>3, <2>4 DEF AccountFits
<1>4. CASE ReadAccount(h)
  <2>1. /\ pc[h] = "account" /\ req[h] \in AccountOps /\ target[h] = NULL
        /\ req[h].kind \in {"move", "reassign", "delete"}
        /\ req[h].account \in Accts
        /\ req[h].kind = "move" => req[h].customer \in Customers \ Governments
    BY <1>4, AccountOpTypes DEF ReadAccount, AccountTypes, AccountPhase, TargetPhase
  <2>2. /\ UNCHANGED <<acct, entry, text, beside, req, lot, known, met, given>>
        /\ \/ pc' = [pc EXCEPT ![h] = "refused"] /\ target' = target
           \/ /\ acct[req[h].account] # NULL
              /\ target' = [target EXCEPT ![h] = req[h].account]
              /\ pc' = [pc EXCEPT ![h] = IF req[h].kind = "move" THEN "entry" ELSE "write"]
    BY <1>4 DEF ReadAccount
  <2>3. AccountsTypeOK'
    BY <2>1, <2>2 DEF AccountTypes, AccountsTypeOK
  <2>4. OnlyOf(h)
    BY <2>1, <2>2 DEF OnlyOf, AccountTypes, AccountsTypeOK
  <2>5. (AccountPhase(h) /\ LotPhase(h) /\ TargetPhase(h) /\ RowPhase(h))'
    BY <2>1, <2>2 DEF AccountTypes, AccountsTypeOK, AccountPhase, LotPhase, TargetPhase, RowPhase
  <2>6. QED
    BY <2>3, <2>4, <2>5 DEF AccountFits
<1>5. CASE ValidateUsername(h)
  <2>1. /\ pc[h] = "name" /\ req[h].kind = "create"
        /\ \/ pc' = [pc EXCEPT ![h] = "refused"]
           \/ pc' = [pc EXCEPT ![h] = "write"]
        /\ UNCHANGED <<acct, entry, text, beside, req, target, lot, known, met, given>>
    BY <1>5 DEF ValidateUsername
  <2>2. AccountsTypeOK' /\ OnlyOf(h)
    BY <2>1 DEF AccountTypes, AccountsTypeOK, OnlyOf
  <2>3. (AccountPhase(h) /\ LotPhase(h) /\ TargetPhase(h) /\ RowPhase(h))'
    BY <2>1 DEF AccountTypes, AccountsTypeOK, AccountPhase, LotPhase, TargetPhase, RowPhase
  <2>4. QED
    BY <2>2, <2>3 DEF AccountFits
<1>6. CASE WriteRegistration(h)
  <2>1. /\ pc[h] = "write" /\ req[h].kind = "register" /\ acct[h] = NULL
        /\ UNCHANGED <<entry, text, req, lot, known, met>>
    BY <1>6 DEF WriteRegistration, AccountTypes, RowPhase
  <2>2. CASE pc'[h] = "collided"
    <3>1. pc' = [pc EXCEPT ![h] = "collided"] /\ UNCHANGED <<acct, target, beside, given>>
      BY <1>6, <2>2 DEF WriteRegistration, AccountTypes, AccountsTypeOK
    <3>2. AccountsTypeOK' /\ OnlyOf(h)
      BY <2>1, <3>1 DEF AccountTypes, AccountsTypeOK, OnlyOf
    <3>3. (AccountPhase(h) /\ LotPhase(h) /\ TargetPhase(h) /\ RowPhase(h))'
      BY <2>1, <2>2, <3>1 DEF AccountTypes, AccountPhase, LotPhase, TargetPhase, RowPhase
    <3>4. QED
      BY <3>2, <3>3 DEF AccountFits
  <2>3. CASE pc'[h] # "collided"
    <3> DEFINE a == RegisteredAt(h)
    <3>1. /\ Writes(a) /\ target' = [target EXCEPT ![h] = a] /\ pc' = [pc EXCEPT ![h] = "text"]
          /\ a = h \/ acct[a] # NULL
          /\ target[h] # NULL => a = target[h]
          /\ beside' = [beside EXCEPT ![h] = IF a = h THEN Named ELSE {}]
          /\ given' \in [Accts -> BOOLEAN]
      BY <1>6, <2>3, RegistrationWritten
    <3>2. /\ acct' \in [Accts -> Account \cup {NULL}] /\ a \in Accts /\ acct'[a] # NULL
          /\ \A b \in Accts : b # a => acct'[b] = acct[b]
          /\ \A b \in Accts : acct[b] # NULL => acct'[b] # NULL
      BY <3>1, WritesOne
    <3>3. AccountsTypeOK'
      BY <2>1, <3>1, <3>2 DEF AccountTypes, AccountsTypeOK, Named
    <3>4. OnlyOf(h)
      BY <2>1, <3>1, <3>2 DEF OnlyOf, AccountTypes, AccountsTypeOK
    <3>5. (AccountPhase(h) /\ LotPhase(h) /\ TargetPhase(h) /\ RowPhase(h))'
      BY <2>1, <3>1, <3>2 DEF AccountTypes, AccountsTypeOK, AccountPhase, LotPhase, TargetPhase,
         RowPhase
    <3>6. QED
      BY <3>3, <3>4, <3>5 DEF AccountFits
  <2>4. QED
    BY <2>2, <2>3
<1>7. CASE SendText(h)
  <2>1. /\ pc[h] = "text" /\ target[h] \in Accts
        /\ \/ text' = [text EXCEPT ![target[h]] = h] /\ pc' = [pc EXCEPT ![h] = "done"]
           \/ text' = text /\ pc' = [pc EXCEPT ![h] = "untold"]
        /\ UNCHANGED <<acct, entry, beside, req, target, lot, known, met, given>>
    BY <1>7 DEF SendText, AccountTypes, AccountsTypeOK, TargetPhase
  <2>2. AccountsTypeOK' /\ OnlyOf(h)
    BY <2>1 DEF AccountTypes, AccountsTypeOK, OnlyOf
  <2>3. (AccountPhase(h) /\ LotPhase(h) /\ TargetPhase(h) /\ RowPhase(h))'
    BY <2>1 DEF AccountTypes, AccountsTypeOK, AccountPhase, LotPhase, TargetPhase, RowPhase
  <2>4. QED
    BY <2>2, <2>3 DEF AccountFits
<1>8. CASE Create(h)
  <2>1. /\ pc[h] = "write" /\ req[h].kind = "create" /\ pc' = [pc EXCEPT ![h] = "done"]
        /\ beside' = [beside EXCEPT ![h] = Named]
        /\ UNCHANGED <<entry, text, req, target, lot, known, met, given>>
    BY <1>8 DEF Create
  <2>2. /\ acct' \in [Accts -> Account \cup {NULL}]
        /\ \A b \in Accts : b # h => acct'[b] = acct[b]
        /\ \A b \in Accts : acct[b] # NULL => acct'[b] # NULL
    BY <1>8, CreatedRow, WritesOne
  <2>3. AccountsTypeOK'
    BY <2>1, <2>2 DEF AccountTypes, AccountsTypeOK, Named
  <2>4. OnlyOf(h)
    BY <2>1, <2>2 DEF AccountTypes, AccountsTypeOK, OnlyOf
  <2>5. (AccountPhase(h) /\ LotPhase(h) /\ TargetPhase(h) /\ RowPhase(h))'
    BY <2>1, <2>2 DEF AccountTypes, AccountsTypeOK, AccountPhase, LotPhase, TargetPhase, RowPhase
  <2>6. QED
    BY <2>3, <2>4, <2>5 DEF AccountFits
<1>9. ASSUME Writes(target[h]), acct[target[h]] # NULL,
             pc[h] \in {"write", "sync"}, pc' = [pc EXCEPT ![h] = "done"],
             UNCHANGED <<entry, text, req, target, lot, known, met, beside>>,
             given' \in [Accts -> BOOLEAN]
      PROVE  AccountFits(h)
  <2>1. /\ acct' \in [Accts -> Account \cup {NULL}]
        /\ \A b \in Accts : b # target[h] => acct'[b] = acct[b]
        /\ \A b \in Accts : acct[b] # NULL => acct'[b] # NULL
    BY <1>9, WritesOne
  <2>2. AccountsTypeOK' /\ OnlyOf(h)
    BY <1>9, <2>1 DEF AccountTypes, AccountsTypeOK, OnlyOf
  <2>3. (AccountPhase(h) /\ LotPhase(h) /\ RowPhase(h))'
    BY <1>9, <2>1 DEF AccountTypes, AccountsTypeOK, AccountPhase, LotPhase, RowPhase
  <2>4. TargetPhase(h)'
    BY <1>9, <2>1 DEF AccountTypes, AccountsTypeOK, TargetPhase
  <2>5. QED
    BY <2>2, <2>3, <2>4 DEF AccountFits
<1>10. CASE Move(h)
  <2>1. Writes(target[h]) /\ acct[target[h]] # NULL
    BY <1>10, MovedRow
  <2>2. given' \in [Accts -> BOOLEAN]
    BY <1>10 DEF Move, AccountTypes, AccountsTypeOK
  <2>3. QED
    BY <1>9, <1>10, <2>1, <2>2 DEF Move
<1>11. CASE Reassign(h)
  <2>1. Writes(target[h]) /\ acct[target[h]] # NULL /\ given' \in [Accts -> BOOLEAN]
    BY <1>11, ReassignedRow
  <2>2. QED
    BY <1>9, <1>11, <2>1 DEF Reassign
<1>12. CASE SyncAccount(h)
  <2>1. Writes(target[h]) /\ acct[target[h]] # NULL
    BY <1>12, SyncedRow
  <2>2. given' \in [Accts -> BOOLEAN]
    BY <1>12 DEF SyncAccount, AccountTypes, AccountsTypeOK
  <2>3. QED
    BY <1>9, <1>12, <2>1, <2>2 DEF SyncAccount
<1>13. ASSUME NEW phase \in {"collided", "failed"}, pc[h] # "idle",
              pc' = [pc EXCEPT ![h] = phase], acct[h] = NULL \/ phase = "failed",
              pc[h] \in Ended => pc[h] = phase,
              UNCHANGED <<acct, entry, text, req, target, lot, known, met, beside, given>>
       PROVE  AccountFits(h)
  <2>1. AccountsTypeOK' /\ OnlyOf(h)
    BY <1>13 DEF AccountTypes, AccountsTypeOK, OnlyOf
  <2>2. (AccountPhase(h) /\ LotPhase(h) /\ TargetPhase(h) /\ RowPhase(h))'
    BY <1>13 DEF AccountTypes, AccountsTypeOK, AccountPhase, LotPhase, TargetPhase, RowPhase
  <2>3. QED
    BY <2>1, <2>2 DEF AccountFits
<1>14. CASE DeleteAcc(h)
  <2>1. CASE pc'[h] = "collided"
    <3>1. /\ pc[h] = "write" /\ acct[h] = NULL /\ pc' = [pc EXCEPT ![h] = "collided"]
          /\ UNCHANGED <<acct, entry, text, req, target, lot, known, met, beside, given>>
      BY <1>14, <2>1 DEF DeleteAcc, AccountTypes, AccountsTypeOK, RowPhase
    <3>2. QED
      BY <1>13, <3>1
  <2>2. CASE pc'[h] # "collided"
    <3>1. Writes(target[h]) /\ acct[target[h]] # NULL
      BY <1>14, <2>2, DeletedRow
    <3>2. QED
      BY <1>9, <1>14, <2>2, <3>1 DEF DeleteAcc, AccountTypes, AccountsTypeOK
  <2>3. QED
    BY <2>1, <2>2
<1>15. CASE WriteEntry(h)
  <2>1. /\ pc[h] = "write" /\ req[h].kind = "edit" /\ req[h] \in AccountOps /\ acct[h] = NULL
        /\ req[h].customer \in Customers \ Governments
        /\ req[h].lot \in Lots /\ req[h].active \in BOOLEAN /\ target[h] = NULL /\ ~known[h]
    BY <1>15, AccountOpTypes
    DEF WriteEntry, AccountTypes, AccountsTypeOK, AccountPhase, TargetPhase, RowPhase
  <2>2. /\ entry' = [entry EXCEPT ![req[h].customer] =
                      [lot |-> req[h].lot, active |-> req[h].active]]
        /\ lot' = [lot EXCEPT ![h] = req[h].lot]
        /\ UNCHANGED <<acct, text, req, known, met, beside, given>>
        /\ \/ pc' = [pc EXCEPT ![h] = "done"] /\ UNCHANGED target
           \/ \E a \in Accts : /\ acct[a] # NULL /\ target' = [target EXCEPT ![h] = a]
                               /\ pc' = [pc EXCEPT ![h] = "sync"]
    BY <1>15 DEF WriteEntry, Linked
  <2>3. entry' \in [Customers \ Governments -> Entry]
    BY <2>1, <2>2 DEF AccountTypes, AccountsTypeOK, Entry
  <2>4. AccountsTypeOK'
    BY <2>1, <2>2, <2>3 DEF AccountTypes, AccountsTypeOK
  <2>5. OnlyOf(h)
    BY <2>1, <2>2 DEF AccountTypes, AccountsTypeOK, OnlyOf
  <2>6. (AccountPhase(h) /\ LotPhase(h) /\ TargetPhase(h) /\ RowPhase(h))'
    BY <2>1, <2>2 DEF AccountTypes, AccountsTypeOK, AccountPhase, LotPhase, TargetPhase, RowPhase
  <2>7. QED
    BY <2>4, <2>5, <2>6 DEF AccountFits
<1>16. CASE AccountFail(h)
  <2>1. /\ pc[h] \notin {"idle"} \cup Ended /\ pc' = [pc EXCEPT ![h] = "failed"]
        /\ UNCHANGED <<acct, entry, text, req, target, lot, known, met, beside, given>>
    BY <1>16 DEF AccountFail, BreakOff, InFlight
  <2>2. QED
    BY <1>13, <2>1
<1>17. QED
  BY <1>1, <1>2, <1>3, <1>4, <1>5, <1>6, <1>7, <1>8, <1>10, <1>11, <1>12, <1>14, <1>15, <1>16
  DEF AccountStep

LEMMA AccountTypesNext ==
  AccountTypes /\ [AccountsNext]_accountsVars => AccountTypes'
<1> SUFFICES ASSUME AccountTypes, [AccountsNext]_accountsVars PROVE AccountTypes'
  OBVIOUS
<1>1. CASE UNCHANGED accountsVars
  BY <1>1 DEF accountsVars, handling, AccountTypes, AccountsTypeOK, AccountPhase, LotPhase,
     TargetPhase, RowPhase
<1>2. QED
  BY <1>1, AccountStepFits, PhasesKept DEF AccountsNext

LEMMA AccountHandling ==
  ASSUME AccountTypes, [AccountsNext]_accountsVars
  PROVE  HandlingOK /\ HandlingNext
<1>1. HandlingOK
  BY DEF AccountTypes, AccountsTypeOK, HandlingOK
<1>2. ASSUME NEW h \in Handlers, NEW op \in AccountOps, ReceiveAccountOp(h, op)
      PROVE  Handles(h)
  <2>1. FirstAwait(op) # "idle"
    BY AccountOpTypes
  <2>2. QED
    BY <1>2, <2>1 DEF ReceiveAccountOp, Handles
<1>3. ASSUME NEW h \in Handlers,
             \/ FindEntry(h) \/ FindAccount(h) \/ ReadAccount(h) \/ ValidateUsername(h)
             \/ WriteRegistration(h) \/ SendText(h) \/ Create(h) \/ Move(h) \/ Reassign(h)
             \/ DeleteAcc(h) \/ WriteEntry(h) \/ SyncAccount(h) \/ AccountFail(h)
      PROVE  Handles(h)
  <2> USE DEF FindEntry, FindAccount, ReadAccount, ValidateUsername, WriteRegistration, SendText,
          Create, Move, Reassign, DeleteAcc, WriteEntry, SyncAccount, AccountFail, BreakOff
  <2>1. h \in InFlight /\ UNCHANGED <<req, met>>
    BY <1>3 DEF InFlight, Is, Ended, local
  <2>2. \/ Goto(h, "account") \/ Goto(h, "entry") \/ Goto(h, "write") \/ Goto(h, "text")
        \/ Goto(h, "sync") \/ Goto(h, "done") \/ Goto(h, "refused") \/ Goto(h, "collided")
        \/ Goto(h, "untold") \/ Goto(h, "failed")
    BY <1>3
  <2>3. QED
    BY <2>1, <2>2 DEF Handles
<1>4. UNCHANGED accountsVars => UNCHANGED handling
  BY DEF accountsVars
<1>5. QED
  BY <1>1, <1>2, <1>3, <1>4 DEF AccountsNext, AccountStep, HandlingNext

\* What was found stays found.
Lasting ==
  \A h \in Handlers : /\ target[h] # NULL => target'[h] = target[h]
                      /\ lot[h] # NULL => lot'[h] # NULL

LEMMA AccountsLast ==
  ASSUME AccountTypes, [AccountsNext]_accountsVars
  PROVE  Lasting
<1>1. ASSUME NEW h \in Handlers, AccountStep(h) PROVE Lasting
  BY <1>1, AccountStepFits DEF AccountFits, OnlyOf, Lasting
<1>2. QED
  BY <1>1 DEF AccountsNext, Lasting, accountsVars

AccountsInv == AccountTypes /\ MetInv

\* What holds of any step, whatever it is.
AccountsOnward == AccountsInv /\ AccountsInv' /\ Onward /\ Lasting

LEMMA AccountsInvNext ==
  AccountsInv /\ [AccountsNext]_accountsVars => AccountsOnward
BY AccountTypesNext, AccountHandling, HandlersMeet, AccountsLast
DEF AccountsInv, AccountsOnward

LEMMA AccountsInvInit == AccountsInit => AccountsInv
<1>1. AccountsInit => MetInv
  BY DEF AccountsInit, NoRequests, MetInv, InFlight
<1>2. QED
  BY <1>1, AccountTypesInit DEF AccountsInv

LEMMA AccountsInvariant == AccountsSpec => []AccountsInv
<1>1. AccountsInv /\ [AccountsNext]_accountsVars => AccountsInv'
  BY AccountsInvNext DEF AccountsOnward
<1>2. QED
  BY AccountsInvInit, <1>1, PTL DEF AccountsSpec

\* Type correctness: every account has a complete row whatever handler wrote it
\* (users.service.ts writes it in five of them), every handler goes from one of
\* its awaits to another, and what it holds is what an await gave it.
THEOREM AccountsTypeCorrect == AccountsSpec => []AccountsTypeOK
<1>1. AccountsInv => AccountsTypeOK
  BY DEF AccountsInv, AccountTypes
<1>2. QED
  BY AccountsInvariant, <1>1, PTL

\* The steps that write account a.
WritesAt(h, a) ==
  \/ WriteRegistration(h) /\ pc'[h] # "collided" /\ a = RegisteredAt(h)
  \/ Create(h) /\ a = h
  \/ Move(h) /\ a = target[h]
  \/ Reassign(h) /\ a = target[h]
  \/ SyncAccount(h) /\ a = target[h]
  \/ DeleteAcc(h) /\ pc'[h] # "collided" /\ a = target[h]

LEMMA RowWriters ==
  ASSUME AccountTypes, NEW h \in Handlers, AccountStep(h),
         NEW a \in Accts, acct'[a] # acct[a] \/ given'[a] # given[a]
  PROVE  WritesAt(h, a)
<1> USE DEF AccountTypes, AccountsTypeOK
<1>1. ~(acct' = acct /\ given' = given)
  OBVIOUS
<1>2. \/ WriteRegistration(h) \/ Create(h) \/ Move(h) \/ Reassign(h)
      \/ SyncAccount(h) \/ DeleteAcc(h)
  BY <1>1 DEF AccountStep, ReceiveAccountOp, FindEntry, FindAccount, ReadAccount,
     ValidateUsername, SendText, WriteEntry, AccountFail, Tables, local
<1>3. ASSUME NEW b \in Accts, Writes(b), \A g \in Accts \ {b} : given'[g] = given[g] PROVE a = b
  BY <1>3, WritesOne
<1>4. CASE WriteRegistration(h)
  <2>1. pc'[h] # "collided"
    BY <1>1, <1>4 DEF WriteRegistration, Goto
  <2>2. /\ Writes(RegisteredAt(h)) /\ RegisteredAt(h) \in Accts
        /\ given' = [given EXCEPT ![RegisteredAt(h)] = @ /\ ~RenewsLot(h)]
    BY <1>4, <2>1, RegistrationWritten DEF Writes
  <2>3. a = RegisteredAt(h)
    BY <1>3, <2>2
  <2>4. QED
    BY <1>4, <2>1, <2>3 DEF WritesAt
<1>5. CASE Create(h)
  <2>1. Writes(h) /\ h \in Accts /\ given' = given
    BY <1>5, CreatedRow DEF Create, Writes
  <2>2. QED
    BY <1>3, <1>5, <2>1 DEF WritesAt
<1>6. CASE Move(h)
  <2>1. Writes(target[h]) /\ target[h] \in Accts /\ given' = [given EXCEPT ![target[h]] = FALSE]
    BY <1>6, MovedRow DEF Move, Writes
  <2>2. QED
    BY <1>3, <1>6, <2>1 DEF WritesAt
<1>7. CASE Reassign(h)
  <2>1. /\ Writes(target[h]) /\ target[h] \in Accts
        /\ given' = [given EXCEPT ![target[h]] = @ \/ req[h].lot # NULL]
    BY <1>7, ReassignedRow DEF Reassign, Writes
  <2>2. QED
    BY <1>3, <1>7, <2>1 DEF WritesAt
<1>8. CASE SyncAccount(h)
  <2>1. Writes(target[h]) /\ target[h] \in Accts /\ given' = [given EXCEPT ![target[h]] = FALSE]
    BY <1>8, SyncedRow DEF SyncAccount, Writes
  <2>2. QED
    BY <1>3, <1>8, <2>1 DEF WritesAt
<1>9. CASE DeleteAcc(h)
  <2>1. pc'[h] # "collided"
    BY <1>1, <1>9 DEF DeleteAcc, Goto
  <2>2. Writes(target[h]) /\ target[h] \in Accts /\ given' = given
    BY <1>9, <2>1, DeletedRow DEF DeleteAcc, Writes
  <2>3. QED
    BY <1>3, <1>9, <2>1, <2>2 DEF WritesAt
<1>10. QED
  BY <1>2, <1>4, <1>5, <1>6, <1>7, <1>8, <1>9

\* What these steps make of it.
LEMMA RowsWritten ==
  ASSUME AccountTypes, NEW h \in Handlers, NEW a \in Accts, WritesAt(h, a)
  PROVE  /\ acct'[a] # NULL /\ pc[h] \in {"write", "sync"} /\ req'[h] = req[h]
         /\ pc[h] = "sync" <=> SyncAccount(h)
         /\ acct[a] = NULL => a = h /\ req[h].kind \in {"register", "create"}
         /\ acct'[a].removed =>
              \/ /\ req[h].kind = "delete" /\ target[h] = a
                 /\ acct'[a].name = "deleted" /\ acct'[a].entry = NULL
              \/ /\ acct[a] # NULL /\ acct[a].removed /\ target[h] = a
                 /\ \/ req[h].kind \in {"register", "move"}
                    \/ acct'[a].name = acct[a].name /\ acct'[a].entry = acct[a].entry
         /\ acct'[a].name = "phone" =>
              \/ acct[a] # NULL /\ acct[a].name = "phone"
              \/ /\ req[h].kind \in {"register", "create"}
                 /\ a = h \/ target'[h] = a
         /\ \/ acct'[a].code = NULL
            \/ acct[a] # NULL /\ acct'[a].code = acct[a].code
            \/ acct'[a].code = h /\ pc'[h] = "text" /\ target'[h] = a
         /\ acct[a] # NULL => \/ acct'[a].code = acct[a].code
                              \/ acct'[a].code = h /\ pc'[h] = "text" /\ target'[h] = a
         /\ \/ acct'[a].entry = NULL
            \/ /\ acct[a] # NULL /\ acct'[a].entry = acct[a].entry
               /\ \/ SyncAccount(h)
                  \/ given'[a]
                  \/ acct'[a].lot = acct[a].lot /\ given'[a] = given[a]
            \/ /\ req[h].kind \in {"register", "move"} /\ target'[h] = a
               /\ pc[h] = "write" /\ req[h].customer \notin Governments
               /\ acct'[a].entry = req[h].customer /\ acct'[a].lot = lot[h]
<1> USE NullIsNone
<1>1. CASE WriteRegistration(h) /\ pc'[h] # "collided" /\ a = RegisteredAt(h)
  <2>1. Is(h, "register", "write") /\ req'[h] = req[h] /\ ~SyncAccount(h)
    BY <1>1 DEF WriteRegistration, SyncAccount, Is
  <2>2. /\ acct'[a] = Registered(h) /\ target'[h] = a /\ pc'[h] = "text"
        /\ acct'[a] \in Account
        /\ target[h] = NULL => a = h /\ acct[a] = NULL
        /\ target[h] # NULL => target[h] = a /\ acct[a] \in Account
    BY <1>1, RegistrationWritten DEF Goto, AccountTypes, AccountsTypeOK, Writes
  <2>3. CASE target[h] = NULL
    BY <2>1, <2>2, <2>3, RegisteredRow DEF Is
  <2>4. CASE target[h] # NULL
    <3>1. (known[h] \/ req[h].customer \in Governments) => given'[a] = given[a]
      <4>1. given' = [given EXCEPT ![a] = @ /\ ~RenewsLot(h)]
        BY <1>1, RegistrationWritten
      <4>2. (known[h] \/ req[h].customer \in Governments) => ~RenewsLot(h)
        BY <2>4 DEF RenewsLot
      <4>3. QED
        BY <4>1, <4>2 DEF AccountTypes, AccountsTypeOK
    <3>2. QED
      BY <2>1, <2>2, <2>4, <3>1, RegisteredRow DEF Is
  <2>5. QED
    BY <2>3, <2>4
<1>2. CASE Create(h) /\ a = h
  <2>1. /\ pc[h] = "write" /\ req[h].kind = "create" /\ req'[h] = req[h] /\ ~SyncAccount(h)
    BY <1>2 DEF Create, Is, SyncAccount, local
  <2>2. Writes(h) /\ acct[h] = NULL
        /\ acct'[h] = [name |-> "phone", type |-> "none", home |-> req[h].customer,
                       removed |-> FALSE, code |-> NULL, entry |-> NULL, lot |-> NULL]
    BY <1>2, CreatedRow
  <2>3. /\ acct[a] = NULL /\ acct'[a] \in Account
        /\ acct'[a].name = "phone" /\ ~acct'[a].removed
        /\ acct'[a].code = NULL /\ acct'[a].entry = NULL
    BY <1>2, <2>2 DEF Writes
  <2>4. QED
    BY <1>2, <2>1, <2>3
<1>3. CASE Move(h) /\ a = target[h]
  <2>1. /\ pc[h] = "write" /\ req[h].kind = "move" /\ req'[h] = req[h] /\ ~SyncAccount(h)
        /\ target'[h] = target[h] /\ req[h].customer \notin Governments
    BY <1>3, AccountOpTypes DEF Move, Is, SyncAccount, local, AccountTypes, AccountPhase
  <2>2. /\ acct[a] \in Account /\ acct'[a] \in Account
        /\ acct'[a].removed = acct[a].removed /\ acct'[a].name = acct[a].name
        /\ acct'[a].code = acct[a].code
        /\ acct'[a].entry = req[h].customer /\ acct'[a].lot = lot[h]
    BY <1>3, MovedRow DEF Writes, Account
  <2>3. QED
    BY <1>3, <2>1, <2>2
<1>4. CASE Reassign(h) /\ a = target[h]
  <2>1. /\ pc[h] = "write" /\ req'[h] = req[h] /\ ~SyncAccount(h)
    BY <1>4 DEF Reassign, Is, SyncAccount, local
  <2>2. /\ acct[a] \in Account /\ acct'[a] \in Account
        /\ acct'[a].removed = acct[a].removed /\ acct'[a].name = acct[a].name
        /\ acct'[a].code = acct[a].code
        /\ acct'[a].entry = acct[a].entry
        /\ given'[a] \/ (given'[a] = given[a] /\ acct'[a].lot = acct[a].lot)
    BY <1>4, ReassignedRow DEF Writes, Account
  <2>3. QED
    BY <1>4, <2>1, <2>2
<1>5. CASE SyncAccount(h) /\ a = target[h]
  <2>1. /\ pc[h] = "sync" /\ req'[h] = req[h]
    BY <1>5 DEF SyncAccount, local
  <2>2. /\ acct[a] \in Account /\ acct'[a] \in Account
        /\ acct'[a].removed = acct[a].removed /\ acct'[a].name = acct[a].name
        /\ acct'[a].code = acct[a].code
        /\ acct'[a].entry = acct[a].entry
    BY <1>5, SyncedRow DEF Writes, Account
  <2>3. QED
    BY <1>5, <2>1, <2>2
<1>6. CASE DeleteAcc(h) /\ pc'[h] # "collided" /\ a = target[h]
  <2>1. /\ pc[h] = "write" /\ req[h].kind = "delete" /\ req'[h] = req[h] /\ ~SyncAccount(h)
    BY <1>6 DEF DeleteAcc, Is, SyncAccount, local
  <2>2. /\ acct[a] \in Account /\ acct'[a] \in Account
        /\ acct'[a].name = "deleted" /\ acct'[a].entry = NULL
        /\ acct'[a].code = acct[a].code
    BY <1>6, DeletedRow DEF Writes, Account
  <2>3. QED
    BY <1>6, <2>1, <2>2
<1>7. QED
  BY <1>1, <1>2, <1>3, <1>4, <1>5, <1>6 DEF WritesAt

\* Two handlers at work at the same time have met, before and after the step.
LEMMA AtWorkMeet ==
  ASSUME AccountsOnward, NEW g \in Handlers, NEW h \in Handlers, g # h,
         pc[g] \notin {"idle"} \cup Ended, pc[h] \notin {"idle"} \cup Ended
  PROVE  g \in met'[h]
BY DEF AccountsOnward, AccountsInv, MetInv, InFlight, Onward

\* A handler has begun when it has found an account, or met another.
LEMMA Begun ==
  ASSUME AccountsInv
  PROVE  /\ \A g \in Handlers : target[g] # NULL \/ lot[g] # NULL => pc[g] # "idle"
         /\ \A g \in Handlers : \A f \in met[g] : f \in Handlers /\ pc[f] # "idle"
BY DEF AccountsInv, MetInv, AccountTypes, AccountsTypeOK, AccountPhase, TargetPhase

\* RemovedStaysRemoved: a handler that holds a deleted account found it before.
Revived(a) ==
  \E h, d \in Handlers :
    /\ target[h] = a /\ req[h].kind \in {"register", "move"}
    /\ target[d] = a /\ req[d].kind = "delete"
    /\ d \in met[h]

FoundInv ==
  \A h \in Handlers :
    (/\ pc[h] \in {"entry", "write"} /\ req[h].kind \in {"register", "move"}
     /\ target[h] # NULL /\ acct[target[h]].removed) => Revived(target[h])

RemovalInv == FoundInv /\ RemovedStaysRemoved

LEMMA RevivedLasts ==
  ASSUME AccountsOnward, NEW a \in Accts, Revived(a)
  PROVE  Revived(a)'
<1>1. PICK h \in Handlers, d \in Handlers :
        /\ target[h] = a /\ req[h].kind \in {"register", "move"}
        /\ target[d] = a /\ req[d].kind = "delete" /\ d \in met[h]
  BY DEF Revived
<1>2. pc[h] # "idle" /\ pc[d] # "idle" /\ a # NULL
  BY <1>1, Begun, NullIsNone DEF AccountsOnward
<1>3. /\ target'[h] = a /\ req'[h] = req[h] /\ target'[d] = a /\ req'[d] = req[d]
      /\ met[h] \subseteq met'[h]
  BY <1>1, <1>2 DEF AccountsOnward, Onward, Lasting
<1>4. QED
  BY <1>1, <1>3 DEF Revived

LEMMA FoundInvNext ==
  ASSUME AccountsOnward, RemovalInv, NEW h \in Handlers, AccountStep(h)
  PROVE  FoundInv'
<1> USE NullIsNone
<1>1. AccountTypes /\ AccountTypes'
  BY DEF AccountsOnward, AccountsInv
<1> SUFFICES ASSUME NEW g \in Handlers, NEW a \in Accts, target'[g] = a, acct'[a].removed,
               pc'[g] \in {"entry", "write"}, req'[g].kind \in {"register", "move"}
             PROVE  Revived(a)'
  BY <1>1 DEF FoundInv, Revived, AccountTypes, AccountsTypeOK
<1>3. CASE target[g] = a /\ pc[g] \in {"entry", "write"} /\ req'[g] = req[g]
  <2>1. CASE acct'[a] = acct[a]
    <3>1. Revived(a)
      BY <1>3, <2>1 DEF RemovalInv, FoundInv
    <3>2. QED
      BY <1>3, <3>1, RevivedLasts
  <2>2. CASE acct'[a] # acct[a]
    <3>1. WritesAt(h, a)
      BY <1>1, <1>3, <2>2, RowWriters
    <3>2. CASE acct[a] # NULL /\ acct[a].removed
      <4>1. Revived(a)
        BY <1>3, <3>2 DEF RemovalInv, FoundInv
      <4>2. QED
        BY <1>3, <4>1, RevivedLasts
    <3>3. CASE ~(acct[a] # NULL /\ acct[a].removed)
      <4>1. /\ req[h].kind = "delete" /\ target[h] = a
            /\ pc[h] \in {"write", "sync"} /\ req'[h] = req[h]
        BY <1>1, <1>3, <3>1, <3>3, RowsWritten
      <4>2. h # g
        BY <1>3, <4>1
      <4>3. h \in met'[g] /\ target'[h] = a
        BY <1>3, <4>1, <4>2, AtWorkMeet DEF Ended, AccountsOnward, Lasting
      <4>4. QED
        BY <1>3, <4>1, <4>3 DEF Revived
    <3>4. QED
      BY <3>2, <3>3
  <2>3. QED
    BY <2>1, <2>2
<1>4. CASE ~(target[g] = a /\ pc[g] \in {"entry", "write"} /\ req'[g] = req[g])
  <2>1. g = h
    <3>1. OnlyOf(h)
      BY <1>1, AccountStepFits DEF AccountFits
    <3>2. QED
      BY <1>4, <3>1 DEF OnlyOf
  <2>2. (FindAccount(h) \/ ReadAccount(h)) /\ acct' = acct
    <3>1. pc'[h] \in {"entry", "write"} /\ req'[h].kind \in {"register", "move"}
          /\ target'[h] # NULL
      BY <2>1
    <3>2. ASSUME NEW op \in AccountOps, ReceiveAccountOp(h, op) PROVE FALSE
      BY <1>1, <3>1, <3>2 DEF ReceiveAccountOp, Receive, AccountTypes, TargetPhase
    <3>3. ~FindEntry(h)
      BY <1>4, <2>1 DEF FindEntry
    <3>4. ~ValidateUsername(h)
      BY <1>1, <3>1 DEF ValidateUsername, Is, AccountTypes, TargetPhase, local
    <3>5. \A phase : Goto(h, phase) => pc'[h] = phase
      BY <1>1 DEF Goto, AccountTypes, AccountsTypeOK
    <3>6. ~(\/ WriteRegistration(h) \/ SendText(h) \/ Create(h) \/ Move(h) \/ Reassign(h)
            \/ DeleteAcc(h) \/ WriteEntry(h) \/ SyncAccount(h) \/ AccountFail(h))
      BY <3>1, <3>5 DEF WriteRegistration, SendText, Create, Move, Reassign, DeleteAcc,
         WriteEntry, SyncAccount, AccountFail, BreakOff
    <3>7. FindAccount(h) \/ ReadAccount(h)
      BY <3>2, <3>3, <3>4, <3>6 DEF AccountStep
    <3>8. QED
      BY <3>7 DEF FindAccount, ReadAccount, Tables
  <2>3. acct[a] # NULL /\ acct[a].name = "phone"
    <3>1. CASE FindAccount(h)
      BY <1>1, <2>1, <3>1 DEF FindAccount, Named, Is, AccountTypes, AccountsTypeOK, TargetPhase
    <3>2. CASE ReadAccount(h)
      <4>1. req[h].kind = "move" /\ target' = [target EXCEPT ![h] = req[h].account]
        BY <1>1, <2>1, <3>2 DEF ReadAccount, AccountTypes, AccountsTypeOK, TargetPhase
      <4>2. a = req[h].account
        BY <1>1, <2>1, <4>1 DEF AccountTypes, AccountsTypeOK
      <4>3. ~(acct[req[h].account] = NULL \/ acct[req[h].account].name # "phone")
        BY <1>1, <2>1, <3>2, <4>1 DEF ReadAccount, Goto, AccountTypes, AccountsTypeOK
      <4>4. QED
        BY <4>2, <4>3
    <3>3. QED
      BY <2>2, <3>1, <3>2
  <2>4. Revived(a)
    BY <2>2, <2>3 DEF RemovalInv, RemovedStaysRemoved, Revived
  <2>5. QED
    BY <2>4, RevivedLasts
<1>5. QED
  BY <1>3, <1>4

LEMMA RemovedNext ==
  ASSUME AccountsOnward, RemovalInv, NEW h \in Handlers, AccountStep(h)
  PROVE  RemovedStaysRemoved'
<1> SUFFICES ASSUME NEW a \in Accts, acct'[a] # NULL, acct'[a].removed
             PROVE  (acct'[a].name = "deleted" /\ acct'[a].entry = NULL) \/ Revived(a)'
  BY DEF RemovedStaysRemoved, Revived
<1>1. AccountTypes
  BY DEF AccountsOnward, AccountsInv
<1>2. (acct[a] # NULL /\ acct[a].removed) =>
        (acct[a].name = "deleted" /\ acct[a].entry = NULL) \/ Revived(a)
  BY DEF RemovalInv, RemovedStaysRemoved, Revived
<1>3. CASE acct'[a] = acct[a]
  BY <1>2, <1>3, RevivedLasts
<1>4. CASE acct'[a] # acct[a]
  <2>1. WritesAt(h, a)
    BY <1>1, <1>4, RowWriters
  <2>2. CASE acct[a] # NULL /\ acct[a].removed /\ target[h] = a
             /\ req[h].kind \in {"register", "move"}
    <3>1. pc[h] = "write"
      BY <1>1, <2>1, <2>2, RowsWritten DEF AccountTypes, AccountPhase
    <3>2. Revived(a)
      BY <2>2, <3>1, NullIsNone DEF RemovalInv, FoundInv
    <3>3. QED
      BY <3>2, RevivedLasts
  <2>3. CASE ~(acct[a] # NULL /\ acct[a].removed /\ target[h] = a
               /\ req[h].kind \in {"register", "move"})
    <3>1. \/ acct'[a].name = "deleted" /\ acct'[a].entry = NULL
          \/ /\ acct[a] # NULL /\ acct[a].removed
             /\ acct'[a].name = acct[a].name /\ acct'[a].entry = acct[a].entry
      BY <1>1, <2>1, <2>3, RowsWritten
    <3>2. QED
      BY <1>2, <3>1, RevivedLasts
  <2>4. QED
    BY <2>2, <2>3
<1>5. QED
  BY <1>3, <1>4

\* A deleted account stays out of reach: the deletion, one statement
\* (users.service.ts deleteAccount), is undone by nothing but a registration or
\* a move that had read the account before and writes it back afterwards.
THEOREM RemovalIsFinal == AccountsSpec => []RemovedStaysRemoved
<1>1. AccountsInit => RemovalInv
  <2> SUFFICES ASSUME AccountsInit PROVE RemovalInv
    OBVIOUS
  <2>1. FoundInv
    BY DEF AccountsInit, NoRequests, FoundInv
  <2>2. \A a \in Accts : acct[a] # NULL => ~acct[a].removed
    BY DEF AccountsInit
  <2>3. QED
    BY <2>1, <2>2 DEF RemovalInv, RemovedStaysRemoved
<1>2. AccountsInv /\ RemovalInv /\ [AccountsNext]_accountsVars => RemovalInv'
  <2> SUFFICES ASSUME AccountsInv, RemovalInv, [AccountsNext]_accountsVars PROVE RemovalInv'
    OBVIOUS
  <2>1. AccountsOnward
    BY AccountsInvNext
  <2>2. CASE UNCHANGED accountsVars
    BY <2>2 DEF accountsVars, handling, RemovalInv, FoundInv, RemovedStaysRemoved, Revived
  <2>3. QED
    BY <2>1, <2>2, FoundInvNext, RemovedNext DEF AccountsNext, RemovalInv
<1>3. RemovalInv => RemovedStaysRemoved
  BY DEF RemovalInv
<1>4. QED
  BY <1>1, <1>2, <1>3, AccountsInvariant, PTL DEF AccountsSpec

\* CreatedNameIsFree: an account that has the name when create is about to
\* insert another got it while create was under way.
Given(g, a) == req[g].kind \in {"create", "register"} /\ (g = a \/ target[g] = a)

CreateInv ==
  /\ \A h \in Handlers : Is(h, "create", "write") => \A a \in Named : \E g \in met[h] : Given(g, a)
  /\ \A h \in Handlers : pc[h] = "idle" => beside[h] = {}

NameInv == CreateInv /\ CreatedNameIsFree

LEMMA GivenLasts ==
  ASSUME AccountsOnward, NEW h \in Handlers, pc[h] # "idle", NEW a \in Accts,
         \E g \in met[h] : Given(g, a)
  PROVE  \E g \in met'[h] : Given(g, a)'
<1>1. PICK g \in met[h] : Given(g, a)
  OBVIOUS
<1>2. g \in Handlers /\ pc[g] # "idle"
  BY Begun DEF AccountsOnward
<1>3. req'[g] = req[g] /\ g \in met'[h]
  BY <1>2 DEF AccountsOnward, Onward
<1>4. target[g] = a => target'[g] = a
  BY <1>2, NullIsNone DEF AccountsOnward, Lasting
<1>5. QED
  BY <1>1, <1>3, <1>4 DEF Given

LEMMA CreateInvNext ==
  ASSUME AccountsOnward, NameInv, NEW h \in Handlers, AccountStep(h)
  PROVE  CreateInv'
<1>1. AccountTypes /\ AccountTypes' /\ OnlyOf(h)
  BY AccountStepFits DEF AccountsOnward, AccountsInv, AccountFits
<1>2. \A phase : Goto(h, phase) => pc'[h] = phase
  BY <1>1 DEF Goto, AccountTypes, AccountsTypeOK
<1>3. ASSUME NEW g \in Handlers, pc'[g] = "write", req'[g].kind = "create", NEW a \in Named'
      PROVE  \E f \in met'[g] : Given(f, a)'
  <2>1. a \in Accts /\ acct'[a] # NULL /\ acct'[a].name = "phone"
    BY DEF Named
  <2>2. CASE pc[g] = "write" /\ req[g].kind = "create"
    <3>1. CASE a \in Named
      <4>1. \E f \in met[g] : Given(f, a)
        BY <2>2, <3>1 DEF NameInv, CreateInv, Is
      <4>2. QED
        BY <2>1, <2>2, <4>1, GivenLasts
    <3>2. CASE a \notin Named
      <4>1. acct'[a] # acct[a]
        BY <2>1, <3>2 DEF Named
      <4>2. WritesAt(h, a)
        BY <1>1, <2>1, <4>1, RowWriters
      <4>3. /\ req[h].kind \in {"register", "create"} /\ req'[h] = req[h]
            /\ a = h \/ target'[h] = a
            /\ pc[h] \in {"write", "sync"}
        BY <1>1, <2>1, <3>2, <4>2, RowsWritten DEF Named
      <4>4. Given(h, a)'
        BY <4>3 DEF Given
      <4>5. g # h
        <5>1. pc[h] = "write"
          BY <1>1, <4>3 DEF AccountTypes, AccountPhase
        <5>2. CASE req[h].kind = "register"
          BY <2>2, <5>2
        <5>3. CASE req[h].kind = "create"
          <6>1. Create(h)
            BY <4>2, <5>1, <5>3 DEF WritesAt, WriteRegistration, Move, Reassign, SyncAccount,
               DeleteAcc, Is
          <6>2. pc'[h] = "done"
            BY <1>2, <6>1 DEF Create
          <6>3. QED
            BY <1>3, <6>2
        <5>4. QED
          BY <4>3, <5>2, <5>3
      <4>6. h \in met'[g]
        BY <2>2, <4>3, <4>5, AtWorkMeet DEF Ended
      <4>7. QED
        BY <4>4, <4>6
    <3>3. QED
      BY <3>1, <3>2
  <2>3. CASE ~(pc[g] = "write" /\ req[g].kind = "create")
    <3>1. g = h
      BY <1>1, <1>3, <2>3 DEF OnlyOf
    <3>2. ASSUME NEW op \in AccountOps, ReceiveAccountOp(h, op) PROVE FALSE
      <4>1. req'[h] = op /\ pc'[h] = FirstAwait(op)
        BY <1>1, <1>2, <3>2 DEF ReceiveAccountOp, Receive, AccountTypes, AccountsTypeOK
      <4>2. QED
        BY <1>3, <3>1, <4>1 DEF FirstAwait
    <3>3. CASE ValidateUsername(h)
      <4>1. Named = {} /\ acct' = acct
        BY <1>2, <1>3, <3>1, <3>3 DEF ValidateUsername, Tables
      <4>2. QED
        BY <1>3, <4>1 DEF Named
    <3>4. ASSUME ~ValidateUsername(h) PROVE FALSE
      <4>1. req'[h] = req[h]
        BY <3>2, <3>4 DEF AccountStep, FindEntry, FindAccount, ReadAccount, WriteRegistration,
           SendText, Create, Move, Reassign, DeleteAcc, WriteEntry, SyncAccount, AccountFail,
           BreakOff, local
      <4>2. pc[h] # "write" /\ req[h].kind = "create"
        BY <1>3, <2>3, <3>1, <4>1
      <4>3. ~(\/ FindEntry(h) \/ FindAccount(h) \/ ReadAccount(h))
        BY <1>1, <4>2 DEF FindEntry, FindAccount, ReadAccount, Is, AccountTypes, AccountPhase
      <4>4. ~(\/ WriteRegistration(h) \/ SendText(h) \/ Create(h) \/ Move(h) \/ Reassign(h)
              \/ DeleteAcc(h) \/ WriteEntry(h) \/ SyncAccount(h) \/ AccountFail(h))
        BY <1>2, <1>3, <3>1 DEF WriteRegistration, SendText, Create, Move, Reassign, DeleteAcc,
           WriteEntry, SyncAccount, AccountFail, BreakOff
      <4>5. QED
        BY <3>2, <3>4, <4>3, <4>4 DEF AccountStep
    <3>5. QED
      BY <3>3, <3>4
  <2>4. QED
    BY <2>2, <2>3
<1>4. ASSUME NEW g \in Handlers, pc'[g] = "idle" PROVE beside'[g] = {}
  <2>1. pc[g] = "idle" /\ beside[g] = {}
    BY <1>4 DEF AccountsOnward, Onward, NameInv, CreateInv
  <2>2. g # h
    <3>1. h \in Handlers /\ pc'[h] # "idle"
      <4>1. CASE pc[h] # "idle"
        BY <4>1 DEF AccountsOnward, Onward
      <4>2. CASE pc[h] = "idle"
        <5>1. PICK op \in AccountOps : ReceiveAccountOp(h, op)
          BY <4>2 DEF AccountStep, FindEntry, FindAccount, ReadAccount, ValidateUsername,
             WriteRegistration, SendText, Create, Move, Reassign, DeleteAcc, WriteEntry,
             SyncAccount, AccountFail, BreakOff, InFlight, Is
        <5>2. QED
          BY <1>2, <5>1, AccountOpTypes DEF ReceiveAccountOp, Receive
      <4>3. QED
        BY <4>1, <4>2
    <3>2. QED
      BY <1>4, <3>1
  <2>3. beside'[g] = beside[g]
    <3>1. \/ UNCHANGED beside \/ \E B : beside' = [beside EXCEPT ![h] = B]
      BY DEF AccountStep, ReceiveAccountOp, FindEntry, FindAccount, ReadAccount, ValidateUsername,
         WriteRegistration, SendText, Create, Move, Reassign, DeleteAcc, WriteEntry,
         SyncAccount, AccountFail, Tables
    <3>2. QED
      BY <1>1, <2>2, <3>1 DEF AccountTypes, AccountsTypeOK
  <2>4. QED
    BY <2>1, <2>3
<1>5. QED
  BY <1>3, <1>4 DEF CreateInv, Is

LEMMA CreatedNext ==
  ASSUME AccountsOnward, NameInv, NEW h \in Handlers, AccountStep(h)
  PROVE  CreatedNameIsFree'
<1> SUFFICES ASSUME NEW g \in Handlers, req'[g] # NULL, req'[g].kind = "create",
                    NEW a \in beside'[g]
             PROVE  \E f \in met'[g] : Given(f, a)'
  BY DEF CreatedNameIsFree, Given
<1>1. AccountTypes /\ AccountTypes' /\ OnlyOf(h)
  BY AccountStepFits DEF AccountsOnward, AccountsInv, AccountFits
<1>2. a \in Accts
  BY <1>1 DEF AccountTypes, AccountsTypeOK
<1>3. CASE a \in beside[g]
  <2>1. pc[g] # "idle" /\ req'[g] = req[g]
    BY <1>3 DEF NameInv, CreateInv, AccountsOnward, Onward
  <2>2. \E f \in met[g] : Given(f, a)
    BY <1>3, <2>1 DEF NameInv, CreatedNameIsFree, Given
  <2>3. QED
    BY <1>2, <2>1, <2>2, GivenLasts
<1>4. CASE a \notin beside[g]
  <2>1. g = h /\ (Create(h) \/ WriteRegistration(h))
    <3>1. beside'[g] # beside[g]
      BY <1>4
    <3>2. beside' # beside
      BY <3>1
    <3>3. Create(h) \/ WriteRegistration(h)
      BY <3>2 DEF AccountStep, ReceiveAccountOp, FindEntry, FindAccount, ReadAccount,
         ValidateUsername, SendText, Move, Reassign, DeleteAcc, WriteEntry,
         SyncAccount, AccountFail, Tables
    <3>4. \E B : beside' = [beside EXCEPT ![h] = B]
      BY <3>2, <3>3 DEF Create, WriteRegistration
    <3>5. QED
      BY <1>1, <3>1, <3>3, <3>4 DEF AccountTypes, AccountsTypeOK
  <2>2. Create(h)
    BY <2>1 DEF WriteRegistration, Is
  <2>3. /\ pc[h] = "write" /\ req[h].kind = "create" /\ a \in Named
    BY <1>1, <2>1, <2>2 DEF Create, Is, AccountTypes, AccountsTypeOK
  <2>4. \E f \in met[h] : Given(f, a)
    BY <2>3 DEF NameInv, CreateInv, Is
  <2>5. QED
    BY <1>2, <2>1, <2>3, <2>4, GivenLasts
<1>5. QED
  BY <1>3, <1>4

\* Administrators hand out a free name: users.service.ts create asks
\* validateUsername before it inserts, and since no index guards accounts
\* without a type, only a request that overlapped it may have given the name too.
THEOREM CreationFindsTheNameFree == AccountsSpec => []CreatedNameIsFree
<1>1. AccountsInit => NameInv
  BY DEF AccountsInit, NoRequests, NameInv, CreateInv, CreatedNameIsFree, Is
<1>2. AccountsInv /\ NameInv /\ [AccountsNext]_accountsVars => NameInv'
  <2> SUFFICES ASSUME AccountsInv, NameInv, [AccountsNext]_accountsVars PROVE NameInv'
    OBVIOUS
  <2>1. AccountsOnward
    BY AccountsInvNext
  <2>2. CASE UNCHANGED accountsVars
    BY <2>2 DEF accountsVars, handling, NameInv, CreateInv, CreatedNameIsFree, Given, Named, Is
  <2>3. QED
    BY <2>1, <2>2, CreateInvNext, CreatedNext DEF AccountsNext, NameInv
<1>3. NameInv => CreatedNameIsFree
  BY DEF NameInv
<1>4. QED
  BY <1>1, <1>2, <1>3, AccountsInvariant, PTL DEF AccountsSpec

\* LastTextOpens: an account's code is of a registration that wrote it there,
\* and the one whose text came last is that registration or one it has met,
\* unless that registration's own text is still to come.
Worded == {"text", "done", "untold", "failed"}

CodeInv ==
  \A a \in Accts : acct[a] # NULL => \A c \in Handlers :
    acct[a].code = c => target[c] = a /\ pc[c] \in Worded

TextInv ==
  /\ \A h \in Handlers : pc[h] = "text" =>
       LET c == acct[target[h]].code IN c # NULL /\ (c = h \/ h \in met[c])
  /\ \A a \in Accts : text[a] # NULL =>
       LET c == acct[a].code IN
       /\ acct[a] # NULL /\ c # NULL
       /\ c = text[a] \/ text[a] \in met[c] \/ pc[c] \in {"text", "untold", "failed"}

WordInv == CodeInv /\ TextInv

LEMMA WordedStays ==
  ASSUME AccountsOnward, NEW h \in Handlers, AccountStep(h),
         NEW c \in Handlers, pc[c] \in Worded
  PROVE  /\ pc'[c] \in Worded
         /\ pc[c] \in Ended => pc'[c] = pc[c]
         /\ pc[c] = "text" =>
              \/ pc'[c] \in {"text", "untold", "failed"}
              \/ c = h /\ text' = [text EXCEPT ![target[c]] = c]
<1>1. AccountTypes /\ OnlyOf(h)
  BY AccountStepFits DEF AccountsOnward, AccountsInv, AccountFits
<1>2. CASE pc[c] \in Ended
  BY <1>2 DEF AccountsOnward, Onward, Ended
<1>3. CASE pc[c] = "text" /\ c # h
  BY <1>1, <1>3 DEF OnlyOf, Worded, Ended
<1>4. CASE pc[c] = "text" /\ c = h
  <2>1. req[h].kind = "register"
    BY <1>1, <1>4 DEF AccountTypes, AccountPhase
  <2>2. SendText(h) \/ AccountFail(h)
    BY <1>4 DEF AccountStep, ReceiveAccountOp, Receive, FindEntry, FindAccount, ReadAccount,
       ValidateUsername, WriteRegistration, Create, Move, Reassign, DeleteAcc, WriteEntry,
       SyncAccount, Is
  <2>3. CASE SendText(h)
    BY <1>1, <1>4, <2>3 DEF SendText, Goto, Worded, Ended, AccountTypes, AccountsTypeOK
  <2>4. CASE AccountFail(h)
    BY <1>1, <1>4, <2>4 DEF AccountFail, BreakOff, Goto, Worded, Ended, AccountTypes,
       AccountsTypeOK
  <2>5. QED
    BY <2>2, <2>3, <2>4
<1>5. QED
  BY <1>2, <1>3, <1>4 DEF Worded, Ended

\* A step leaves an account its code, or gives it one and has its text to send.
LEMMA CodeSteps ==
  ASSUME AccountsOnward, NEW h \in Handlers, AccountStep(h),
         NEW a \in Accts, acct'[a] # NULL
  PROVE  \/ acct[a] = NULL /\ acct'[a].code = NULL
         \/ acct[a] # NULL /\ acct'[a].code = acct[a].code
         \/ /\ acct'[a].code = h /\ pc'[h] = "text" /\ target'[h] = a
            /\ pc[h] \in {"write", "sync"} /\ text' = text
<1>1. AccountTypes
  BY DEF AccountsOnward, AccountsInv
<1>2. CASE acct'[a] = acct[a]
  BY <1>2
<1>3. CASE acct'[a] # acct[a]
  <2>1. WritesAt(h, a)
    BY <1>1, <1>3, RowWriters
  <2>2. text' = text
    BY <2>1 DEF WritesAt, WriteRegistration, Create, Move, Reassign, DeleteAcc, SyncAccount
  <2>3. QED
    BY <1>1, <2>1, <2>2, RowsWritten
<1>4. QED
  BY <1>2, <1>3

LEMMA CodeInvNext ==
  ASSUME AccountsOnward, CodeInv, NEW h \in Handlers, AccountStep(h)
  PROVE  CodeInv'
<1> SUFFICES ASSUME NEW a \in Accts, acct'[a] # NULL, NEW c \in Handlers, acct'[a].code = c
             PROVE  target'[c] = a /\ pc'[c] \in Worded
  BY DEF CodeInv
<1>1. CASE c = h /\ pc'[h] = "text" /\ target'[h] = a
  BY <1>1 DEF Worded
<1>2. CASE acct[a] # NULL /\ acct[a].code = c
  <2>1. target[c] = a /\ pc[c] \in Worded
    BY <1>2 DEF CodeInv
  <2>2. target'[c] = a
    BY <2>1, NullIsNone DEF AccountsOnward, Lasting
  <2>3. QED
    BY <2>1, <2>2, WordedStays
<1>3. QED
  BY <1>1, <1>2, CodeSteps, NullIsNone

LEMMA TextInvNext ==
  ASSUME AccountsOnward, WordInv, NEW h \in Handlers, AccountStep(h)
  PROVE  TextInv'
<1> USE NullIsNone
<1>1. AccountTypes /\ AccountTypes' /\ OnlyOf(h)
  BY AccountStepFits DEF AccountsOnward, AccountsInv, AccountFits
<1>2. ASSUME NEW a \in Accts, acct[a] # NULL
      PROVE  acct'[a] # NULL /\ acct'[a].code \in Handlers \cup {NULL}
  BY <1>1, <1>2 DEF OnlyOf, AccountTypes, AccountsTypeOK, Account
<1>3. ASSUME NEW g \in Handlers, pc'[g] = "text", NEW a \in Accts, target'[g] = a
      PROVE  acct'[a].code # NULL /\ (acct'[a].code = g \/ g \in met'[acct'[a].code])
  <2>1. CASE acct'[a].code = g
    BY <2>1
  <2>2. CASE acct'[a].code # g
    <3>1. pc[g] = "text" /\ target[g] = a
      <4>1. CASE g # h
        BY <1>1, <1>3, <4>1 DEF OnlyOf
      <4>2. CASE g = h
        <5>1. \A phase : Goto(h, phase) => pc'[h] = phase
          BY <1>1 DEF Goto, AccountTypes, AccountsTypeOK
        <5>2. ASSUME NEW op \in AccountOps, ReceiveAccountOp(h, op) PROVE FALSE
          BY <1>1, <1>3, <4>2, <5>1, <5>2, AccountOpTypes DEF ReceiveAccountOp, Receive
        <5>3. WriteRegistration(h)
          BY <1>3, <4>2, <5>1, <5>2 DEF AccountStep, FindEntry, FindAccount, ReadAccount,
             ValidateUsername, SendText, Create, Move, Reassign, DeleteAcc, WriteEntry,
             SyncAccount, AccountFail, BreakOff
        <5>4. acct'[RegisteredAt(h)] = Registered(h) /\ target'[h] = RegisteredAt(h)
          BY <1>1, <1>3, <4>2, <5>3, RegistrationWritten DEF AccountTypes, AccountsTypeOK
        <5>5. Registered(h).code = h
          BY <1>1, <5>3, RegisteredRow DEF WriteRegistration
        <5>6. QED
          BY <1>3, <2>2, <4>2, <5>4, <5>5
      <4>3. QED
        BY <4>1, <4>2
    <3>2. /\ acct[a] # NULL /\ acct[a].code # NULL
          /\ acct[a].code = g \/ g \in met[acct[a].code]
      BY <1>1, <3>1 DEF WordInv, TextInv, AccountTypes, TargetPhase
    <3>3. acct[a].code \in Handlers /\ acct'[a] # NULL
      BY <1>1, <1>2, <3>2 DEF AccountTypes, AccountsTypeOK, Account
    <3>4. CASE acct'[a].code = acct[a].code
      <4>1. g \in met[acct[a].code] /\ pc[acct[a].code] # "idle"
        BY <2>2, <3>2, <3>3, <3>4 DEF WordInv, CodeInv, Worded
      <4>2. QED
        BY <3>2, <3>3, <3>4, <4>1 DEF AccountsOnward, Onward
    <3>5. CASE acct'[a].code = h /\ pc[h] \in {"write", "sync"}
      <4>1. g # h
        BY <3>1, <3>5
      <4>2. g \in met'[h]
        BY <3>1, <3>5, <4>1, AtWorkMeet DEF Ended
      <4>3. QED
        BY <3>5, <4>2
    <3>6. QED
      BY <3>2, <3>3, <3>4, <3>5, CodeSteps
  <2>3. QED
    BY <2>1, <2>2
<1>4. ASSUME NEW a \in Accts, text'[a] # NULL
      PROVE  /\ acct'[a] # NULL /\ acct'[a].code # NULL
             /\ \/ acct'[a].code = text'[a]
                \/ text'[a] \in met'[acct'[a].code]
                \/ pc'[acct'[a].code] \in {"text", "untold", "failed"}
  <2>1. CASE text'[a] # text[a]
    <3>1. SendText(h)
      BY <2>1 DEF AccountStep, ReceiveAccountOp, FindEntry, FindAccount, ReadAccount,
         ValidateUsername, WriteRegistration, Create, Move, Reassign, DeleteAcc, WriteEntry,
         SyncAccount, AccountFail, Tables
    <3>2. pc[h] = "text" /\ target[h] = a /\ text'[a] = h /\ UNCHANGED <<acct, met>>
      BY <1>1, <2>1, <3>1 DEF SendText, AccountTypes, AccountsTypeOK
    <3>3. /\ acct[a] # NULL /\ acct[a].code # NULL
          /\ acct[a].code = h \/ h \in met[acct[a].code]
      BY <1>1, <3>2 DEF WordInv, TextInv, AccountTypes, TargetPhase
    <3>4. QED
      BY <3>2, <3>3
  <2>2. CASE text'[a] = text[a]
    <3>1. /\ acct[a] # NULL /\ acct[a].code # NULL
          /\ \/ acct[a].code = text[a]
             \/ text[a] \in met[acct[a].code]
             \/ pc[acct[a].code] \in {"text", "untold", "failed"}
      BY <1>4, <2>2 DEF WordInv, TextInv
    <3>2. acct[a].code \in Handlers /\ acct'[a] # NULL
      BY <1>1, <1>2, <3>1 DEF AccountTypes, AccountsTypeOK, Account
    <3>3. CASE acct'[a].code = acct[a].code
      <4>1. PICK c \in Handlers : c = acct[a].code
        BY <3>2
      <4>2. target[c] = a /\ pc[c] \in Worded /\ pc[c] # "idle"
        BY <3>1, <4>1 DEF WordInv, CodeInv, Worded
      <4>3. CASE c = text[a]
        BY <2>2, <3>1, <3>2, <3>3, <4>1, <4>3
      <4>4. CASE text[a] \in met[c]
        BY <2>2, <3>1, <3>2, <3>3, <4>1, <4>2, <4>4 DEF AccountsOnward, Onward
      <4>5. CASE pc[c] \in {"untold", "failed"}
        <5>1. pc'[c] = pc[c]
          BY <4>2, <4>5, WordedStays DEF Ended
        <5>2. QED
          BY <3>1, <3>2, <3>3, <4>1, <4>5, <5>1
      <4>6. CASE pc[c] = "text"
        <5>1. CASE pc'[c] \in {"text", "untold", "failed"}
          BY <3>1, <3>2, <3>3, <4>1, <5>1
        <5>2. CASE text' = [text EXCEPT ![a] = c]
          <6>1. text'[a] = c
            BY <1>1, <5>2 DEF AccountTypes, AccountsTypeOK
          <6>2. QED
            BY <3>1, <3>2, <3>3, <4>1, <6>1
        <5>3. QED
          BY <4>2, <4>6, <5>1, <5>2, WordedStays
      <4>7. QED
        BY <3>1, <4>1, <4>3, <4>4, <4>5, <4>6
    <3>4. CASE acct'[a].code = h /\ pc'[h] = "text"
      BY <3>2, <3>4
    <3>5. QED
      BY <3>1, <3>2, <3>3, <3>4, CodeSteps
  <2>3. QED
    BY <2>1, <2>2
<1>5. ASSUME NEW g \in Handlers, pc'[g] = "text" PROVE target'[g] \in Accts
  BY <1>1, <1>5 DEF AccountTypes, AccountsTypeOK, TargetPhase
<1>6. QED
  BY <1>3, <1>4, <1>5 DEF TextInv

\* The last text opens the account: however registrations of one phone overlap
\* and texts fail, at rest the code stored is the one texted last, unless its
\* own text was lost or the two registrations overlapped (users.service.ts
\* register stores the password first and texts it afterwards).
THEOREM TextedCodeOpens == AccountsSpec => []LastTextOpens
<1>1. AccountsInit => WordInv
  <2> SUFFICES ASSUME AccountsInit PROVE WordInv
    OBVIOUS
  <2>1. TextInv
    BY DEF AccountsInit, NoRequests, TextInv
  <2>2. \A a \in Accts : acct[a] # NULL => acct[a].code = NULL
    BY DEF AccountsInit
  <2>3. CodeInv
    BY <2>2, NullIsNone DEF CodeInv
  <2>4. QED
    BY <2>1, <2>3 DEF WordInv
<1>2. AccountsInv /\ WordInv /\ [AccountsNext]_accountsVars => WordInv'
  <2> SUFFICES ASSUME AccountsInv, WordInv, [AccountsNext]_accountsVars PROVE WordInv'
    OBVIOUS
  <2>1. AccountsOnward
    BY AccountsInvNext
  <2>2. CASE UNCHANGED accountsVars
    BY <2>2 DEF accountsVars, handling, WordInv, CodeInv, TextInv
  <2>3. QED
    BY <2>1, <2>2, CodeInvNext, TextInvNext DEF AccountsNext, WordInv
<1>3. AccountsInv /\ WordInv => LastTextOpens
  <2> SUFFICES ASSUME AccountsInv, WordInv, Quiet, NEW a \in Accts, acct[a] # NULL,
                      text[a] # NULL, acct[a].code # text[a]
               PROVE  text[a] \in met[acct[a].code] \/ pc[acct[a].code] \in {"untold", "failed"}
    BY DEF LastTextOpens
  <2>1. /\ acct[a].code # NULL
        /\ text[a] \in met[acct[a].code] \/ pc[acct[a].code] \in {"text", "untold", "failed"}
    BY DEF WordInv, TextInv
  <2>2. acct[a].code \in Handlers
    BY <2>1 DEF AccountsInv, AccountTypes, AccountsTypeOK, Account
  <2>3. pc[acct[a].code] # "text"
    BY <2>2 DEF Quiet, InFlight, Ended
  <2>4. QED
    BY <2>1, <2>3
<1>4. QED
  BY <1>1, <1>2, <1>3, AccountsInvariant, PTL DEF AccountsSpec

\* LinkedLotAgrees.  A linked account has the lot of its entry, or one a reassign
\* gave it, or an edit that is about to give it the lot or explains why it has not.
Explained(a, c) ==
  \E e \in Handlers :
    /\ lot[e] # NULL /\ req[e].kind = "edit"
    /\ \/ req[e].customer = c /\ (pc[e] = "failed" \/ target[e] \notin {a, NULL})
       \/ /\ req[e].customer = c \/ target[e] = a
          /\ \E g \in met[e] : Touches(g, a, c)

Syncing(e, a, c) == pc[e] = "sync" /\ target[e] = a /\ req[e].customer = c

LinkInv ==
  \A c \in Customers \ Governments : \A a \in Accts :
    (acct[a] # NULL /\ acct[a].entry = c) =>
      \/ acct[a].lot = entry[c].lot
      \/ given[a]
      \/ Explained(a, c)
      \/ \E e \in Handlers : Syncing(e, a, c)

\* A handler that is to write a lot it read in entry c.
ReadsAt(h, c) ==
  /\ req[h].customer = c
  /\ \/ pc[h] \in {"account", "write"} /\ req[h].kind = "register"
     \/ pc[h] = "write" /\ req[h].kind = "move"

Overtaken(h, c) ==
  \E e \in Handlers : /\ lot[e] # NULL /\ req[e].kind = "edit" /\ req[e].customer = c
                      /\ h \in met[e]

ReadInv ==
  \A c \in Customers \ Governments : \A h \in Handlers :
    ReadsAt(h, c) => lot[h] = entry[c].lot \/ Overtaken(h, c)

SyncInv ==
  \A c \in Customers \ Governments : \A a \in Accts : \A e \in Handlers :
    Syncing(e, a, c) =>
      /\ \/ entry[c].lot = lot[e]
         \/ \E g \in met[e] : req[g].kind = "edit" /\ req[g].customer = c
      /\ \/ acct[a].entry \in {c, NULL}
         \/ \E g \in met[e] : req[g].kind \in {"register", "move"} /\ target[g] = a

LotInv == LinkInv /\ ReadInv /\ SyncInv

LEMMA TouchesLast ==
  ASSUME AccountsOnward, NEW g \in Handlers, pc[g] # "idle", NEW a \in Accts, NEW c,
         Touches(g, a, c)
  PROVE  Touches(g, a, c)'
BY NullIsNone DEF Touches, AccountsOnward, Onward, Lasting

LEMMA ExplainedLasts ==
  ASSUME AccountsOnward, NEW a \in Accts, NEW c, Explained(a, c)
  PROVE  Explained(a, c)'
<1>1. PICK e \in Handlers :
        /\ lot[e] # NULL /\ req[e].kind = "edit"
        /\ \/ req[e].customer = c /\ (pc[e] = "failed" \/ target[e] \notin {a, NULL})
           \/ /\ req[e].customer = c \/ target[e] = a
              /\ \E g \in met[e] : Touches(g, a, c)
  BY DEF Explained
<1>2. /\ lot'[e] # NULL /\ req'[e] = req[e] /\ met[e] \subseteq met'[e]
      /\ target[e] # NULL => target'[e] = target[e]
      /\ pc[e] = "failed" => pc'[e] = "failed"
  BY <1>1, Begun DEF AccountsOnward, Onward, Lasting, Ended
<1>3. CASE req[e].customer = c /\ (pc[e] = "failed" \/ target[e] \notin {a, NULL})
  BY <1>1, <1>2, <1>3 DEF Explained
<1>4. CASE (req[e].customer = c \/ target[e] = a) /\ \E g \in met[e] : Touches(g, a, c)
  <2>1. PICK g \in met[e] : Touches(g, a, c)
    BY <1>4
  <2>2. g \in Handlers /\ pc[g] # "idle"
    BY Begun DEF AccountsOnward
  <2>3. Touches(g, a, c)' /\ g \in met'[e]
    BY <1>2, <2>1, <2>2, TouchesLast
  <2>4. req'[e].customer = c \/ target'[e] = a
    BY <1>2, <1>4, NullIsNone
  <2>5. QED
    BY <1>1, <1>2, <2>3, <2>4 DEF Explained
<1>5. QED
  BY <1>1, <1>3, <1>4

\* A step of h that writes an entry is an edit, which has its lot from then on
\* and passes it on to one of the accounts that are linked to the entry.
LEMMA EntrySteps ==
  ASSUME AccountTypes, AccountTypes', NEW h \in Handlers, AccountStep(h),
         NEW c \in Customers \ Governments, entry'[c] # entry[c]
  PROVE  /\ pc[h] = "write" /\ req[h].kind = "edit" /\ req[h].customer = c
         /\ req'[h] = req[h] /\ lot'[h] # NULL /\ acct' = acct
         /\ entry'[c].lot = lot'[h]
         /\ \/ Linked(c) = {}
            \/ target'[h] \in Linked(c) /\ pc'[h] = "sync"
<1> USE NullIsNone
<1>1. WriteEntry(h)
  <2>1. entry' # entry
    OBVIOUS
  <2>2. QED
    BY <2>1 DEF AccountStep, ReceiveAccountOp, FindEntry, FindAccount, ReadAccount,
       ValidateUsername, WriteRegistration, SendText, Create, Move, Reassign, DeleteAcc,
       SyncAccount, AccountFail, Tables
<1>2. /\ pc[h] = "write" /\ req[h].kind = "edit" /\ UNCHANGED <<req, acct>>
      /\ entry' = [entry EXCEPT ![req[h].customer] =
                     [lot |-> req[h].lot, active |-> req[h].active]]
      /\ lot' = [lot EXCEPT ![h] = req[h].lot]
      /\ \/ Linked(req[h].customer) = {}
         \/ \E a \in Linked(req[h].customer) :
              target' = [target EXCEPT ![h] = a] /\ pc' = [pc EXCEPT ![h] = "sync"]
  BY <1>1 DEF WriteEntry, Is, Goto
<1>3. req[h].lot \in Lots
  BY <1>2, AccountOpTypes DEF AccountTypes, AccountPhase
<1>4. req[h].customer = c
  BY <1>2 DEF AccountTypes, AccountsTypeOK
<1>5. entry'[c].lot = req[h].lot /\ lot'[h] = req[h].lot
  BY <1>2, <1>4 DEF AccountTypes, AccountsTypeOK
<1>6. Linked(c) = {} \/ (target'[h] \in Linked(c) /\ pc'[h] = "sync")
  BY <1>2, <1>4 DEF AccountTypes, AccountsTypeOK
<1>7. QED
  BY <1>2, <1>3, <1>4, <1>5, <1>6

LEMMA OvertakenLasts ==
  ASSUME AccountsOnward, NEW h \in Handlers, NEW c, Overtaken(h, c)
  PROVE  Overtaken(h, c)'
BY Begun DEF Overtaken, AccountsOnward, Onward, Lasting

LEMMA ReadInvNext ==
  ASSUME AccountsOnward, LotInv, NEW h \in Handlers, AccountStep(h)
  PROVE  ReadInv'
<1> SUFFICES ASSUME NEW c \in Customers \ Governments, NEW g \in Handlers, ReadsAt(g, c)'
             PROVE  lot'[g] = entry'[c].lot \/ Overtaken(g, c)'
  BY DEF ReadInv
<1>1. AccountTypes /\ AccountTypes' /\ OnlyOf(h)
  BY AccountStepFits DEF AccountsOnward, AccountsInv, AccountFits
<1>2. CASE ReadsAt(g, c) /\ lot'[g] = lot[g]
  <2>1. lot[g] = entry[c].lot \/ Overtaken(g, c)
    BY <1>2 DEF LotInv, ReadInv
  <2>2. CASE entry'[c] # entry[c]
    <3>1. /\ pc[h] = "write" /\ req[h].kind = "edit" /\ req'[h] = req[h]
          /\ req[h].customer = c /\ lot'[h] # NULL
      BY <1>1, <2>2, EntrySteps
    <3>2. g # h /\ pc[g] \in {"account", "write"}
      BY <1>2, <3>1 DEF ReadsAt
    <3>3. g \in met'[h]
      BY <3>1, <3>2, AtWorkMeet DEF Ended
    <3>4. QED
      BY <3>1, <3>3 DEF Overtaken
  <2>3. CASE entry'[c] = entry[c]
    BY <1>2, <2>1, <2>3, OvertakenLasts
  <2>4. QED
    BY <2>2, <2>3
<1>3. CASE ~(ReadsAt(g, c) /\ lot'[g] = lot[g])
  <2>1. g = h
    BY <1>1, <1>3 DEF OnlyOf, ReadsAt
  <2>2. \A phase : Goto(h, phase) => pc'[h] = phase
    BY <1>1 DEF Goto, AccountTypes, AccountsTypeOK
  <2>3. /\ pc'[h] \in {"account", "write"} /\ req'[h].customer = c
        /\ pc'[h] = "account" => req'[h].kind = "register"
        /\ pc'[h] = "write" => req'[h].kind \in {"register", "move"}
    BY <2>1 DEF ReadsAt
  <2>4. ASSUME NEW op \in AccountOps, ReceiveAccountOp(h, op) PROVE FALSE
    <3>1. req'[h] = op /\ pc'[h] = FirstAwait(op)
      BY <1>1, <2>2, <2>4 DEF ReceiveAccountOp, Receive, AccountTypes, AccountsTypeOK
    <3>2. QED
      BY <2>3, <3>1 DEF FirstAwait
  <2>5. ~(\/ WriteRegistration(h) \/ SendText(h) \/ Create(h) \/ Move(h) \/ Reassign(h)
          \/ DeleteAcc(h) \/ WriteEntry(h) \/ SyncAccount(h) \/ AccountFail(h))
    BY <2>2, <2>3 DEF WriteRegistration, SendText, Create, Move, Reassign, DeleteAcc,
       WriteEntry, SyncAccount, AccountFail, BreakOff
  <2>6. ~ValidateUsername(h)
    BY <2>2, <2>3 DEF ValidateUsername, Is, local
  <2>7. ~FindAccount(h)
    BY <1>3, <2>1, <2>3 DEF FindAccount, ReadsAt, Is
  <2>8. ~ReadAccount(h)
    BY <2>2, <2>3 DEF ReadAccount
  <2>9. FindEntry(h)
    BY <2>4, <2>5, <2>6, <2>7, <2>8 DEF AccountStep
  <2>10. /\ pc'[h] # "refused" /\ UNCHANGED <<req, entry>>
    BY <2>3, <2>9 DEF FindEntry, Tables
  <2>11. lot'[h] = entry[c].lot
    BY <1>1, <2>2, <2>3, <2>9, <2>10 DEF FindEntry, AccountTypes, AccountsTypeOK
  <2>12. QED
    BY <2>1, <2>10, <2>11
<1>4. QED
  BY <1>2, <1>3

LEMMA SyncInvNext ==
  ASSUME AccountsOnward, LotInv, NEW h \in Handlers, AccountStep(h)
  PROVE  SyncInv'
<1> SUFFICES ASSUME NEW c \in Customers \ Governments, NEW a \in Accts, NEW e \in Handlers,
                    Syncing(e, a, c)'
             PROVE  /\ \/ entry'[c].lot = lot'[e]
                       \/ \E g \in met'[e] : req'[g].kind = "edit" /\ req'[g].customer = c
                    /\ \/ acct'[a].entry \in {c, NULL}
                       \/ \E g \in met'[e] : /\ req'[g].kind \in {"register", "move"}
                                             /\ target'[g] = a
  BY DEF SyncInv
<1> USE NullIsNone
<1>1. AccountTypes /\ AccountTypes' /\ OnlyOf(h)
  BY AccountStepFits DEF AccountsOnward, AccountsInv, AccountFits
<1>2. ASSUME NEW g \in met[e], pc[e] # "idle"
      PROVE  /\ g \in met'[e] /\ req'[g] = req[g]
             /\ target[g] = a => target'[g] = a
  <2>1. g \in Handlers /\ pc[g] # "idle"
    BY Begun DEF AccountsOnward
  <2>2. QED
    BY <1>2, <2>1 DEF AccountsOnward, Onward, Lasting
<1>3. CASE e # h
  <2>1. /\ Syncing(e, a, c) /\ lot'[e] = lot[e] /\ acct[a] # NULL
    BY <1>1, <1>3 DEF OnlyOf, Syncing, AccountTypes, TargetPhase
  <2>2. pc[e] = "sync" /\ pc[e] # "idle"
    BY <2>1 DEF Syncing
  <2>3. entry'[c].lot = lot'[e] \/ \E g \in met'[e] : req'[g].kind = "edit" /\ req'[g].customer = c
    <3>1. CASE entry'[c] # entry[c]
      <4>1. pc[h] = "write" /\ req[h].kind = "edit" /\ req[h].customer = c /\ req'[h] = req[h]
        BY <1>1, <3>1, EntrySteps
      <4>2. h \in met'[e]
        BY <1>3, <2>2, <4>1, AtWorkMeet DEF Ended
      <4>3. QED
        BY <4>1, <4>2
    <3>2. CASE entry'[c] = entry[c]
      <4>1. entry[c].lot = lot[e] \/ \E g \in met[e] : req[g].kind = "edit" /\ req[g].customer = c
        BY <2>1 DEF LotInv, SyncInv
      <4>2. QED
        BY <1>2, <2>1, <2>2, <3>2, <4>1
    <3>3. QED
      BY <3>1, <3>2
  <2>4. \/ acct'[a].entry \in {c, NULL}
        \/ \E g \in met'[e] : req'[g].kind \in {"register", "move"} /\ target'[g] = a
    <3>1. \/ acct[a].entry \in {c, NULL}
          \/ \E g \in met[e] : req[g].kind \in {"register", "move"} /\ target[g] = a
      BY <2>1 DEF LotInv, SyncInv
    <3>2. CASE \E g \in met[e] : req[g].kind \in {"register", "move"} /\ target[g] = a
      BY <1>2, <2>2, <3>2
    <3>3. CASE acct[a].entry \in {c, NULL} /\ acct'[a].entry = acct[a].entry
      BY <3>3
    <3>4. CASE acct'[a].entry # acct[a].entry
      <4>1. WritesAt(h, a)
        BY <1>1, <3>4, RowWriters
      <4>2. CASE acct'[a].entry # NULL
        <5>1. /\ req[h].kind \in {"register", "move"} /\ target'[h] = a
              /\ pc[h] = "write" /\ req'[h] = req[h]
          BY <1>1, <2>1, <3>4, <4>1, <4>2, RowsWritten
        <5>2. h \in met'[e]
          BY <1>3, <2>2, <5>1, AtWorkMeet DEF Ended
        <5>3. QED
          BY <5>1, <5>2
      <4>3. QED
        BY <4>2
    <3>5. QED
      BY <3>1, <3>2, <3>3, <3>4
  <2>5. QED
    BY <2>3, <2>4
<1>4. CASE e = h
  <2>1. WriteEntry(h)
    <3>1. pc'[h] = "sync"
      BY <1>4 DEF Syncing
    <3>2. \A phase : Goto(h, phase) => pc'[h] = phase
      BY <1>1 DEF Goto, AccountTypes, AccountsTypeOK
    <3>3. ASSUME NEW op \in AccountOps, ReceiveAccountOp(h, op) PROVE FALSE
      BY <3>1, <3>2, <3>3, AccountOpTypes DEF ReceiveAccountOp, Receive
    <3>4. QED
      BY <3>1, <3>2, <3>3 DEF AccountStep, FindEntry, FindAccount, ReadAccount,
         ValidateUsername, WriteRegistration, SendText, Create, Move, Reassign, DeleteAcc,
         SyncAccount, AccountFail, BreakOff
  <2>2. req'[h].customer = c /\ req[h].customer = c /\ target'[h] = a /\ pc'[h] = "sync"
    BY <1>4, <2>1 DEF Syncing, WriteEntry
  <2>3. entry'[c].lot = lot'[h]
    BY <1>1, <2>1, <2>2 DEF WriteEntry, AccountTypes, AccountsTypeOK
  <2>4. a \in Linked(c) /\ acct' = acct
    BY <1>1, <2>1, <2>2 DEF WriteEntry, Goto, AccountTypes, AccountsTypeOK
  <2>5. QED
    BY <1>4, <2>3, <2>4 DEF Linked
<1>5. QED
  BY <1>3, <1>4

LEMMA LinkInvNext ==
  ASSUME AccountsOnward, LotInv, NEW h \in Handlers, AccountStep(h)
  PROVE  LinkInv'
<1> SUFFICES ASSUME NEW c \in Customers \ Governments, NEW a \in Accts,
                    acct'[a] # NULL, acct'[a].entry = c, ~given'[a]
             PROVE  \/ acct'[a].lot = entry'[c].lot
                    \/ Explained(a, c)'
                    \/ \E e \in Handlers : Syncing(e, a, c)'
  BY DEF LinkInv
<1> USE NullIsNone
<1>1. AccountTypes /\ AccountTypes' /\ OnlyOf(h)
  BY AccountStepFits DEF AccountsOnward, AccountsInv, AccountFits
<1>2. CASE entry'[c] # entry[c]
  <2>1. /\ req'[h] = req[h] /\ req[h].kind = "edit" /\ req[h].customer = c
        /\ lot'[h] # NULL /\ acct' = acct
        /\ Linked(c) = {} \/ (target'[h] \in Linked(c) /\ pc'[h] = "sync")
    BY <1>1, <1>2, EntrySteps
  <2>2. a \in Linked(c)
    BY <2>1 DEF Linked
  <2>3. target'[h] \in Accts /\ pc'[h] = "sync"
    BY <2>1, <2>2 DEF Linked
  <2>4. CASE target'[h] = a
    BY <2>1, <2>3, <2>4 DEF Syncing
  <2>5. CASE target'[h] # a
    BY <2>1, <2>3, <2>5 DEF Explained
  <2>6. QED
    BY <2>4, <2>5
<1>3. CASE /\ entry'[c] = entry[c] /\ acct[a] # NULL /\ acct'[a].entry = acct[a].entry
           /\ acct'[a].lot = acct[a].lot /\ given'[a] = given[a]
           /\ ~(SyncAccount(h) /\ target[h] = a)
  <2>1. acct[a].lot = entry[c].lot \/ Explained(a, c) \/ \E e \in Handlers : Syncing(e, a, c)
    BY <1>3 DEF LotInv, LinkInv
  <2>2. CASE acct[a].lot = entry[c].lot
    BY <1>3, <2>2
  <2>3. CASE Explained(a, c)
    BY <2>3, ExplainedLasts
  <2>4. ASSUME NEW e \in Handlers, Syncing(e, a, c)
        PROVE  Explained(a, c)' \/ Syncing(e, a, c)'
    <3>1. /\ pc[e] = "sync" /\ target[e] = a /\ req[e].customer = c
          /\ req[e].kind = "edit" /\ lot[e] # NULL
      BY <1>1, <2>4 DEF Syncing, AccountTypes, AccountPhase, LotPhase
    <3>2. target'[e] = a /\ req'[e] = req[e] /\ lot'[e] # NULL
      BY <3>1 DEF AccountsOnward, Onward, Lasting
    <3>3. CASE e # h
      BY <1>1, <3>1, <3>2, <3>3 DEF OnlyOf, Syncing
    <3>4. CASE e = h
      <4>1. AccountFail(h)
        BY <1>3, <3>1, <3>4 DEF AccountStep, ReceiveAccountOp, Receive, FindEntry, FindAccount,
           ReadAccount, ValidateUsername, WriteRegistration, SendText, Create, Move, Reassign,
           DeleteAcc, WriteEntry, Is
      <4>2. pc'[e] = "failed"
        BY <1>1, <3>4, <4>1 DEF AccountFail, BreakOff, Goto, AccountTypes, AccountsTypeOK
      <4>3. QED
        BY <3>1, <3>2, <4>2 DEF Explained
    <3>5. QED
      BY <3>3, <3>4
  <2>5. QED
    BY <2>1, <2>2, <2>3, <2>4
<1>4. CASE SyncAccount(h) /\ target[h] = a
  <2>1. /\ pc[h] = "sync" /\ req[h].kind = "edit" /\ lot[h] # NULL
        /\ UNCHANGED <<entry, req, target, lot, met>>
    BY <1>1, <1>4 DEF SyncAccount, local, AccountTypes, AccountPhase, LotPhase
  <2>2. /\ acct'[a].lot = lot[h] /\ acct[a] # NULL /\ acct[a].entry = c
    <3>1. acct[a] \in Account /\ acct'[a] = [acct[a] EXCEPT !.lot = lot[h]]
      BY <1>1, <1>4, SyncedRow
    <3>2. QED
      BY <3>1 DEF Account
  <2>3. req[h].customer \in Customers \ Governments
    BY <1>1, <2>1, AccountOpTypes DEF AccountTypes, AccountPhase
  <2>4. Syncing(h, a, req[h].customer)
    BY <1>4, <2>1 DEF Syncing
  <2>5. ASSUME NEW g \in met[h], Touches(g, a, c) PROVE Explained(a, c)'
    <3>1. Explained(a, c)
      BY <1>4, <2>1, <2>5 DEF Explained
    <3>2. QED
      BY <3>1, ExplainedLasts
  <2>6. \/ acct[a].entry \in {req[h].customer, NULL}
        \/ \E g \in met[h] : req[g].kind \in {"register", "move"} /\ target[g] = a
    BY <2>3, <2>4 DEF LotInv, SyncInv
  <2>7. CASE req[h].customer = c
    <3>1. \/ entry[c].lot = lot[h]
          \/ \E g \in met[h] : req[g].kind = "edit" /\ req[g].customer = c
      BY <2>3, <2>4, <2>7 DEF LotInv, SyncInv
    <3>2. QED
      BY <2>1, <2>2, <2>5, <3>1 DEF Touches
  <2>8. CASE req[h].customer # c
    BY <2>2, <2>5, <2>6, <2>8 DEF Touches
  <2>9. QED
    BY <2>7, <2>8
<1>5. CASE /\ entry'[c] = entry[c] /\ ~(SyncAccount(h) /\ target[h] = a)
           /\ ~(/\ acct[a] # NULL /\ acct'[a].entry = acct[a].entry
                /\ acct'[a].lot = acct[a].lot /\ given'[a] = given[a])
  <2>1. WritesAt(h, a)
    BY <1>1, <1>5, RowWriters
  <2>2. ~SyncAccount(h)
    <3>1. SyncAccount(h) => pc[h] = "sync"
      BY DEF SyncAccount
    <3>2. pc[h] = "sync" => a = target[h]
      BY <2>1 DEF WritesAt, WriteRegistration, Create, Is
    <3>3. QED
      BY <1>5, <3>1, <3>2
  <2>3. /\ req[h].kind \in {"register", "move"} /\ target'[h] = a /\ req'[h] = req[h]
        /\ pc[h] = "write" /\ req[h].customer = c /\ acct'[a].lot = lot[h]
    BY <1>1, <1>5, <2>1, <2>2, RowsWritten
  <2>4. ReadsAt(h, c)
    BY <2>3 DEF ReadsAt
  <2>5. lot[h] = entry[c].lot \/ Overtaken(h, c)
    BY <2>4 DEF LotInv, ReadInv
  <2>6. CASE Overtaken(h, c)
    <3>1. Overtaken(h, c)'
      BY <2>6, OvertakenLasts
    <3>2. Touches(h, a, c)'
      BY <2>3 DEF Touches
    <3>3. QED
      BY <3>1, <3>2 DEF Overtaken, Explained
  <2>7. QED
    BY <1>5, <2>3, <2>5, <2>6
<1>6. QED
  BY <1>2, <1>3, <1>4, <1>5

\* Residents have the lot their customer's list gives them: at rest an account
\* and the entry it is linked to agree, unless a reassign gave the account a lot
\* of its own (users.service.ts update) or an edit of the list broke off, met
\* another writer of the two, or followed the other of two linked accounts
\* (authorized-users.service.ts update, which writes one after the other).
THEOREM LotsAgreeAtRest == AccountsSpec => []LinkedLotAgrees
<1>1. AccountsInit => LotInv
  <2> SUFFICES ASSUME AccountsInit PROVE LotInv
    OBVIOUS
  <2>1. ReadInv /\ SyncInv
    BY DEF AccountsInit, NoRequests, ReadInv, SyncInv, ReadsAt, Syncing
  <2>2. \A a \in Accts : acct[a] # NULL => acct[a].lot = entry[acct[a].entry].lot
    BY DEF AccountsInit
  <2>3. QED
    BY <2>1, <2>2 DEF LotInv, LinkInv
<1>2. AccountsInv /\ LotInv /\ [AccountsNext]_accountsVars => LotInv'
  <2> SUFFICES ASSUME AccountsInv, LotInv, [AccountsNext]_accountsVars PROVE LotInv'
    OBVIOUS
  <2>1. AccountsOnward
    BY AccountsInvNext
  <2>2. CASE UNCHANGED accountsVars
    <3>1. LinkInv'
      BY <2>2 DEF accountsVars, handling, LotInv, LinkInv, Explained, Syncing, Touches
    <3>2. ReadInv' /\ SyncInv'
      BY <2>2 DEF accountsVars, handling, LotInv, ReadInv, SyncInv, ReadsAt, Overtaken, Syncing
    <3>3. QED
      BY <3>1, <3>2 DEF LotInv
  <2>3. QED
    BY <2>1, <2>2, LinkInvNext, ReadInvNext, SyncInvNext DEF AccountsNext, LotInv
<1>3. LotInv => LinkedLotAgrees
  <2> SUFFICES ASSUME LotInv, Quiet, NEW c \in Customers \ Governments, NEW a \in Linked(c)
               PROVE  acct[a].lot = entry[c].lot \/ given[a] \/ Explained(a, c)
    BY DEF LinkedLotAgrees, Explained
  <2>1. a \in Accts /\ acct[a] # NULL /\ acct[a].entry = c
    BY DEF Linked
  <2>2. \A e \in Handlers : ~Syncing(e, a, c)
    BY DEF Quiet, InFlight, Syncing, Ended
  <2>3. QED
    BY <2>1, <2>2 DEF LotInv, LinkInv
<1>4. QED
  BY <1>1, <1>2, <1>3, AccountsInvariant, PTL DEF AccountsSpec


-----------------------------------------------------------------------------
(* Credentials *)

PasswordPhases == {"idle", "find", "write", "mail", "delete"} \cup Ended

\* What a handler's next await says of what it has done.
PasswordPhase(h) ==
  /\ pc[h] # "idle" => req[h] \in PasswordOps
  /\ pc[h] = "mail" => req[h].kind = "request"
  /\ pc[h] = "delete" => req[h].kind = "reset"
  /\ pc[h] \in {"delete", "late"} => h \in wrote
  /\ h \in wrote => pc[h] \in {"delete", "done", "late", "failed"}
  /\ h \in mailed => pc[h] = "done"
  /\ pc[h] # "idle" /\ req[h].kind = "reset" => req[h].uses \in mailed

PasswordTypes == CredentialsTypeOK /\ \A h \in Handlers : PasswordPhase(h)

LEMMA PasswordOpTypes ==
  ASSUME NEW op \in PasswordOps
  PROVE  /\ op.kind \in {"reset", "change", "request", "register"}
         /\ op.kind = "reset" => op.uses \in Handlers
BY CredentialsAssumption DEF PasswordOp

LEMMA PasswordTypesInit == CredentialsInit => PasswordTypes
BY DEF CredentialsInit, NoRequests, PasswordTypes, CredentialsTypeOK, PasswordPhase, Ended

LEMMA PasswordTypesNext == PasswordTypes /\ [CredentialsNext]_credentialsVars => PasswordTypes'
<1> SUFFICES ASSUME PasswordTypes, [CredentialsNext]_credentialsVars PROVE PasswordTypes'
  OBVIOUS
<1> USE CredentialsAssumption, PasswordOpTypes
    DEF PasswordTypes, CredentialsTypeOK, PasswordPhase, Ended, Goto, Is, tables, history
<1>1. CASE Expire
  <2>1. row' \in Token
    BY <1>1 DEF Expire, Token
  <2>2. QED
    BY <1>1, <2>1 DEF Expire
<1>2. ASSUME NEW h \in Handlers, NEW op \in PasswordOps, ReceivePasswordOp(h, op)
      PROVE  PasswordTypes'
  BY <1>2 DEF ReceivePasswordOp, Receive, InFlight
<1>3. ASSUME NEW h \in Handlers, FindUser(h) PROVE PasswordTypes'
  BY <1>3 DEF FindUser
<1>4. ASSUME NEW h \in Handlers, FindToken(h) PROVE PasswordTypes'
  BY <1>4 DEF FindToken, Token
<1>5. ASSUME NEW h \in Handlers, CreatePasswordRecoveryToken(h) PROVE PasswordTypes'
  <2>1. row' \in Token
    BY <1>5 DEF CreatePasswordRecoveryToken, Token
  <2>2. QED
    BY <1>5, <2>1 DEF CreatePasswordRecoveryToken
<1>6. ASSUME NEW h \in Handlers, SendEmail(h) PROVE PasswordTypes'
  BY <1>6 DEF SendEmail
<1>7. ASSUME NEW h \in Handlers, WritePassword(h) PROVE PasswordTypes'
  BY <1>7 DEF WritePassword
<1>8. ASSUME NEW h \in Handlers, DeleteToken(h) PROVE PasswordTypes'
  BY <1>8 DEF DeleteToken
<1>9. ASSUME NEW h \in Handlers, PasswordFail(h) PROVE PasswordTypes'
  BY <1>9 DEF PasswordFail, BreakOff, InFlight
<1>10. CASE UNCHANGED credentialsVars
  BY <1>10 DEF credentialsVars, handling
<1>11. QED
  BY <1>1, <1>2, <1>3, <1>4, <1>5, <1>6, <1>7, <1>8, <1>9, <1>10
  DEF CredentialsNext, PasswordStep

-----------------------------------------------------------------------------
LEMMA PasswordHandling ==
  ASSUME PasswordTypes, [CredentialsNext]_credentialsVars
  PROVE  HandlingOK /\ HandlingNext
<1>1. HandlingOK
  BY DEF PasswordTypes, CredentialsTypeOK, HandlingOK
<1>2. ASSUME NEW h \in Handlers, NEW op \in PasswordOps, ReceivePasswordOp(h, op)
      PROVE  Handles(h)
  BY <1>2 DEF ReceivePasswordOp, Handles
<1>3. ASSUME NEW h \in Handlers,
             \/ FindUser(h) \/ FindToken(h) \/ CreatePasswordRecoveryToken(h) \/ SendEmail(h)
             \/ WritePassword(h) \/ DeleteToken(h) \/ PasswordFail(h)
      PROVE  Handles(h)
  <2>1. h \in InFlight /\ UNCHANGED <<req, met>>
    BY <1>3 DEF FindUser, FindToken, CreatePasswordRecoveryToken, SendEmail, WritePassword,
       DeleteToken, PasswordFail, BreakOff, InFlight, Is, Ended
  <2>2. \/ Goto(h, "write") \/ Goto(h, "refused") \/ Goto(h, "mail") \/ Goto(h, "done")
        \/ Goto(h, "delete") \/ Goto(h, "late") \/ Goto(h, "failed")
    BY <1>3 DEF FindUser, FindToken, CreatePasswordRecoveryToken, SendEmail, WritePassword,
       DeleteToken, PasswordFail, BreakOff
  <2>3. QED
    BY <2>1, <2>2 DEF Handles
<1>4. Expire \/ UNCHANGED credentialsVars => UNCHANGED handling
  BY DEF Expire, credentialsVars, handling
<1>5. QED
  BY <1>1, <1>2, <1>3, <1>4 DEF CredentialsNext, PasswordStep, HandlingNext

\* A "change" that is to write has proved the password in force, or has met who
\* replaced it since.
PasswordInv ==
  \A h \in Handlers : (pc[h] = "write" /\ req[h].kind = "change") =>
    password = req[h].uses \/ password \in met[h]

\* A "reset" that is to write or to delete has seen the row that holds its token;
\* it has met who put another token into the table and who deleted the row.
TokenInv ==
  \A h \in Handlers : (pc[h] \in {"write", "delete"} /\ req[h].kind = "reset") =>
    /\ row # NULL /\ row.token = req[h].uses => row.id = seen[h]
    /\ row # NULL /\ row.token # req[h].uses => row.token \in met[h]
    /\ \/ row # NULL /\ row.id = seen[h]
       \/ \E g \in met[h] \cap wrote : req[g].kind = "reset" /\ pc[g] = "done"

\* An answered reset has taken its token out of the table.
GoneInv ==
  \A h \in Handlers :
    (/\ pc[h] \in {"done", "late"} /\ req[h].kind = "reset"
     /\ row # NULL) => row.token # req[h].uses

\* The table holds the newest token, or none.
NewestInv == row # NULL => row.token = newest

RaceInv == MetInv /\ PasswordInv /\ TokenInv /\ GoneInv /\ NewestInv

LEMMA PasswordNext ==
  PasswordTypes /\ MetInv /\ PasswordInv /\ [CredentialsNext]_credentialsVars => PasswordInv'
<1> SUFFICES ASSUME PasswordTypes, MetInv, PasswordInv,
                    [CredentialsNext]_credentialsVars
             PROVE  PasswordInv'
  OBVIOUS
<1> USE DEF PasswordTypes, CredentialsTypeOK, PasswordPhase, MetInv, PasswordInv,
        InFlight, Goto, Is, Ended, tables, history
<1>1. CASE Expire
  BY <1>1 DEF Expire
<1>2. ASSUME NEW h \in Handlers, NEW op \in PasswordOps, ReceivePasswordOp(h, op)
      PROVE  PasswordInv'
  BY <1>2 DEF ReceivePasswordOp, Receive
<1>3. ASSUME NEW h \in Handlers, FindUser(h) PROVE PasswordInv'
  BY <1>3 DEF FindUser
<1>4. ASSUME NEW h \in Handlers, FindToken(h) PROVE PasswordInv'
  BY <1>4 DEF FindToken
<1>5. ASSUME NEW h \in Handlers, CreatePasswordRecoveryToken(h) PROVE PasswordInv'
  BY <1>5 DEF CreatePasswordRecoveryToken
<1>6. ASSUME NEW h \in Handlers, SendEmail(h) PROVE PasswordInv'
  BY <1>6 DEF SendEmail
<1>7. ASSUME NEW h \in Handlers, WritePassword(h) PROVE PasswordInv'
  BY <1>7 DEF WritePassword
<1>8. ASSUME NEW h \in Handlers, DeleteToken(h) PROVE PasswordInv'
  BY <1>8 DEF DeleteToken
<1>9. ASSUME NEW h \in Handlers, PasswordFail(h) PROVE PasswordInv'
  BY <1>9 DEF PasswordFail, BreakOff
<1>10. CASE UNCHANGED credentialsVars
  BY <1>10 DEF credentialsVars, handling
<1>11. QED
  BY <1>1, <1>2, <1>3, <1>4, <1>5, <1>6, <1>7, <1>8, <1>9, <1>10
  DEF CredentialsNext, PasswordStep

LEMMA ExpiredToken ==
  ASSUME NEW t \in Token
  PROVE  /\ [t EXCEPT !.expired = TRUE] \in Token
         /\ [t EXCEPT !.expired = TRUE].token = t.token
         /\ [t EXCEPT !.expired = TRUE].id = t.id
BY DEF Token

LEMMA RowExpires ==
  ASSUME CredentialsTypeOK, Expire
  PROVE  row # NULL /\ row' # NULL /\ row'.token = row.token /\ row'.id = row.id
<1>1. row \in Token /\ row' = [row EXCEPT !.expired = TRUE]
  BY DEF CredentialsTypeOK, Expire
<1>2. row' \in Token /\ row'.token = row.token /\ row'.id = row.id
  BY <1>1, ExpiredToken
<1>3. QED
  BY <1>1, <1>2, CredentialsAssumption

LEMMA RowCreated ==
  ASSUME CredentialsTypeOK, NEW h \in Handlers, CreatePasswordRecoveryToken(h)
  PROVE  row' # NULL /\ row'.token = h /\ (row # NULL => row'.id = row.id)
<1>1. row' = [id |-> IF row = NULL THEN h ELSE row.id, token |-> h, expired |-> FALSE]
  BY DEF CreatePasswordRecoveryToken
<1>2. row # NULL => row.id \in Handlers
  BY DEF CredentialsTypeOK, Token
<1>3. row' \in Token
  BY <1>1, <1>2 DEF Token
<1>4. row'.token = h /\ (row # NULL => row'.id = row.id)
  BY <1>1
<1>5. QED
  BY <1>3, <1>4, CredentialsAssumption

LEMMA TokenNext ==
  PasswordTypes /\ MetInv /\ TokenInv /\ [CredentialsNext]_credentialsVars => TokenInv'
<1> SUFFICES ASSUME PasswordTypes, MetInv, TokenInv,
                    [CredentialsNext]_credentialsVars
             PROVE  TokenInv'
  OBVIOUS
<1> USE CredentialsAssumption, PasswordOpTypes
    DEF PasswordTypes, CredentialsTypeOK, PasswordPhase, MetInv, TokenInv,
        InFlight, Goto, Is, Ended, tables, history
<1>1. CASE Expire
  <2>1. row # NULL /\ row' # NULL /\ row'.token = row.token /\ row'.id = row.id
    BY <1>1, RowExpires DEF PasswordTypes
  <2>2. pc' = pc /\ req' = req /\ seen' = seen /\ met' = met /\ wrote' = wrote /\ newest' = newest
    BY <1>1 DEF Expire
  <2>3. QED
    BY <2>1, <2>2
<1>2. ASSUME NEW h \in Handlers, NEW op \in PasswordOps, ReceivePasswordOp(h, op)
      PROVE  TokenInv'
  BY <1>2 DEF ReceivePasswordOp, Receive
<1>3. ASSUME NEW h \in Handlers, FindUser(h) PROVE TokenInv'
  BY <1>3 DEF FindUser
<1>4. ASSUME NEW h \in Handlers, FindToken(h) PROVE TokenInv'
  BY <1>4 DEF FindToken
<1>5. ASSUME NEW h \in Handlers, CreatePasswordRecoveryToken(h) PROVE TokenInv'
  <2>1. row' # NULL /\ row'.token = h /\ (row # NULL => row'.id = row.id)
    BY <1>5, RowCreated DEF PasswordTypes
  <2>2. /\ pc[h] = "write" /\ req[h].kind = "request"
        /\ pc' = [pc EXCEPT ![h] = "mail"]
        /\ req' = req /\ seen' = seen /\ met' = met /\ wrote' = wrote
    BY <1>5 DEF CreatePasswordRecoveryToken
  <2>3. SUFFICES ASSUME NEW g \in Handlers, pc'[g] \in {"write", "delete"},
                        req[g].kind = "reset"
                 PROVE  /\ row'.token # req[g].uses /\ row'.token \in met[g]
                        /\ \/ row'.id = seen[g]
                           \/ \E f \in met[g] \cap wrote : req[f].kind = "reset" /\ pc'[f] = "done"
    BY <2>1, <2>2
  <2>4. g # h /\ pc[g] = pc'[g] /\ h \in met[g]
    BY <2>2, <2>3
  <2>5. req[g].uses # h
    BY <2>2, <2>3, <2>4
  <2>6. \A f \in Handlers : pc[f] = "done" => pc'[f] = "done"
    BY <2>2
  <2>7. QED
    BY <2>1, <2>2, <2>3, <2>4, <2>5, <2>6
<1>6. ASSUME NEW h \in Handlers, SendEmail(h) PROVE TokenInv'
  BY <1>6 DEF SendEmail
<1>7. ASSUME NEW h \in Handlers, WritePassword(h) PROVE TokenInv'
  BY <1>7 DEF WritePassword
<1>8. ASSUME NEW h \in Handlers, DeleteToken(h) PROVE TokenInv'
  BY <1>8 DEF DeleteToken
<1>9. ASSUME NEW h \in Handlers, PasswordFail(h) PROVE TokenInv'
  BY <1>9 DEF PasswordFail, BreakOff
<1>10. CASE UNCHANGED credentialsVars
  BY <1>10 DEF credentialsVars, handling
<1>11. QED
  BY <1>1, <1>2, <1>3, <1>4, <1>5, <1>6, <1>7, <1>8, <1>9, <1>10
  DEF CredentialsNext, PasswordStep

LEMMA GoneNext ==
  PasswordTypes /\ TokenInv /\ GoneInv /\ NewestInv /\ [CredentialsNext]_credentialsVars
    => GoneInv' /\ NewestInv'
<1> SUFFICES ASSUME PasswordTypes, TokenInv, GoneInv, NewestInv,
                    [CredentialsNext]_credentialsVars
             PROVE  GoneInv' /\ NewestInv'
  OBVIOUS
<1> USE CredentialsAssumption, PasswordOpTypes
    DEF PasswordTypes, CredentialsTypeOK, PasswordPhase, GoneInv, NewestInv,
        InFlight, Goto, Is, Ended, tables, history
<1>1. CASE Expire
  <2>1. row # NULL /\ row' # NULL /\ row'.token = row.token /\ row'.id = row.id
    BY <1>1, RowExpires DEF PasswordTypes
  <2>2. pc' = pc /\ req' = req /\ seen' = seen /\ met' = met /\ wrote' = wrote /\ newest' = newest
    BY <1>1 DEF Expire
  <2>3. QED
    BY <2>1, <2>2
<1>2. ASSUME NEW h \in Handlers, NEW op \in PasswordOps, ReceivePasswordOp(h, op)
      PROVE  GoneInv' /\ NewestInv'
  BY <1>2 DEF ReceivePasswordOp, Receive
<1>3. ASSUME NEW h \in Handlers, FindUser(h) PROVE GoneInv' /\ NewestInv'
  BY <1>3 DEF FindUser
<1>4. ASSUME NEW h \in Handlers, FindToken(h) PROVE GoneInv' /\ NewestInv'
  BY <1>4 DEF FindToken
<1>5. ASSUME NEW h \in Handlers, CreatePasswordRecoveryToken(h) PROVE GoneInv' /\ NewestInv'
  <2>1. row' \in Token /\ row'.token = h
    BY <1>5 DEF CreatePasswordRecoveryToken, Token
  <2>2. QED
    BY <1>5, <2>1 DEF CreatePasswordRecoveryToken
<1>6. ASSUME NEW h \in Handlers, SendEmail(h) PROVE GoneInv' /\ NewestInv'
  BY <1>6 DEF SendEmail
<1>7. ASSUME NEW h \in Handlers, WritePassword(h) PROVE GoneInv' /\ NewestInv'
  BY <1>7 DEF WritePassword
<1>8. ASSUME NEW h \in Handlers, DeleteToken(h) PROVE GoneInv' /\ NewestInv'
  BY <1>8 DEF DeleteToken, TokenInv
<1>9. ASSUME NEW h \in Handlers, PasswordFail(h) PROVE GoneInv' /\ NewestInv'
  BY <1>9 DEF PasswordFail, BreakOff
<1>10. CASE UNCHANGED credentialsVars
  BY <1>10 DEF credentialsVars, handling
<1>11. QED
  BY <1>1, <1>2, <1>3, <1>4, <1>5, <1>6, <1>7, <1>8, <1>9, <1>10
  DEF CredentialsNext, PasswordStep
-----------------------------------------------------------------------------
\* What a handler has asked, written and met stays so.
LEMMA PasswordMonotone ==
  ASSUME PasswordTypes, [CredentialsNext]_credentialsVars
  PROVE  /\ wrote \subseteq wrote'
         /\ \A h \in Handlers : pc[h] # "idle" =>
              /\ req'[h] = req[h] /\ met[h] \subseteq met'[h]
              /\ pc[h] \in Ended => pc'[h] = pc[h]
<1> USE DEF PasswordTypes, CredentialsTypeOK, InFlight, Goto, Is, Ended, tables, history
<1> DEFINE Stays == /\ wrote \subseteq wrote'
                    /\ \A h \in Handlers : pc[h] # "idle" =>
                         /\ req'[h] = req[h] /\ met[h] \subseteq met'[h]
                         /\ pc[h] \in Ended => pc'[h] = pc[h]
<1>1. CASE Expire
  BY <1>1 DEF Expire
<1>2. ASSUME NEW h \in Handlers, NEW op \in PasswordOps, ReceivePasswordOp(h, op) PROVE Stays
  BY <1>2 DEF ReceivePasswordOp, Receive
<1>3. ASSUME NEW h \in Handlers, FindUser(h) PROVE Stays
  BY <1>3 DEF FindUser
<1>4. ASSUME NEW h \in Handlers, FindToken(h) PROVE Stays
  BY <1>4 DEF FindToken
<1>5. ASSUME NEW h \in Handlers, CreatePasswordRecoveryToken(h) PROVE Stays
  BY <1>5 DEF CreatePasswordRecoveryToken
<1>6. ASSUME NEW h \in Handlers, SendEmail(h) PROVE Stays
  BY <1>6 DEF SendEmail
<1>7. ASSUME NEW h \in Handlers, WritePassword(h) PROVE Stays
  BY <1>7 DEF WritePassword
<1>8. ASSUME NEW h \in Handlers, DeleteToken(h) PROVE Stays
  BY <1>8 DEF DeleteToken
<1>9. ASSUME NEW h \in Handlers, PasswordFail(h) PROVE Stays
  BY <1>9 DEF PasswordFail, BreakOff
<1>10. CASE UNCHANGED credentialsVars
  BY <1>10 DEF credentialsVars, handling
<1>11. QED
  BY <1>1, <1>2, <1>3, <1>4, <1>5, <1>6, <1>7, <1>8, <1>9, <1>10
  DEF CredentialsNext, PasswordStep

LEMMA LateNext ==
  PasswordTypes /\ TokenInv /\ LateErrorOnlyByRace /\ [CredentialsNext]_credentialsVars
    => LateErrorOnlyByRace'
<1> SUFFICES ASSUME PasswordTypes, TokenInv, LateErrorOnlyByRace,
                    [CredentialsNext]_credentialsVars,
                    NEW h \in Handlers, pc'[h] = "late"
             PROVE  \E g \in met'[h] \cap wrote' : req'[g].kind = "reset" /\ pc'[g] = "done"
  BY DEF LateErrorOnlyByRace
<1>1. pc[h] # "idle" /\ \E g \in met[h] \cap wrote : req[g].kind = "reset" /\ pc[g] = "done"
  <2>1. CASE pc[h] = "late"
    BY <2>1 DEF LateErrorOnlyByRace
  <2>2. CASE pc[h] # "late"
    <3>1. DeleteToken(h)
      <4>1. ASSUME NEW g \in Handlers, NEW op \in PasswordOps, ReceivePasswordOp(g, op) PROVE FALSE
        BY <2>2, <4>1 DEF ReceivePasswordOp, Receive, Goto, PasswordTypes, CredentialsTypeOK
      <4>2. ASSUME NEW g \in Handlers, FindUser(g) \/ FindToken(g) \/ SendEmail(g)
                     \/ CreatePasswordRecoveryToken(g) \/ WritePassword(g) \/ PasswordFail(g)
            PROVE  FALSE
        BY <2>2, <4>2 DEF FindUser, FindToken, SendEmail, CreatePasswordRecoveryToken,
           WritePassword, PasswordFail, BreakOff, Goto, PasswordTypes, CredentialsTypeOK
      <4>3. ASSUME NEW g \in Handlers, DeleteToken(g) PROVE g = h
        BY <2>2, <4>3 DEF DeleteToken, Goto, PasswordTypes, CredentialsTypeOK
      <4>4. ASSUME Expire \/ UNCHANGED credentialsVars PROVE FALSE
        BY <2>2, <4>4 DEF Expire, credentialsVars, handling
      <4>5. QED
        BY <4>1, <4>2, <4>3, <4>4 DEF CredentialsNext, PasswordStep
    <3>2. pc[h] = "delete" /\ req[h].kind = "reset" /\ (row = NULL \/ row.id # seen[h])
      BY <3>1 DEF DeleteToken, PasswordTypes, CredentialsTypeOK, PasswordPhase, Goto
    <3>3. QED
      BY <3>2 DEF TokenInv
  <2>3. QED
    BY <2>1, <2>2
<1>2. PICK g \in met[h] \cap wrote : req[g].kind = "reset" /\ pc[g] = "done"
  BY <1>1
<1>3. g \in Handlers /\ pc[g] # "idle" /\ pc[g] \in Ended
  BY <1>2 DEF PasswordTypes, CredentialsTypeOK, Ended
<1>4. QED
  BY <1>1, <1>2, <1>3, PasswordMonotone

\* Two resets that have found the same token have met.
FoundToken(h) == pc[h] \in {"write", "delete", "done", "late"} /\ req[h].kind = "reset"
PairInv ==
  \A h, g \in Handlers :
    (h # g /\ FoundToken(h) /\ FoundToken(g) /\ req[h].uses = req[g].uses) => g \in met[h]

LEMMA PairNext ==
  PasswordTypes /\ MetInv /\ GoneInv /\ PairInv /\ [CredentialsNext]_credentialsVars => PairInv'
<1> SUFFICES ASSUME PasswordTypes, MetInv, GoneInv, PairInv,
                    [CredentialsNext]_credentialsVars
             PROVE  PairInv'
  OBVIOUS
<1> USE PasswordOpTypes
    DEF PasswordTypes, CredentialsTypeOK, PasswordPhase, PairInv, FoundToken,
        InFlight, Goto, Is, Ended, tables, history
<1>1. CASE Expire
  BY <1>1 DEF Expire
<1>2. ASSUME NEW h \in Handlers, NEW op \in PasswordOps, ReceivePasswordOp(h, op) PROVE PairInv'
  BY <1>2 DEF ReceivePasswordOp, Receive
<1>3. ASSUME NEW h \in Handlers, FindUser(h) PROVE PairInv'
  BY <1>3 DEF FindUser
<1>4. ASSUME NEW h \in Handlers, FindToken(h) PROVE PairInv'
  BY <1>4 DEF FindToken, MetInv, GoneInv
<1>5. ASSUME NEW h \in Handlers, CreatePasswordRecoveryToken(h) PROVE PairInv'
  BY <1>5 DEF CreatePasswordRecoveryToken
<1>6. ASSUME NEW h \in Handlers, SendEmail(h) PROVE PairInv'
  BY <1>6 DEF SendEmail
<1>7. ASSUME NEW h \in Handlers, WritePassword(h) PROVE PairInv'
  BY <1>7 DEF WritePassword
<1>8. ASSUME NEW h \in Handlers, DeleteToken(h) PROVE PairInv'
  BY <1>8 DEF DeleteToken
<1>9. ASSUME NEW h \in Handlers, PasswordFail(h) PROVE PairInv'
  BY <1>9 DEF PasswordFail, BreakOff
<1>10. CASE UNCHANGED credentialsVars
  BY <1>10 DEF credentialsVars, handling
<1>11. QED
  BY <1>1, <1>2, <1>3, <1>4, <1>5, <1>6, <1>7, <1>8, <1>9, <1>10
  DEF CredentialsNext, PasswordStep

\* Who has used, or met, the newest token.
Outdated(t) == \E h \in wrote : req[h].kind = "reset" /\ (req[h].uses = t \/ t \in met[h])

LEMMA OutdatedStays ==
  ASSUME PasswordTypes, [CredentialsNext]_credentialsVars, NEW t \in Handlers, Outdated(t)
  PROVE  Outdated(t)'
<1>1. PICK h \in wrote : req[h].kind = "reset" /\ (req[h].uses = t \/ t \in met[h])
  BY DEF Outdated
<1>2. h \in Handlers /\ pc[h] # "idle"
  BY <1>1 DEF PasswordTypes, CredentialsTypeOK, PasswordPhase
<1>3. h \in wrote' /\ req'[h] = req[h] /\ met[h] \subseteq met'[h]
  BY <1>1, <1>2, PasswordMonotone
<1>4. QED
  BY <1>1, <1>3 DEF Outdated

LEMMA StandsMeaning ==
  ASSUME CredentialsTypeOK
  PROVE  NewestTokenStands <=> (newest # NULL =>
                                  (row # NULL /\ row.token = newest) \/ Outdated(newest))
BY DEF NewestTokenStands, Outdated, Resets, CredentialsTypeOK

LEMMA StandsNext ==
  PasswordTypes /\ TokenInv /\ NewestInv /\ NewestTokenStands /\ [CredentialsNext]_credentialsVars
    => NewestTokenStands'
<1>0. PasswordTypes /\ [CredentialsNext]_credentialsVars => wrote' \subseteq Handlers
  BY PasswordTypesNext DEF PasswordTypes, CredentialsTypeOK
<1> SUFFICES ASSUME PasswordTypes, TokenInv, NewestInv, NewestTokenStands,
                    [CredentialsNext]_credentialsVars, newest' # NULL
             PROVE  (row' # NULL /\ row'.token = newest') \/ Outdated(newest)'
  BY <1>0 DEF NewestTokenStands, Outdated, Resets
<1> USE DEF Goto, Is, tables, history
<1>1. CASE Expire
  <2>1. newest' = newest /\ row # NULL /\ row' # NULL /\ row'.token = row.token
    BY <1>1, RowExpires DEF Expire, PasswordTypes
  <2>2. QED
    BY <2>1 DEF NewestInv
<1>2. ASSUME NEW h \in Handlers, CreatePasswordRecoveryToken(h)
      PROVE  row' # NULL /\ row'.token = newest'
  <2>1. newest' = h
    BY <1>2 DEF CreatePasswordRecoveryToken
  <2>2. QED
    BY <1>2, <2>1, RowCreated DEF PasswordTypes
<1>3. ASSUME UNCHANGED newest
      PROVE  (row # NULL /\ row.token = newest) \/ Outdated(newest)'
  <2>1. newest \in Handlers
    BY <1>3 DEF PasswordTypes, CredentialsTypeOK
  <2>2. (row # NULL /\ row.token = newest) \/ Outdated(newest)
    BY <1>3, StandsMeaning DEF PasswordTypes
  <2>3. Outdated(newest) => Outdated(newest)'
    BY <1>3, <2>1, OutdatedStays DEF Outdated
  <2>4. QED
    BY <2>2, <2>3
<1>4. CASE UNCHANGED <<row, newest>>
  BY <1>3, <1>4
<1>5. ASSUME NEW h \in Handlers, DeleteToken(h)
      PROVE  (row' # NULL /\ row'.token = newest') \/ Outdated(newest)'
  <2>1. newest' = newest /\ pc[h] = "delete" /\ wrote' = wrote /\ req' = req /\ met' = met
        /\ (row' = row \/ row # NULL)
    BY <1>5 DEF DeleteToken
  <2>2. CASE row' = row
    BY <1>4, <2>1, <2>2
  <2>3. CASE row # NULL
    <3>1. row.token = newest
      BY <2>3 DEF NewestInv
    <3>2. h \in wrote /\ req[h].kind = "reset"
      BY <2>1 DEF PasswordTypes, PasswordPhase
    <3>3. req[h].uses = newest \/ newest \in met[h]
      BY <2>1, <2>3, <3>1, <3>2 DEF TokenInv
    <3>4. QED
      BY <2>1, <3>2, <3>3 DEF Outdated
  <2>4. QED
    BY <2>1, <2>2, <2>3
<1>6. ASSUME NEW h \in Handlers,
             \/ \E op \in PasswordOps : ReceivePasswordOp(h, op)
             \/ FindUser(h) \/ FindToken(h) \/ SendEmail(h) \/ WritePassword(h) \/ PasswordFail(h)
      PROVE  UNCHANGED <<row, newest>>
  BY <1>6 DEF ReceivePasswordOp, Receive, FindUser, FindToken, SendEmail, WritePassword,
     PasswordFail, BreakOff
<1>7. UNCHANGED credentialsVars => UNCHANGED <<row, newest>>
  BY DEF credentialsVars, handling
<1>8. QED
  BY <1>1, <1>2, <1>4, <1>5, <1>6, <1>7 DEF CredentialsNext, PasswordStep

LEMMA ProvenNext ==
  PasswordTypes /\ PasswordInv /\ ProvenPasswordReplaced /\ [CredentialsNext]_credentialsVars
    => ProvenPasswordReplaced'
<1> SUFFICES ASSUME PasswordTypes, PasswordInv, ProvenPasswordReplaced,
                    [CredentialsNext]_credentialsVars
             PROVE  ProvenPasswordReplaced'
  OBVIOUS
<1> USE DEF PasswordTypes, CredentialsTypeOK, PasswordPhase, ProvenPasswordReplaced,
        InFlight, Goto, Is, Ended, tables, history
<1>1. CASE Expire
  BY <1>1 DEF Expire
<1>2. ASSUME NEW h \in Handlers, NEW op \in PasswordOps, ReceivePasswordOp(h, op)
      PROVE  ProvenPasswordReplaced'
  BY <1>2 DEF ReceivePasswordOp, Receive
<1>3. ASSUME NEW h \in Handlers, FindUser(h) PROVE ProvenPasswordReplaced'
  BY <1>3 DEF FindUser
<1>4. ASSUME NEW h \in Handlers, FindToken(h) PROVE ProvenPasswordReplaced'
  BY <1>4 DEF FindToken
<1>5. ASSUME NEW h \in Handlers, CreatePasswordRecoveryToken(h) PROVE ProvenPasswordReplaced'
  BY <1>5 DEF CreatePasswordRecoveryToken
<1>6. ASSUME NEW h \in Handlers, SendEmail(h) PROVE ProvenPasswordReplaced'
  BY <1>6 DEF SendEmail
<1>7. ASSUME NEW h \in Handlers, WritePassword(h) PROVE ProvenPasswordReplaced'
  <2>1. /\ pc[h] = "write" /\ wrote' = wrote \cup {h} /\ req' = req /\ met' = met
        /\ replaced' = [replaced EXCEPT ![h] = password]
    BY <1>7 DEF WritePassword
  <2>2. replaced'[h] = password /\ \A g \in Handlers : g # h => replaced'[g] = replaced[g]
    BY <2>1
  <2>3. req[h].kind = "change" => password = req[h].uses \/ password \in met[h]
    BY <2>1 DEF PasswordInv
  <2>4. QED
    BY <2>1, <2>2, <2>3
<1>8. ASSUME NEW h \in Handlers, DeleteToken(h) PROVE ProvenPasswordReplaced'
  BY <1>8 DEF DeleteToken
<1>9. ASSUME NEW h \in Handlers, PasswordFail(h) PROVE ProvenPasswordReplaced'
  BY <1>9 DEF PasswordFail, BreakOff
<1>10. CASE UNCHANGED credentialsVars
  BY <1>10 DEF credentialsVars, handling
<1>11. QED
  BY <1>1, <1>2, <1>3, <1>4, <1>5, <1>6, <1>7, <1>8, <1>9, <1>10
  DEF CredentialsNext, PasswordStep

-----------------------------------------------------------------------------
(* The runs' properties, for every number of requests *)

CredentialsIInv == /\ PasswordTypes /\ RaceInv /\ PairInv
        /\ LateErrorOnlyByRace /\ NewestTokenStands /\ ProvenPasswordReplaced

LEMMA CredentialsInvariance == CredentialsSpec => []CredentialsIInv
<1>1. CredentialsInit => CredentialsIInv
  <2>1. CredentialsInit => PasswordTypes
    BY PasswordTypesInit
  <2>2. CredentialsInit => RaceInv /\ PairInv
    BY DEF CredentialsInit, NoRequests, RaceInv, MetInv, PasswordInv, TokenInv, GoneInv,
       NewestInv, PairInv, FoundToken,
       InFlight
  <2>3. CredentialsInit => LateErrorOnlyByRace /\ NewestTokenStands /\ ProvenPasswordReplaced
    BY DEF CredentialsInit, NoRequests, LateErrorOnlyByRace, NewestTokenStands,
       ProvenPasswordReplaced
  <2>4. QED
    BY <2>1, <2>2, <2>3 DEF CredentialsIInv
<1>2. CredentialsIInv /\ [CredentialsNext]_credentialsVars => CredentialsIInv'
  BY PasswordTypesNext, PasswordHandling, HandlersMeet, PasswordNext, TokenNext, GoneNext,
     PairNext, LateNext, StandsNext,
     ProvenNext DEF CredentialsIInv, RaceInv
<1>3. QED
  BY <1>1, <1>2, PTL DEF CredentialsSpec

\* The table, the mails and every request stay well-formed, whatever interleaves.
THEOREM CredentialsTypeCorrect == CredentialsSpec => []CredentialsTypeOK
<1>1. CredentialsIInv => CredentialsTypeOK
  BY DEF CredentialsIInv, PasswordTypes
<1>2. QED
  BY <1>1, CredentialsInvariance, PTL

\* A recovery token sets one password, or the two requests overlapped or one
\* stopped before it had deleted the token (UsersService.resetPasswordWithToken).
THEOREM TokensWorkOnce == CredentialsSpec => []TokenWorksOnce
<1>1. CredentialsIInv => TokenWorksOnce
  <2> SUFFICES ASSUME CredentialsIInv, NEW t \in Handlers,
                      NEW h \in Resets(t), NEW g \in Resets(t), h # g,
                      pc[h] # "failed", pc[g] # "failed"
               PROVE  g \in met[h]
    BY DEF TokenWorksOnce
  <2>1. h \in Handlers /\ g \in Handlers
    BY DEF CredentialsIInv, PasswordTypes, CredentialsTypeOK, Resets
  <2>2. FoundToken(h) /\ FoundToken(g) /\ req[h].uses = req[g].uses
    BY <2>1 DEF CredentialsIInv, PasswordTypes, PasswordPhase, Resets, FoundToken
  <2>3. QED
    BY <2>1, <2>2 DEF CredentialsIInv, PairInv
<1>2. QED
  BY <1>1, CredentialsInvariance, PTL

\* The token mailed last is there until it is used, unless an older one was being
\* used as it was made (createPasswordRecoveryToken, resetPasswordWithToken).
THEOREM NewestStands == CredentialsSpec => []NewestTokenStands
<1>1. CredentialsIInv => NewestTokenStands
  BY DEF CredentialsIInv
<1>2. QED
  BY <1>1, CredentialsInvariance, PTL

\* A reset that changed the password answers with an error only if another reset
\* deleted the row while it ran (resetPasswordWithToken).
THEOREM LateErrorsNeedRace == CredentialsSpec => []LateErrorOnlyByRace
<1>1. CredentialsIInv => LateErrorOnlyByRace
  BY DEF CredentialsIInv
<1>2. QED
  BY <1>1, CredentialsInvariance, PTL

\* A change of password replaces the one it proved, or one set while it ran
\* (UsersService.updatePassword).
THEOREM ProvenReplaced == CredentialsSpec => []ProvenPasswordReplaced
<1>1. CredentialsIInv => ProvenPasswordReplaced
  BY DEF CredentialsIInv
<1>2. QED
  BY <1>1, CredentialsInvariance, PTL

-----------------------------------------------------------------------------
(* Subscriptions *)

\* What a handler's next await says of what it was asked and has read.
SubscriptionPhase(h) ==
  /\ pc[h] = "idle" => req[h] = NULL
  /\ pc[h] # "idle" => req[h] \in SubscriptionOps
  /\ pc[h] \in {"categories", "lists"} => req[h].kind = "customer"
  /\ pc[h] = "types" => req[h].kind = "delete"
  /\ Is(h, "switch", "write") => req[h].row \in rows
  /\ follows[h] # NULL => pc[h] = "done"

SubscriptionTypes == SubscriptionsTypeOK /\ \A h \in Handlers : SubscriptionPhase(h)

LEMMA NoFollower ==
  /\ NULL \notin Followers /\ NULL \notin [Types -> Nat]
  /\ Handlers \subseteq Contacts /\ Followers = Contacts \cup Monitors /\ Contacts \cap Monitors = {}
  /\ \A ts : Once(ts) \in [Types -> Nat] /\ Once(ts) # NULL
BY SubscriptionsAssumption DEF Followers, Contacts, Once

LEMMA SubscriptionOpTypes ==
  ASSUME NEW op \in SubscriptionOps
  PROVE  /\ op # NULL
         /\ op.kind \in {"customer", "create", "choose", "delete", "come", "go", "switch", "retire"}
         /\ op.kind \in {"customer", "choose"} => op.types \subseteq Types
         /\ op.kind = "customer" => op.listed \in BOOLEAN /\ op.categories \subseteq Categories
         /\ op.kind \in {"choose", "delete", "come", "go"} => op.follower \in Followers
         /\ op.kind = "delete" => op.follower \in Contacts
         /\ op.kind = "come" => op.brings \in [Types -> Nat]
         /\ op.kind = "switch" => op.row \in Rows
<1>1. op # NULL /\ op \in SubscriptionOp
  BY SubscriptionsAssumption
<1>2. [Types -> {0, 1}] \subseteq [Types -> Nat]
  OBVIOUS
<1>3. \/ op \in [kind : {"customer"}, types : SUBSET Types, listed : BOOLEAN, categories : SUBSET Categories]
      \/ op \in [kind : {"create"}]
      \/ op \in [kind : {"choose"}, follower : Followers, types : SUBSET Types]
      \/ op \in [kind : {"delete"}, follower : Contacts]
      \/ op \in [kind : {"come"}, follower : Followers, brings : [Types -> Nat]]
      \/ op \in [kind : {"go"}, follower : Followers]
      \/ op \in [kind : {"switch"}, row : Rows, active : BOOLEAN]
      \/ op \in [kind : {"retire"}, category : Categories]
  BY <1>1, <1>2, NoFollower DEF SubscriptionOp
<1>4. QED
  BY <1>1, <1>3, NoFollower

\* A step of h changes nothing another handler has at hand; it creates no
\* contact but its own.
SubscriptionFits(h) ==
  /\ SubscriptionsTypeOK' /\ SubscriptionPhase(h)' /\ rows \subseteq rows'
  /\ \A g \in Handlers \ {h} : /\ pc'[g] = pc[g] /\ req'[g] = req[g]
                               /\ sawTypes'[g] = sawTypes[g] /\ sawRows'[g] = sawRows[g]
                               /\ sawList'[g] = sawList[g]
  /\ \A f \in Contacts \ {h} : follows'[f] # NULL => follows[f] # NULL

\* The followers once an update of the customer is written.
LEMMA FollowersWritten ==
  ASSUME SubscriptionsTypeOK, NEW h \in Handlers,
         \A f \in sawList[h] : follows[f] # NULL,
         follows' = [f \in Followers |-> IF f \in sawList[h]
                                         THEN Follower(h, f, follows[f]) ELSE follows[f]]
  PROVE  /\ follows' \in [Followers -> [Types -> Nat] \cup {NULL}]
         /\ \A f \in Followers : follows'[f] = NULL <=> follows[f] = NULL
         /\ \A f \in sawList[h] : \A t \in Types :
              follows'[f][t] = IF t \in Removed(h) THEN 0
                               ELSE IF t \notin Added(h) \/ (f \in Monitors /\ t = ArrivedWell)
                               THEN follows[f][t]
                               ELSE IF f \in Monitors THEN 1 ELSE follows[f][t] + 1
<1>1. ASSUME NEW f \in sawList[h]
      PROVE  /\ f \in Followers /\ follows[f] # NULL /\ follows'[f] = Follower(h, f, follows[f])
             /\ Follower(h, f, follows[f]) \in [Types -> Nat]
  <2>1. f \in Followers /\ follows[f] # NULL /\ follows[f] \in [Types -> Nat]
    BY <1>1 DEF SubscriptionsTypeOK
  <2>2. \A t \in Types : follows[f][t] \in Nat /\ follows[f][t] + 1 \in Nat
    BY <2>1
  <2>3. QED
    BY <2>1, <2>2 DEF Follower
<1>2. ASSUME NEW f \in sawList[h], NEW t \in Types
      PROVE  follows'[f][t] = IF t \in Removed(h) THEN 0
                              ELSE IF t \notin Added(h) \/ (f \in Monitors /\ t = ArrivedWell)
                              THEN follows[f][t]
                              ELSE IF f \in Monitors THEN 1 ELSE follows[f][t] + 1
  BY <1>1 DEF Follower
<1>3. \A f \in Followers \ sawList[h] : follows'[f] = follows[f]
  OBVIOUS
<1>4. \A f \in Followers : follows'[f] \in [Types -> Nat] \cup {NULL}
  BY <1>1, <1>3 DEF SubscriptionsTypeOK
<1>5. \A f \in Followers : follows'[f] = NULL <=> follows[f] = NULL
  BY <1>1, <1>3, NoFollower
<1>6. QED
  BY <1>2, <1>4, <1>5

LEMMA CategoriesStayRows ==
  ASSUME SubscriptionsTypeOK, NEW h \in Handlers, req[h].categories \subseteq Categories
  PROVE  CategoriesAfter(h) \subseteq Rows
<1>1. Kept(h) \subseteq Rows
  BY DEF Kept, SubscriptionsTypeOK
<1>2. \A ks \in SUBSET Categories : ks \X {h} \subseteq Rows
  BY DEF Rows
<1>3. {k \in req[h].categories : \A r \in sawRows[h] : r[1] # k} \in SUBSET Categories
  OBVIOUS
<1>4. QED
  BY <1>1, <1>2, <1>3 DEF CategoriesAfter, SubscriptionsTypeOK

\* What an update of the customer writes, when no follower of its list is gone.
LEMMA CustomerWritten ==
  ASSUME SubscriptionTypes, NEW h \in Handlers, UpdateCustomer(h)
  PROVE  /\ pc[h] = "write" /\ req[h].kind = "customer" /\ req[h] \in SubscriptionOps
         /\ req[h].types \subseteq Types
         /\ UNCHANGED <<here, req, met, doubled>> /\ Forget(h)
         /\ \/ pc' = [pc EXCEPT ![h] = "failed"] /\ UNCHANGED <<lists, apart>>
            \/ /\ pc' = [pc EXCEPT ![h] = "done"] /\ \A f \in sawList[h] : follows[f] # NULL
               /\ \/ req[h].types = {} /\ UNCHANGED <<types, follows, apart>>
                  \/ /\ req[h].types # {} /\ types' = req[h].types
                     /\ follows' = [f \in Followers |-> IF f \in sawList[h]
                                              THEN Follower(h, f, follows[f]) ELSE follows[f]]
                     /\ apart' = [f \in Followers |-> apart[f] \ (types \ types')]
               /\ active' \in {active, CategoriesAfter(h)}
               /\ rows' = rows \cup active'
<1>1. pc[h] = "write" /\ req[h].kind = "customer" /\ req[h] \in SubscriptionOps
  BY DEF UpdateCustomer, Is, SubscriptionTypes, SubscriptionPhase
<1>2. QED
  BY <1>1, SubscriptionOpTypes DEF UpdateCustomer, Goto, lists

LEMMA SubscriptionTypesInit == SubscriptionsInit => SubscriptionTypes
<1> SUFFICES ASSUME SubscriptionsInit PROVE SubscriptionTypes
  OBVIOUS
<1>1. PICK fs \in SUBSET (PriorContacts \cup Monitors) :
        /\ follows = [f \in Followers |-> IF f \in fs THEN Once(Due(f)) ELSE NULL]
        /\ here = Contacts \cup fs
  BY DEF SubscriptionsInit
<1>2. \A h \in Handlers : h \in Followers /\ h \notin fs
  BY SubscriptionsAssumption, NoFollower
<1>3. /\ follows \in [Followers -> [Types -> Nat] \cup {NULL}]
      /\ \A h \in Handlers : follows[h] = NULL
  BY <1>1, <1>2, NoFollower
<1>4. here \subseteq Followers
  BY <1>1 DEF Followers, Contacts
<1>5. rows \subseteq Rows
  BY DEF SubscriptionsInit, Rows
<1>6. SubscriptionsTypeOK
  BY <1>3, <1>4, <1>5 DEF SubscriptionsInit, NoRequests, SubscriptionsTypeOK
<1>7. \A h \in Handlers : SubscriptionPhase(h)
  BY <1>3 DEF SubscriptionsInit, NoRequests, SubscriptionPhase, Is
<1>8. QED
  BY <1>6, <1>7 DEF SubscriptionTypes

LEMMA SubscriptionStepFits ==
  ASSUME SubscriptionTypes, NEW h \in Handlers, SubscriptionStep(h)
  PROVE  SubscriptionFits(h)
<1> USE NoFollower DEF Goto, Is, Ended, lists, saw, histories
<1>0. /\ sawTypes[h] \in SUBSET Types /\ sawTypes = [sawTypes EXCEPT ![h] = sawTypes[h]]
      /\ sawRows[h] \in SUBSET Rows /\ sawRows = [sawRows EXCEPT ![h] = sawRows[h]]
      /\ sawList[h] \in SUBSET Followers /\ sawList = [sawList EXCEPT ![h] = sawList[h]]
      /\ types \in SUBSET Types /\ active \in SUBSET Rows /\ There \in SUBSET Followers
      /\ {} \in SUBSET Types /\ {} \in SUBSET Rows /\ {} \in SUBSET Followers
  BY DEF SubscriptionTypes, SubscriptionsTypeOK, There
<1>1. ASSUME NEW op \in SubscriptionOps, ReceiveSubscriptionOp(h, op) PROVE SubscriptionFits(h)
  <2>1. PICK phase \in {"find", "write"} :
          /\ pc' = [pc EXCEPT ![h] = phase]
          /\ phase = "write" => op.kind \in {"come", "go", "retire"}
    BY <1>1 DEF ReceiveSubscriptionOp, Receive
  <2>2. /\ pc[h] = "idle" /\ follows[h] = NULL /\ op # NULL
        /\ req' = [req EXCEPT ![h] = op]
        /\ met' \in [Handlers -> SUBSET Handlers]
        /\ UNCHANGED <<lists, saw, histories>>
    BY <1>1, SubscriptionOpTypes DEF ReceiveSubscriptionOp, Receive, InFlight, SubscriptionTypes,
       SubscriptionPhase, SubscriptionsTypeOK
  <2>3. SubscriptionsTypeOK'
    BY <2>1, <2>2 DEF SubscriptionTypes, SubscriptionsTypeOK
  <2>4. SubscriptionPhase(h)'
    BY <2>1, <2>2 DEF SubscriptionTypes, SubscriptionsTypeOK, SubscriptionPhase
  <2>5. QED
    BY <2>1, <2>2, <2>3, <2>4 DEF SubscriptionTypes, SubscriptionsTypeOK, SubscriptionFits
<1>2. ASSUME pc[h] \notin {"idle"} \cup Ended, UNCHANGED <<lists, req, met, histories>>,
             NEW phase \in {"categories", "lists", "types", "write"} \cup Ended,
             pc' = [pc EXCEPT ![h] = phase],
             phase \in {"categories", "lists"} => req[h].kind = "customer",
             phase = "types" => req[h].kind = "delete",
             phase = "write" /\ req[h].kind = "switch" => req[h].row \in rows,
             NEW ts \in SUBSET Types, sawTypes' = [sawTypes EXCEPT ![h] = ts],
             NEW rs \in SUBSET Rows, sawRows' = [sawRows EXCEPT ![h] = rs],
             NEW fs \in SUBSET Followers, sawList' = [sawList EXCEPT ![h] = fs]
      PROVE  SubscriptionFits(h)
  <2>1. SubscriptionsTypeOK'
    BY <1>2 DEF SubscriptionTypes, SubscriptionsTypeOK
  <2>2. SubscriptionPhase(h)'
    BY <1>2 DEF SubscriptionTypes, SubscriptionsTypeOK, SubscriptionPhase
  <2>3. QED
    BY <1>2, <2>1, <2>2 DEF SubscriptionTypes, SubscriptionsTypeOK, SubscriptionFits
<1>3. CASE FindCustomer(h)
  <2>1. /\ UNCHANGED <<lists, req, sawRows, sawList, met, histories>> /\ pc[h] = "find"
        /\ req[h].kind # "switch"
        /\ \/ req[h].kind = "customer" /\ pc' = [pc EXCEPT ![h] = "categories"]
           \/ pc' = [pc EXCEPT ![h] = "write"]
    BY <1>3 DEF FindCustomer
  <2>2. PICK ts \in SUBSET Types : sawTypes' = [sawTypes EXCEPT ![h] = ts]
    BY <1>0, <1>3 DEF FindCustomer
  <2>3. QED
    BY <1>0, <1>2, <2>1, <2>2
<1>4. CASE Find(h)
  <2>1. /\ UNCHANGED <<lists, req, saw, met, histories>> /\ pc[h] = "find"
        /\ \/ pc' = [pc EXCEPT ![h] = "refused"]
           \/ /\ pc' = [pc EXCEPT ![h] = "write"]
              /\ req[h].kind = "switch" => req[h].row \in rows
           \/ req[h].kind = "delete" /\ pc' = [pc EXCEPT ![h] = "types"]
    BY <1>4 DEF Find
  <2>2. QED
    BY <1>0, <1>2, <2>1
<1>5. CASE FindCategories(h)
  <2>1. /\ UNCHANGED <<lists, req, sawTypes, sawList, met, histories>>
        /\ pc[h] = "categories" /\ req[h].kind = "customer"
        /\ sawRows' = [sawRows EXCEPT ![h] = active]
        /\ \/ pc' = [pc EXCEPT ![h] = "write"]
           \/ pc' = [pc EXCEPT ![h] = "lists"]
    BY <1>5 DEF FindCategories
  <2>2. QED
    BY <1>0, <1>2, <2>1
<1>6. CASE FindLists(h)
  <2>1. /\ UNCHANGED <<lists, req, sawTypes, sawRows, met, histories>>
        /\ pc[h] = "lists" /\ req[h].kind = "customer"
        /\ sawList' = [sawList EXCEPT ![h] = There] /\ pc' = [pc EXCEPT ![h] = "write"]
    BY <1>6 DEF FindLists
  <2>2. QED
    BY <1>0, <1>2, <2>1
<1>7. CASE SubscriptionFail(h)
  <2>1. /\ UNCHANGED <<lists, req, met, histories>> /\ pc[h] \notin {"idle"} \cup Ended
        /\ pc' = [pc EXCEPT ![h] = "failed"]
        /\ sawTypes' = [sawTypes EXCEPT ![h] = {}] /\ sawRows' = [sawRows EXCEPT ![h] = {}]
        /\ sawList' = [sawList EXCEPT ![h] = {}]
    BY <1>7 DEF SubscriptionFail, BreakOff, InFlight, Forget
  <2>2. QED
    BY <1>0, <1>2, <2>1
<1>8. ASSUME pc[h] \in {"types", "write"}, UNCHANGED <<req, met>>, UNCHANGED saw \/ Forget(h),
             NEW phase \in {"write", "done", "failed"}, pc' = [pc EXCEPT ![h] = phase],
             phase = "write" => req[h].kind = "delete",
             types' \subseteq Types, here' \subseteq Followers,
             rows \subseteq rows', rows' \subseteq Rows, active' \subseteq rows',
             apart' \in [Followers -> SUBSET Types], doubled' \subseteq Handlers,
             follows' \in [Followers -> [Types -> Nat] \cup {NULL}],
             \A f \in Contacts \ {h} : follows'[f] # NULL => follows[f] # NULL,
             follows'[h] # NULL => phase = "done" \/ follows[h] # NULL
      PROVE  SubscriptionFits(h)
  <2>1. /\ sawTypes' \in [Handlers -> SUBSET Types] /\ sawRows' \in [Handlers -> SUBSET Rows]
        /\ sawList' \in [Handlers -> SUBSET Followers]
        /\ \A g \in Handlers \ {h} : /\ sawTypes'[g] = sawTypes[g] /\ sawRows'[g] = sawRows[g]
                                     /\ sawList'[g] = sawList[g]
    BY <1>0, <1>8 DEF Forget, SubscriptionTypes, SubscriptionsTypeOK
  <2>2. SubscriptionsTypeOK'
    BY <1>8, <2>1 DEF SubscriptionTypes, SubscriptionsTypeOK
  <2>3. SubscriptionPhase(h)'
    BY <1>8 DEF SubscriptionTypes, SubscriptionsTypeOK, SubscriptionPhase
  <2>4. QED
    BY <1>8, <2>1, <2>2, <2>3 DEF SubscriptionTypes, SubscriptionsTypeOK, SubscriptionFits
<1>9. /\ types \subseteq Types /\ here \subseteq Followers /\ rows \subseteq Rows
      /\ active \subseteq rows /\ apart \in [Followers -> SUBSET Types] /\ doubled \subseteq Handlers
      /\ follows \in [Followers -> [Types -> Nat] \cup {NULL}]
      /\ req[h] # NULL => req[h] \in SubscriptionOps
      /\ \A f, bag : Apart(f, bag) \subseteq Types
  BY DEF SubscriptionTypes, SubscriptionsTypeOK, Apart
<1>10. CASE UpdateCustomer(h)
  <2>1. /\ pc[h] = "write" /\ req[h] \in SubscriptionOps /\ req[h].kind = "customer"
        /\ UNCHANGED <<here, req, met, doubled>> /\ Forget(h)
        /\ \/ pc' = [pc EXCEPT ![h] = "failed"] /\ UNCHANGED <<lists, apart>>
           \/ /\ pc' = [pc EXCEPT ![h] = "done"] /\ \A f \in sawList[h] : follows[f] # NULL
              /\ \/ UNCHANGED <<types, follows, apart>>
                 \/ /\ types' \subseteq Types
                    /\ follows' = [f \in Followers |-> IF f \in sawList[h]
                                             THEN Follower(h, f, follows[f]) ELSE follows[f]]
                    /\ apart' = [f \in Followers |-> apart[f] \ (types \ types')]
              /\ active' \in {active, CategoriesAfter(h)}
              /\ rows' = rows \cup active'
    BY <1>10, CustomerWritten
  <2>2. types' \subseteq Types /\ apart' \in [Followers -> SUBSET Types]
    BY <1>9, <2>1
  <2>3. rows \subseteq rows' /\ rows' \subseteq Rows /\ active' \subseteq rows'
    BY <1>9, <2>1, CategoriesStayRows, SubscriptionOpTypes DEF SubscriptionTypes
  <2>4. /\ follows' \in [Followers -> [Types -> Nat] \cup {NULL}]
        /\ \A f \in Followers : follows'[f] = NULL <=> follows[f] = NULL
    BY <1>9, <2>1, FollowersWritten DEF SubscriptionTypes
  <2>5. \E phase \in {"done", "failed"} : pc' = [pc EXCEPT ![h] = phase]
    BY <2>1
  <2>6. here' \subseteq Followers /\ doubled' \subseteq Handlers
    BY <1>9, <2>1
  <2>7. QED
    BY <1>8, <2>1, <2>2, <2>3, <2>4, <2>5, <2>6
<1>11. CASE CreateContact(h)
  <2>1. /\ pc[h] = "write" /\ pc' = [pc EXCEPT ![h] = "done"] /\ Forget(h)
        /\ follows' = [follows EXCEPT ![h] = Once(sawTypes[h])]
        /\ UNCHANGED <<types, here, rows, active, req, met, histories>>
    BY <1>11 DEF CreateContact
  <2>2. /\ follows' \in [Followers -> [Types -> Nat] \cup {NULL}]
        /\ \A f \in Followers \ {h} : follows'[f] = follows[f]
    BY <1>9, <2>1
  <2>3. QED
    BY <1>8, <1>9, <2>1, <2>2
<1>12. CASE Choose(h)
  <2>1. /\ pc[h] = "write" /\ UNCHANGED <<types, here, rows, active, req, saw, met, doubled>>
        /\ \/ /\ pc' = [pc EXCEPT ![h] = "done"] /\ follows[req[h].follower] # NULL
              /\ follows' = [follows EXCEPT ![req[h].follower] = Once(req[h].types)]
              /\ apart' = [apart EXCEPT ![req[h].follower] =
                                     Apart(req[h].follower, Once(req[h].types))]
           \/ pc' = [pc EXCEPT ![h] = "failed"] /\ UNCHANGED <<follows, apart>>
    BY <1>12 DEF Choose
  <2>2. /\ follows' \in [Followers -> [Types -> Nat] \cup {NULL}]
        /\ \A f \in Followers : follows'[f] # NULL => follows[f] # NULL
        /\ apart' \in [Followers -> SUBSET Types]
    BY <1>9, <2>1
  <2>3. \E phase \in {"done", "failed"} : pc' = [pc EXCEPT ![h] = phase]
    BY <2>1
  <2>4. QED
    BY <1>8, <1>9, <2>1, <2>2, <2>3
<1>13. CASE DeleteContactTypes(h) \/ DeleteContact(h)
  <2>1. /\ pc[h] \in {"types", "write"} /\ req[h].kind = "delete"
        /\ UNCHANGED <<types, here, rows, active, req, saw, met, histories>>
        /\ \E phase \in {"write", "done", "failed"} : pc' = [pc EXCEPT ![h] = phase]
        /\ \/ /\ follows[req[h].follower] # NULL
              /\ follows' = [follows EXCEPT ![req[h].follower] = Once({})]
           \/ follows' = [follows EXCEPT ![req[h].follower] = NULL]
           \/ follows' = follows
    BY <1>13 DEF DeleteContactTypes, DeleteContact
  <2>2. /\ follows' \in [Followers -> [Types -> Nat] \cup {NULL}]
        /\ \A f \in Followers : follows'[f] # NULL => follows[f] # NULL
    BY <1>9, <2>1
  <2>3. QED
    BY <1>8, <1>9, <2>1, <2>2
<1>14. CASE Come(h)
  <2>1. /\ pc[h] = "write" /\ pc' = [pc EXCEPT ![h] = "done"] /\ here' = here \cup {req[h].follower}
        /\ req[h] \in SubscriptionOps /\ req[h].kind = "come"
        /\ UNCHANGED <<types, rows, active, req, saw, met, doubled>>
        /\ \/ /\ req[h].follower \in Monitors \/ follows[req[h].follower] # NULL
              /\ follows' = [follows EXCEPT ![req[h].follower] = req[h].brings]
              /\ apart' = [apart EXCEPT ![req[h].follower] = Apart(req[h].follower, req[h].brings)]
           \/ UNCHANGED <<follows, apart>>
    BY <1>14 DEF Come, SubscriptionTypes, SubscriptionPhase
  <2>2. req[h].follower \in Followers /\ req[h].brings \in [Types -> Nat]
    BY <2>1, SubscriptionOpTypes
  <2>3. /\ follows' \in [Followers -> [Types -> Nat] \cup {NULL}]
        /\ \A f \in Contacts : follows'[f] # NULL => follows[f] # NULL
        /\ apart' \in [Followers -> SUBSET Types]
    BY <1>9, <2>1, <2>2
  <2>4. here' \subseteq Followers
    BY <1>9, <2>1, <2>2
  <2>5. QED
    BY <1>8, <1>9, <2>1, <2>3, <2>4
<1>15. CASE Go(h)
  <2>1. /\ pc[h] = "write" /\ pc' = [pc EXCEPT ![h] = "done"] /\ here' \subseteq here
        /\ UNCHANGED <<types, follows, rows, active, req, saw, met, histories>>
    BY <1>15 DEF Go
  <2>2. QED
    BY <1>8, <1>9, <2>1
<1>16. CASE UpdateEvent(h) \/ RetireCategory(h)
  <2>1. /\ pc[h] = "write" /\ pc' = [pc EXCEPT ![h] = "done"]
        /\ UNCHANGED <<types, follows, here, rows, req, saw, met, apart>>
        /\ doubled' \in {doubled, doubled \cup {h}}
        /\ \/ active' \subseteq active
           \/ /\ Is(h, "switch", "write") /\ active' = active \cup {req[h].row}
    BY <1>16 DEF UpdateEvent, RetireCategory
  <2>2. active' \subseteq rows
    BY <1>9, <2>1 DEF SubscriptionTypes, SubscriptionPhase
  <2>3. QED
    BY <1>8, <1>9, <2>1, <2>2
<1>17. QED
  BY <1>1, <1>3, <1>4, <1>5, <1>6, <1>7, <1>10, <1>11, <1>12, <1>13, <1>14, <1>15, <1>16
  DEF SubscriptionStep

LEMMA SubscriptionTypesNext ==
  SubscriptionTypes /\ [SubscriptionsNext]_subscriptionsVars => SubscriptionTypes'
<1> SUFFICES ASSUME SubscriptionTypes, [SubscriptionsNext]_subscriptionsVars
             PROVE  SubscriptionTypes'
  OBVIOUS
<1>1. CASE UNCHANGED subscriptionsVars
  BY <1>1 DEF subscriptionsVars, lists, handling, saw, histories, SubscriptionTypes,
     SubscriptionsTypeOK, SubscriptionPhase, Is
<1>2. ASSUME NEW h \in Handlers, SubscriptionStep(h) PROVE SubscriptionTypes'
  <2>1. SubscriptionFits(h)
    BY <1>2, SubscriptionStepFits
  <2>2. ASSUME NEW g \in Handlers, g # h PROVE SubscriptionPhase(g)'
    BY <2>1, <2>2, NoFollower DEF SubscriptionFits, SubscriptionTypes, SubscriptionPhase, Is
  <2>3. QED
    BY <2>1, <2>2 DEF SubscriptionFits, SubscriptionTypes
<1>3. QED
  BY <1>1, <1>2 DEF SubscriptionsNext

LEMMA SubscriptionHandling ==
  ASSUME SubscriptionTypes, [SubscriptionsNext]_subscriptionsVars
  PROVE  HandlingOK /\ HandlingNext
<1>1. HandlingOK
  BY DEF SubscriptionTypes, SubscriptionsTypeOK, HandlingOK
<1>2. ASSUME NEW h \in Handlers, NEW op \in SubscriptionOps, ReceiveSubscriptionOp(h, op)
      PROVE  Handles(h)
  BY <1>2 DEF ReceiveSubscriptionOp, Handles
<1>3. ASSUME NEW h \in Handlers,
             \/ FindCustomer(h) \/ Find(h) \/ FindCategories(h) \/ FindLists(h)
             \/ UpdateCustomer(h) \/ CreateContact(h) \/ Choose(h)
             \/ DeleteContactTypes(h) \/ DeleteContact(h) \/ Come(h) \/ Go(h)
             \/ UpdateEvent(h) \/ RetireCategory(h) \/ SubscriptionFail(h)
      PROVE  Handles(h)
  <2> USE DEF FindCustomer, Find, FindCategories, FindLists, UpdateCustomer, CreateContact,
          Choose, DeleteContactTypes, DeleteContact, Come, Go, UpdateEvent, RetireCategory,
          SubscriptionFail, BreakOff
  <2>1. h \in InFlight /\ UNCHANGED <<req, met>>
    BY <1>3 DEF InFlight, Is, Ended
  <2>2. \/ Goto(h, "categories") \/ Goto(h, "lists") \/ Goto(h, "types") \/ Goto(h, "write")
        \/ Goto(h, "done") \/ Goto(h, "refused") \/ Goto(h, "failed")
    BY <1>3
  <2>3. QED
    BY <2>1, <2>2 DEF Handles
<1>4. UNCHANGED subscriptionsVars => UNCHANGED handling
  BY DEF subscriptionsVars
<1>5. QED
  BY <1>1, <1>2, <1>3, <1>4 DEF SubscriptionsNext, SubscriptionStep, HandlingNext

SubscriptionsInv == SubscriptionTypes /\ MetInv

SubscriptionsOnward == SubscriptionsInv /\ SubscriptionsInv' /\ Onward

LEMMA SubscriptionsInvNext ==
  SubscriptionsInv /\ [SubscriptionsNext]_subscriptionsVars => SubscriptionsOnward
BY SubscriptionTypesNext, SubscriptionHandling, HandlersMeet
DEF SubscriptionsInv, SubscriptionsOnward

LEMMA SubscriptionsInvariant == SubscriptionsSpec => []SubscriptionsInv
<1>1. SubscriptionsInit => MetInv
  BY DEF SubscriptionsInit, NoRequests, MetInv, InFlight
<1>2. SubscriptionsInit => SubscriptionsInv
  BY <1>1, SubscriptionTypesInit DEF SubscriptionsInv
<1>3. SubscriptionsInv /\ [SubscriptionsNext]_subscriptionsVars => SubscriptionsInv'
  BY SubscriptionsInvNext DEF SubscriptionsOnward
<1>4. QED
  BY <1>2, <1>3, PTL DEF SubscriptionsSpec

\* Type correctness: who follows the customer's alert types is subscribed to every
\* type a natural number of times, however the differences an update writes were
\* made (customers.service.ts update), and no contact exists before the request
\* that creates it.
THEOREM SubscriptionsTypeCorrect == SubscriptionsSpec => []SubscriptionsTypeOK
<1>1. SubscriptionsInv => SubscriptionsTypeOK
  BY DEF SubscriptionsInv, SubscriptionTypes
<1>2. QED
  BY SubscriptionsInvariant, <1>1, PTL

LEMMA OverlappedLasts ==
  ASSUME SubscriptionsOnward, NEW h \in Handlers, pc[h] # "idle", Overlapped(h)
  PROVE  Overlapped(h)'
<1>1. PICK g \in met[h] : g \in Updates
  BY DEF Overlapped
<1>2. g \in Handlers /\ pc[g] # "idle" /\ req[g] # NULL /\ req[g].kind = "customer"
  BY <1>1 DEF Updates, SubscriptionsOnward, SubscriptionsInv, MetInv
<1>3. req'[g] = req[g] /\ g \in met'[h]
  BY <1>1, <1>2 DEF SubscriptionsOnward, Onward
<1>4. QED
  BY <1>2, <1>3 DEF Overlapped, Updates

\* Who has asked for something stays at it, and goes on having overlapped.
LEMMA AskedLasts ==
  ASSUME SubscriptionsOnward, NEW g \in Handlers, req[g] # NULL
  PROVE  /\ req'[g] = req[g] /\ pc[g] # "idle" /\ met[g] \subseteq met'[g]
         /\ Overlapped(g) => Overlapped(g)'
<1>1. pc[g] # "idle"
  BY DEF SubscriptionsOnward, SubscriptionsInv, SubscriptionTypes, SubscriptionPhase
<1>2. QED
  BY <1>1, OverlappedLasts DEF SubscriptionsOnward, Onward

\* Overlapping is not undone.
LEMMA AloneBefore ==
  ASSUME SubscriptionsOnward, Alone'
  PROVE  Alone
<1> SUFFICES ASSUME NEW h \in Updates, Overlapped(h) PROVE FALSE
  BY DEF Alone
<1>1. h \in Handlers /\ req[h] # NULL
  BY DEF Updates
<1>2. Overlapped(h)' /\ h \in Updates'
  BY <1>1, AskedLasts DEF Updates
<1>3. QED
  BY <1>2 DEF Alone

\* Nor is missing an update.
LEMMA MissedLasts ==
  ASSUME SubscriptionsOnward, NEW f \in Followers, Missed(f), f \in Handlers => pc[f] # "idle"
  PROVE  Missed(f)'
<1>1. CASE f \in Handlers /\ Overlapped(f)
  BY <1>1, OverlappedLasts DEF Missed
<1>2. CASE \E g \in Handlers : /\ req[g] # NULL /\ req[g].kind = "come" /\ req[g].follower = f
                               /\ Overlapped(g) \/ f \in met[g]
  BY <1>2, AskedLasts DEF Missed
<1>3. QED
  BY <1>1, <1>2 DEF Missed

\* Two handlers at work meet; if one of them updates the customer, the other
\* has overlapped an update.
LEMMA UpdatesMeet ==
  ASSUME SubscriptionsOnward, NEW h \in Handlers, pc[h] \notin {"idle"} \cup Ended,
         req[h].kind = "customer",
         NEW g \in Handlers, g # h, pc[g] \notin {"idle"} \cup Ended
  PROVE  /\ Overlapped(g) /\ Overlapped(g)'
         /\ req[g].kind = "customer" => ~Alone /\ ~Alone'
<1>1. h \in met[g] /\ req[h] # NULL /\ req[g] # NULL
  BY SubscriptionOpTypes DEF SubscriptionsOnward, SubscriptionsInv, MetInv, InFlight,
     SubscriptionTypes, SubscriptionPhase
<1>2. Overlapped(g)
  BY <1>1 DEF Overlapped, Updates
<1>3. Overlapped(g)'
  BY <1>1, <1>2, AskedLasts
<1>4. req[g].kind = "customer" => ~Alone
  BY <1>1, <1>2 DEF Alone, Updates
<1>5. QED
  BY <1>1, <1>2, <1>3, <1>4, AloneBefore

\* An update of the customer that gives it alert types.
TypesUpdated(h) == UpdateCustomer(h) /\ pc'[h] # "failed" /\ req[h].types # {}

\* What every other step does to who is there, and to a follower who was not, or
\* whose types it changes.
LEMMA FollowerSteps ==
  ASSUME SubscriptionTypes, SubscriptionTypes', NEW h \in Handlers, SubscriptionStep(h),
         ~TypesUpdated(h)
  PROVE  /\ UNCHANGED types
         /\ \A f \in There' :
              \/ f \in There /\ follows'[f] = follows[f] /\ apart'[f] = apart[f]
              \/ /\ CreateContact(h) /\ f = h /\ h \in here
                 /\ follows'[f] = Once(sawTypes[h])
              \/ /\ Choose(h) /\ f \in There /\ apart'[f] = Apart(f, follows'[f])
              \/ /\ Come(h) /\ f = req[h].follower /\ apart'[f] = Apart(f, follows'[f])
              \/ /\ DeleteContactTypes(h) /\ f = req[h].follower /\ f \in There
                 /\ follows'[f] = Once({}) /\ apart'[f] = apart[f] /\ pc'[h] = "write"
<1> USE DEF There
<1>0. /\ \A phase : Goto(h, phase) => pc'[h] = phase
      /\ follows \in [Followers -> [Types -> Nat] \cup {NULL}]
      /\ apart \in [Followers -> SUBSET Types] /\ here \subseteq Followers /\ here' \subseteq Followers
  BY DEF Goto, SubscriptionTypes, SubscriptionsTypeOK
<1>1. CASE UNCHANGED <<lists, histories>>
  BY <1>0, <1>1 DEF lists, histories
<1>2. CASE UpdateCustomer(h)
  <2>1. UNCHANGED <<types, follows, here, apart>>
    <3>1. \A phase : pc' = [pc EXCEPT ![h] = phase] => pc'[h] = phase
      BY DEF SubscriptionTypes, SubscriptionsTypeOK
    <3>2. QED
      BY <1>2, <3>1, CustomerWritten DEF TypesUpdated, lists
  <2>2. QED
    BY <1>0, <2>1
<1>3. CASE CreateContact(h)
  <2>1. /\ follows' = [follows EXCEPT ![h] = Once(sawTypes[h])] /\ h \in Followers
        /\ UNCHANGED <<types, here, apart>>
    BY <1>3, NoFollower DEF CreateContact, histories
  <2>2. QED
    BY <1>0, <1>3, <2>1
<1>4. CASE Choose(h)
  <2>1. UNCHANGED <<types, here>>
    BY <1>4 DEF Choose
  <2>2. \/ UNCHANGED <<follows, apart>>
        \/ /\ follows[req[h].follower] # NULL
           /\ follows' = [follows EXCEPT ![req[h].follower] = Once(req[h].types)]
           /\ apart' = [apart EXCEPT ![req[h].follower] =
                                  Apart(req[h].follower, Once(req[h].types))]
    BY <1>4 DEF Choose
  <2>3. QED
    BY <1>0, <1>4, <2>1, <2>2
<1>5. CASE Come(h)
  <2>1. UNCHANGED types /\ here' = here \cup {req[h].follower}
    BY <1>5 DEF Come
  <2>2. \/ /\ UNCHANGED <<follows, apart>>
           /\ req[h].follower \in here \/ follows[req[h].follower] = NULL
        \/ /\ follows' = [follows EXCEPT ![req[h].follower] = req[h].brings]
           /\ apart' = [apart EXCEPT ![req[h].follower] = Apart(req[h].follower, req[h].brings)]
    BY <1>5 DEF Come
  <2>3. QED
    BY <1>0, <1>5, <2>1, <2>2
<1>6. CASE DeleteContactTypes(h)
  <2>1. /\ UNCHANGED <<types, here, apart>> /\ pc'[h] = "write"
        /\ follows' = [follows EXCEPT ![req[h].follower] =
                          IF follows[req[h].follower] = NULL THEN NULL ELSE Once({})]
    BY <1>0, <1>6 DEF DeleteContactTypes, histories
  <2>2. QED
    BY <1>0, <1>6, <2>1
<1>7. CASE DeleteContact(h)
  <2>1. /\ UNCHANGED <<types, here, apart>>
        /\ \/ follows' = [follows EXCEPT ![req[h].follower] = NULL]
           \/ UNCHANGED follows
    BY <1>7 DEF DeleteContact, histories
  <2>2. QED
    BY <1>0, <2>1
<1>8. CASE Go(h) \/ UpdateEvent(h) \/ RetireCategory(h)
  <2>1. UNCHANGED <<types, follows, apart>> /\ here' \subseteq here
    BY <1>8 DEF Go, UpdateEvent, RetireCategory, histories
  <2>2. QED
    BY <1>0, <2>1
<1>9. QED
  BY <1>1, <1>2, <1>3, <1>4, <1>5, <1>6, <1>7, <1>8
  DEF SubscriptionStep, ReceiveSubscriptionOp, FindCustomer, Find, FindCategories, FindLists,
      SubscriptionFail

\* What an update that met no other has read of the alert types is still so; a
\* contact created beside one, or before its resident came, missed one.
SawInv ==
  /\ Alone => \A h \in Handlers :
       req[h] # NULL /\ req[h].kind = "customer" /\ pc[h] \in {"categories", "lists", "write"} =>
         sawTypes[h] = types
  /\ \A h \in Handlers : Is(h, "create", "write") /\ h \in here => sawTypes[h] = types \/ Missed(h)
  /\ \A h \in Handlers : Is(h, "customer", "write") /\ req[h].types # {} =>
       \A f \in There : f \in sawList[h] \/ Missed(f)

\* How a handler gets to the awaits that SawInv speaks of.
LEMMA SawSteps ==
  ASSUME SubscriptionTypes, NEW h \in Handlers, SubscriptionStep(h)
  PROVE  /\ pc'[h] = "write" /\ req'[h].kind = "create" =>
              UNCHANGED here /\ (h \in here => sawTypes'[h] = types)
         /\ pc'[h] \in {"categories", "lists", "write"} /\ req'[h].kind = "customer" =>
              /\ req'[h] = req[h] /\ UNCHANGED <<lists, doubled>>
              /\ \/ pc[h] = "find" /\ pc'[h] = "categories" /\ sawTypes'[h] = types
                 \/ /\ pc[h] = "categories" /\ UNCHANGED sawTypes /\ sawRows'[h] = active
                    /\ pc'[h] = "write" => req[h].types = {}
                 \/ /\ pc[h] = "lists" /\ pc'[h] = "write" /\ UNCHANGED <<sawTypes, sawRows>>
                    /\ sawList'[h] = There
<1> USE DEF Goto, Is, lists, saw, histories
<1>0. /\ \A phase : Goto(h, phase) => pc'[h] = phase
      /\ \A ts : sawTypes' = [sawTypes EXCEPT ![h] = ts] => sawTypes'[h] = ts
      /\ \A rs : sawRows' = [sawRows EXCEPT ![h] = rs] => sawRows'[h] = rs
      /\ \A fs : sawList' = [sawList EXCEPT ![h] = fs] => sawList'[h] = fs
      /\ \A op : req' = [req EXCEPT ![h] = op] => req'[h] = op
  BY DEF SubscriptionTypes, SubscriptionsTypeOK
<1>1. ASSUME NEW op \in SubscriptionOps, ReceiveSubscriptionOp(h, op)
      PROVE  pc'[h] \in {"find", "write"} /\ (pc'[h] = "write" => req'[h].kind \in {"come", "go", "retire"})
  <2>1. /\ pc'[h] = IF op.kind \in {"come", "go", "retire"} THEN "write" ELSE "find"
        /\ req'[h] = op
    BY <1>0, <1>1 DEF ReceiveSubscriptionOp, Receive
  <2>2. QED
    BY <2>1
<1>2. CASE FindCustomer(h)
  <2>1. /\ pc[h] = "find" /\ UNCHANGED <<req, lists, doubled>>
        /\ req[h].kind = "create" => pc'[h] = "write"
        /\ req[h].kind = "customer" => pc'[h] = "categories"
        /\ req[h].kind = "customer" \/ (req[h].kind = "create" /\ h \in here) => sawTypes'[h] = types
        /\ req[h].kind \in {"create", "customer"}
    BY <1>0, <1>2 DEF FindCustomer
  <2>2. QED
    BY <2>1
<1>3. CASE Find(h)
  BY <1>0, <1>3 DEF Find
<1>4. CASE FindCategories(h)
  <2>1. /\ pc[h] = "categories" /\ req[h].kind = "customer"
        /\ UNCHANGED <<req, lists, doubled, sawTypes>> /\ sawRows'[h] = active
        /\ pc'[h] = "write" => req[h].types = {}
    BY <1>0, <1>4 DEF FindCategories
  <2>2. QED
    BY <2>1
<1>5. CASE FindLists(h)
  <2>1. /\ pc[h] = "lists" /\ req[h].kind = "customer" /\ pc'[h] = "write"
        /\ UNCHANGED <<req, lists, doubled, sawTypes, sawRows>> /\ sawList'[h] = There
    BY <1>0, <1>5 DEF FindLists
  <2>2. QED
    BY <2>1
<1>6. CASE UpdateCustomer(h)
  <2>1. pc'[h] \in {"done", "failed"}
    BY <1>0, <1>6 DEF UpdateCustomer
  <2>2. QED
    BY <2>1
<1>7. CASE CreateContact(h) \/ Choose(h) \/ DeleteContact(h) \/ Come(h) \/ Go(h)
           \/ UpdateEvent(h) \/ RetireCategory(h)
  <2>1. pc'[h] \in {"done", "failed"}
    BY <1>0, <1>7 DEF CreateContact, Choose, DeleteContact, Come, Go, UpdateEvent, RetireCategory
  <2>2. QED
    BY <2>1
<1>8. CASE DeleteContactTypes(h)
  BY <1>0, <1>8 DEF DeleteContactTypes
<1>9. CASE SubscriptionFail(h)
  BY <1>0, <1>9 DEF SubscriptionFail, BreakOff
<1>10. QED
  BY <1>1, <1>2, <1>3, <1>4, <1>5, <1>6, <1>7, <1>8, <1>9 DEF SubscriptionStep

LEMMA SawInvNext ==
  ASSUME SubscriptionsOnward, SawInv, NEW h \in Handlers, SubscriptionStep(h)
  PROVE  SawInv'
<1>1. SubscriptionTypes /\ SubscriptionTypes' /\ SubscriptionFits(h)
  BY SubscriptionStepFits DEF SubscriptionsOnward, SubscriptionsInv
<1>2. ASSUME NEW g \in Handlers, g # h
      PROVE  /\ pc'[g] = pc[g] /\ req'[g] = req[g] /\ sawTypes'[g] = sawTypes[g]
             /\ sawRows'[g] = sawRows[g] /\ sawList'[g] = sawList[g]
  BY <1>1, <1>2 DEF SubscriptionFits
<1>3. UpdateCustomer(h) => pc[h] = "write" /\ req[h].kind = "customer"
  BY DEF UpdateCustomer, Is
<1>4. ~UpdateCustomer(h) => UNCHANGED types
  BY <1>1, FollowerSteps DEF TypesUpdated
<1>5. ASSUME Alone', NEW g \in Handlers, req'[g] # NULL, req'[g].kind = "customer",
             pc'[g] \in {"categories", "lists", "write"}
      PROVE  sawTypes'[g] = types'
  <2>1. CASE g # h
    <3>1. sawTypes[g] = types
      BY <1>2, <1>5, <2>1, AloneBefore DEF SawInv
    <3>2. ~UpdateCustomer(h)
      BY <1>2, <1>3, <1>5, <2>1, UpdatesMeet DEF Ended
    <3>3. QED
      BY <1>2, <1>4, <2>1, <3>1, <3>2
  <2>2. CASE g = h
    <3>1. /\ UNCHANGED types /\ req'[h] = req[h]
          /\ \/ sawTypes'[h] = types
             \/ sawTypes'[h] = sawTypes[h] /\ pc[h] \in {"categories", "lists"}
      BY <1>1, <1>5, <2>2, SawSteps DEF lists
    <3>2. QED
      BY <1>5, <2>2, <3>1, AloneBefore DEF SawInv
  <2>3. QED
    BY <2>1, <2>2
<1>6. ASSUME NEW g \in Handlers, pc'[g] = "write", req'[g].kind = "create", g \in here'
      PROVE  sawTypes'[g] = types' \/ Missed(g)'
  <2>1. CASE g = h
    <3>1. UNCHANGED types
      <4>1. ~UpdateCustomer(h)
        BY <1>1, <1>3, <1>6, <2>1 DEF SubscriptionTypes, SubscriptionsTypeOK,
           SubscriptionsOnward, Onward
      <4>2. QED
        BY <1>4, <4>1
    <3>2. QED
      BY <1>1, <1>6, <2>1, <3>1, SawSteps
  <2>2. CASE g # h
    <3>1. pc[g] = "write" /\ req[g].kind = "create" /\ sawTypes'[g] = sawTypes[g] /\ g \in Followers
      BY <1>2, <1>6, <2>2, NoFollower
    <3>2. CASE g \notin here
      <4>1. Come(h) /\ req[h].follower = g
        BY <1>6, <3>2 DEF SubscriptionStep, ReceiveSubscriptionOp, FindCustomer, Find, FindCategories,
           FindLists, UpdateCustomer, CreateContact, Choose, DeleteContactTypes, DeleteContact,
           Come, Go, UpdateEvent, RetireCategory, SubscriptionFail, lists
      <4>2. pc[h] = "write" /\ req[h].kind = "come" /\ req[h] # NULL
        BY <1>1, <4>1, SubscriptionOpTypes DEF Come, Is, SubscriptionTypes, SubscriptionPhase
      <4>3. g \in met[h]
        BY <2>2, <3>1, <4>2 DEF SubscriptionsOnward, SubscriptionsInv, MetInv, InFlight, Ended
      <4>4. QED
        BY <4>1, <4>2, <4>3, AskedLasts DEF Missed
    <3>3. CASE g \in here /\ UpdateCustomer(h)
      <4>1. Overlapped(g)'
        BY <1>3, <2>2, <3>1, <3>3, UpdatesMeet DEF Ended
      <4>2. QED
        BY <4>1 DEF Missed
    <3>4. CASE g \in here /\ ~UpdateCustomer(h)
      <4>1. sawTypes[g] = types \/ Missed(g)
        BY <3>1, <3>4 DEF SawInv, Is
      <4>2. QED
        BY <1>4, <3>1, <3>4, <4>1, MissedLasts
    <3>5. QED
      BY <3>2, <3>3, <3>4
  <2>3. QED
    BY <2>1, <2>2
<1>7. ASSUME NEW g \in Handlers, pc'[g] = "write", req'[g].kind = "customer",
             req'[g].types # {}, NEW f \in There'
      PROVE  f \in sawList'[g] \/ Missed(f)'
  <2>1. f \in Followers /\ follows'[f] # NULL
    BY <1>1 DEF There, SubscriptionTypes, SubscriptionsTypeOK
  <2>2. CASE g = h
    <3>1. UNCHANGED lists /\ sawList'[h] = There
      BY <1>1, <1>7, <2>2, SawSteps
    <3>2. QED
      BY <1>7, <2>2, <3>1 DEF There, lists
  <2>3. CASE g # h
    <3>1. /\ pc[g] = "write" /\ req[g].kind = "customer" /\ req[g].types # {}
          /\ sawList'[g] = sawList[g]
      BY <1>2, <1>7, <2>3
    <3>2. CASE f \in There
      <4>1. f \in sawList[g] \/ Missed(f)
        BY <3>1, <3>2 DEF SawInv, Is
      <4>2. f \in Handlers => pc[f] # "idle"
        BY <1>1, <3>2 DEF There, SubscriptionTypes, SubscriptionPhase
      <4>3. QED
        BY <2>1, <3>1, <4>1, <4>2, MissedLasts
    <3>3. CASE f \notin There
      <4>1. \/ CreateContact(h) /\ f = h
            \/ Come(h) /\ f = req[h].follower
        <5>1. CASE TypesUpdated(h)
          <6>1. There' = There
            BY <1>1, <1>3, <5>1, CustomerWritten, FollowersWritten
            DEF TypesUpdated, There, SubscriptionTypes, SubscriptionsTypeOK, lists
          <6>2. QED
            BY <3>3, <6>1
        <5>2. CASE ~TypesUpdated(h)
          BY <1>1, <3>3, <5>2, FollowerSteps
        <5>3. QED
          BY <5>1, <5>2
      <4>2. /\ pc[h] = "write" /\ req[h] # NULL
            /\ Come(h) => req[h].kind = "come"
        BY <1>1, <4>1, SubscriptionOpTypes DEF CreateContact, Come, Is, SubscriptionTypes,
           SubscriptionPhase
      <4>3. Overlapped(h)' /\ req'[h] = req[h]
        BY <2>3, <3>1, <4>2, UpdatesMeet, AskedLasts DEF Ended
      <4>4. QED
        BY <4>1, <4>2, <4>3 DEF Missed
    <3>4. QED
      BY <3>2, <3>3
  <2>4. QED
    BY <2>2, <2>3
<1>8. QED
  BY <1>5, <1>6, <1>7 DEF SawInv, Is

\* One of two rows of a category was switched on beside the other, or during an
\* update.
Switched(r, s) ==
  \E g \in Handlers : /\ req[g] # NULL /\ req[g].kind = "switch" /\ req[g].row \in {r, s}
                      /\ g \in doubled \/ Overlapped(g)

\* Two active rows of a category are explained, and a row an update brings back
\* explains itself; what an update has read of the rows is as good as the rows.
CategoryInv ==
  Alone =>
    /\ \A r, s \in active : r[1] = s[1] /\ r # s => Switched(r, s)
    /\ \A h \in Handlers :
         req[h] # NULL /\ req[h].kind = "customer" /\ pc[h] \in {"lists", "write"} =>
           /\ \A r, s \in active \cup sawRows[h] : r[1] = s[1] /\ r # s => Switched(r, s)
           /\ \A r \in active \ sawRows[h] : Switched(r, r)

LEMMA SwitchedLasts ==
  ASSUME SubscriptionsOnward, doubled \subseteq doubled', NEW r, NEW s, Switched(r, s)
  PROVE  Switched(r, s)'
BY AskedLasts DEF Switched

\* What a step does to the active rows, and how many it adds.
LEMMA CategorySteps ==
  ASSUME SubscriptionTypes, NEW h \in Handlers, SubscriptionStep(h)
  PROVE  /\ doubled \subseteq doubled'
         /\ \/ UpdateCustomer(h) /\ active' \in {active, CategoriesAfter(h)}
            \/ active' \subseteq active
            \/ /\ pc[h] = "write" /\ req[h] # NULL /\ req[h].kind = "switch"
               /\ active' = active \cup {req[h].row}
               /\ (\E r \in active \ {req[h].row} : r[1] = req[h].row[1]) => h \in doubled'
<1>1. CASE UpdateCustomer(h)
  BY <1>1, CustomerWritten DEF lists
<1>2. CASE UpdateEvent(h)
  <2>1. pc[h] = "write" /\ req[h] # NULL /\ req[h].kind = "switch"
    BY <1>2, SubscriptionOpTypes DEF UpdateEvent, Is, SubscriptionTypes, SubscriptionPhase
  <2>2. QED
    BY <1>2, <2>1 DEF UpdateEvent
<1>3. CASE RetireCategory(h)
  BY <1>3 DEF RetireCategory, histories
<1>4. QED
  BY <1>1, <1>2, <1>3
  DEF SubscriptionStep, ReceiveSubscriptionOp, FindCustomer, Find, FindCategories,
      FindLists, CreateContact, Choose, DeleteContactTypes, DeleteContact, Come, Go,
      SubscriptionFail, lists, histories

LEMMA CategoryInvNext ==
  ASSUME SubscriptionsOnward, CategoryInv, NEW h \in Handlers, SubscriptionStep(h)
  PROVE  CategoryInv'
<1> SUFFICES ASSUME Alone'
             PROVE  /\ \A r, s \in active' : r[1] = s[1] /\ r # s => Switched(r, s)'
                    /\ \A g \in Handlers :
                         req'[g] # NULL /\ req'[g].kind = "customer" /\ pc'[g] \in {"lists", "write"} =>
                           /\ \A r, s \in active' \cup sawRows'[g] :
                                r[1] = s[1] /\ r # s => Switched(r, s)'
                           /\ \A r \in active' \ sawRows'[g] : Switched(r, r)'
  BY DEF CategoryInv
<1>1. SubscriptionTypes /\ SubscriptionFits(h) /\ Alone
  BY SubscriptionStepFits, AloneBefore DEF SubscriptionsOnward, SubscriptionsInv
<1>2. doubled \subseteq doubled'
  BY <1>1, CategorySteps
<1>3. \A r, s : Switched(r, s) => Switched(r, s)'
  BY <1>2, SwitchedLasts
<1>4. \A r, s \in active : r[1] = s[1] /\ r # s => Switched(r, s)
  BY <1>1 DEF CategoryInv
<1>5. ASSUME NEW g \in Handlers, req[g] # NULL, req[g].kind = "customer", pc[g] \in {"lists", "write"}
      PROVE  /\ \A r, s \in active \cup sawRows[g] : r[1] = s[1] /\ r # s => Switched(r, s)
             /\ \A r \in active \ sawRows[g] : Switched(r, r)
  BY <1>1, <1>5 DEF CategoryInv
<1>6. \A r, s : (Switched(r, r) => Switched(r, s) /\ Switched(s, r))
  BY DEF Switched
<1>7. ASSUME NEW r \in active', NEW s \in active', r[1] = s[1], r # s PROVE Switched(r, s)'
  <2>1. CASE active' \subseteq active
    BY <1>3, <1>4, <1>7, <2>1
  <2>2. CASE UpdateCustomer(h) /\ active' = CategoriesAfter(h)
    <3>1. pc[h] = "write" /\ req[h].kind = "customer" /\ req[h] # NULL
      BY <1>1, <2>2, CustomerWritten, SubscriptionOpTypes
    <3>2. /\ \A u, v \in active \cup sawRows[h] : u[1] = v[1] /\ u # v => Switched(u, v)
          /\ \A u \in active \ sawRows[h] : Switched(u, u)
      BY <1>5, <3>1
    <3>3. \A u \in active' : \/ u \in active \cup sawRows[h]
                             \/ /\ \A v \in sawRows[h] : v[1] # u[1]
                                /\ u = <<u[1], h>>
      BY <2>2 DEF CategoriesAfter, Kept
    <3>4. CASE r \in active \cup sawRows[h] /\ s \in active \cup sawRows[h]
      BY <1>3, <1>7, <3>2, <3>4
    <3>5. CASE r \in active \cup sawRows[h] /\ s \notin active \cup sawRows[h]
      <4>1. r \in active \ sawRows[h]
        BY <1>7, <3>3, <3>5
      <4>2. QED
        BY <1>3, <1>6, <3>2, <4>1
    <3>6. CASE r \notin active \cup sawRows[h] /\ s \in active \cup sawRows[h]
      <4>1. s \in active \ sawRows[h]
        BY <1>7, <3>3, <3>6
      <4>2. QED
        BY <1>3, <1>6, <3>2, <4>1
    <3>7. CASE r \notin active \cup sawRows[h] /\ s \notin active \cup sawRows[h]
      BY <1>7, <3>3, <3>7
    <3>8. QED
      BY <3>4, <3>5, <3>6, <3>7
  <2>3. CASE /\ pc[h] = "write" /\ req[h] # NULL /\ req[h].kind = "switch"
             /\ active' = active \cup {req[h].row}
             /\ (\E u \in active \ {req[h].row} : u[1] = req[h].row[1]) => h \in doubled'
    <3>1. CASE r \in active /\ s \in active
      BY <1>3, <1>4, <1>7, <3>1
    <3>2. CASE r = req[h].row \/ s = req[h].row
      <4>1. h \in doubled' /\ req'[h] = req[h]
        BY <1>7, <2>3, <3>2, AskedLasts
      <4>2. QED
        BY <2>3, <3>2, <4>1 DEF Switched
    <3>3. QED
      BY <2>3, <3>1, <3>2
  <2>4. QED
    BY <1>1, <2>1, <2>2, <2>3, CategorySteps
<1>8. ASSUME NEW g \in Handlers, req'[g] # NULL, req'[g].kind = "customer",
             pc'[g] \in {"lists", "write"}
      PROVE  /\ \A r, s \in active' \cup sawRows'[g] : r[1] = s[1] /\ r # s => Switched(r, s)'
             /\ \A r \in active' \ sawRows'[g] : Switched(r, r)'
  <2>1. CASE g = h
    <3>1. /\ UNCHANGED active /\ req'[h] = req[h]
          /\ \/ sawRows'[h] = active
             \/ pc[h] = "lists" /\ sawRows'[h] = sawRows[h]
      BY <1>1, <1>8, <2>1, SawSteps DEF lists
    <3>2. CASE sawRows'[h] = active
      BY <1>3, <1>4, <2>1, <3>1, <3>2
    <3>3. CASE pc[h] = "lists" /\ sawRows'[h] = sawRows[h]
      BY <1>3, <1>5, <1>8, <2>1, <3>1, <3>3
    <3>4. QED
      BY <3>1, <3>2, <3>3
  <2>2. CASE g # h
    <3>1. /\ req[g] # NULL /\ req[g].kind = "customer" /\ pc[g] \in {"lists", "write"}
          /\ sawRows'[g] = sawRows[g]
      BY <1>1, <1>8, <2>2 DEF SubscriptionFits
    <3>2. /\ \A r, s \in active \cup sawRows[g] : r[1] = s[1] /\ r # s => Switched(r, s)
          /\ \A r \in active \ sawRows[g] : Switched(r, r)
      BY <1>5, <3>1
    <3>3. CASE active' \subseteq active
      BY <1>3, <3>1, <3>2, <3>3
    <3>4. CASE UpdateCustomer(h)
      <4>1. pc[h] = "write" /\ req[h].kind = "customer"
        BY <1>1, <3>4, CustomerWritten
      <4>2. QED
        BY <2>2, <3>1, <4>1, UpdatesMeet DEF Ended
    <3>5. CASE /\ pc[h] = "write" /\ req[h] # NULL /\ req[h].kind = "switch"
               /\ active' = active \cup {req[h].row}
      <4>1. Overlapped(h)' /\ req'[h] = req[h]
        BY <2>2, <3>1, <3>5, UpdatesMeet, AskedLasts DEF Ended
      <4>2. \A r : Switched(req[h].row, r)' /\ Switched(r, req[h].row)'
        BY <3>5, <4>1 DEF Switched
      <4>3. ASSUME NEW r \in active' \cup sawRows'[g], NEW s \in active' \cup sawRows'[g],
                   r[1] = s[1], r # s
            PROVE  Switched(r, s)'
        <5>1. CASE r = req[h].row \/ s = req[h].row
          BY <4>1, <4>2, <5>1
        <5>2. CASE r \in active \cup sawRows[g] /\ s \in active \cup sawRows[g]
          BY <1>3, <3>2, <4>3, <5>2
        <5>3. QED
          BY <3>1, <3>5, <5>1, <5>2
      <4>4. ASSUME NEW r \in active' \ sawRows'[g] PROVE Switched(r, r)'
        <5>1. CASE r = req[h].row
          BY <4>1, <4>2, <5>1
        <5>2. CASE r \in active \ sawRows[g]
          BY <1>3, <3>2, <5>2
        <5>3. QED
          BY <3>1, <3>5, <5>1, <5>2
      <4>5. QED
        BY <4>3, <4>4
    <3>6. QED
      BY <1>1, <3>3, <3>4, <3>5, CategorySteps
  <2>3. QED
    BY <2>1, <2>2
<1>9. QED
  BY <1>7, <1>8

\* A deletion of f between its two steps, or stopped there.
Deleting(f) ==
  \E d \in Handlers : /\ req[d] # NULL /\ pc[d] \in {"write", "failed"}
                      /\ req[d].kind = "delete" /\ req[d].follower = f

FollowInv ==
  Alone => \A f \in There :
    \/ \A t \in Types \ apart[f] : follows[f][t] = Once(Due(f))[t]
    \/ Missed(f)
    \/ Deleting(f)

\* Even of a deletion under way no type is left that the customer has not.
OnceInv ==
  Alone => \A f \in There : \A t \in Types \ apart[f] :
    \/ Missed(f)
    \/ follows[f][t] = 0
    \/ follows[f][t] = 1 /\ t \in Due(f)

FollowersInv == SawInv /\ CategoryInv /\ FollowInv /\ OnceInv

\* An update that met no other turns who follows the old types into who follows
\* the new.
LEMMA FollowersTurned ==
  ASSUME SubscriptionTypes, SawInv, Alone, NEW h \in Handlers, TypesUpdated(h)
  PROVE  /\ There' = There
         /\ \A f \in There :
              /\ apart'[f] = apart[f] \ (types \ types')
              /\ \/ Missed(f)
                 \/ \A t \in Types :
                      follows'[f][t] = IF t \in types \ types' THEN 0
                                       ELSE IF t \notin types' \ types \/ (f \in Monitors /\ t = ArrivedWell)
                                       THEN follows[f][t]
                                       ELSE IF f \in Monitors THEN 1 ELSE follows[f][t] + 1
<1>1. /\ pc[h] = "write" /\ req[h].kind = "customer" /\ req[h].types # {} /\ req[h] # NULL
      /\ types' = req[h].types /\ UNCHANGED here
      /\ \A f \in sawList[h] : follows[f] # NULL
      /\ follows' = [f \in Followers |-> IF f \in sawList[h]
                                         THEN Follower(h, f, follows[f]) ELSE follows[f]]
      /\ apart' = [f \in Followers |-> apart[f] \ (types \ types')]
  <2>1. \A phase : pc' = [pc EXCEPT ![h] = phase] => pc'[h] = phase
    BY DEF SubscriptionTypes, SubscriptionsTypeOK
  <2>2. QED
    BY <2>1, CustomerWritten, SubscriptionOpTypes DEF TypesUpdated
<1>2. Added(h) = types' \ types /\ Removed(h) = types \ types'
  BY <1>1 DEF SawInv, Added, Removed
<1>3. /\ \A f \in Followers : follows'[f] = NULL <=> follows[f] = NULL
      /\ \A f \in sawList[h] : \A t \in Types :
           follows'[f][t] = IF t \in Removed(h) THEN 0
                            ELSE IF t \notin Added(h) \/ (f \in Monitors /\ t = ArrivedWell)
                            THEN follows[f][t]
                            ELSE IF f \in Monitors THEN 1 ELSE follows[f][t] + 1
  BY <1>1, FollowersWritten DEF SubscriptionTypes
<1>4. \A f \in There : f \in Followers
  BY DEF There, SubscriptionTypes, SubscriptionsTypeOK
<1>5. There' = There
  BY <1>1, <1>3 DEF There, SubscriptionTypes, SubscriptionsTypeOK
<1>6. \A f \in There : f \in sawList[h] \/ Missed(f)
  BY <1>1 DEF SawInv, Is
<1>7. QED
  BY <1>1, <1>2, <1>3, <1>4, <1>5, <1>6

LEMMA DeletingLasts ==
  ASSUME SubscriptionsOnward, NEW h \in Handlers, SubscriptionStep(h),
         NEW f \in Followers, Deleting(f), follows'[f] # NULL
  PROVE  Deleting(f)'
<1>1. PICK d \in Handlers : /\ req[d] # NULL /\ pc[d] \in {"write", "failed"}
                            /\ req[d].kind = "delete" /\ req[d].follower = f
  BY DEF Deleting
<1>2. req'[d] = req[d] /\ (pc[d] = "failed" => pc'[d] = "failed")
  BY <1>1 DEF SubscriptionsOnward, Onward, Ended
<1>3. SubscriptionTypes /\ SubscriptionTypes' /\ SubscriptionFits(h)
  BY SubscriptionStepFits DEF SubscriptionsOnward, SubscriptionsInv
<1>4. CASE d # h
  BY <1>1, <1>2, <1>3, <1>4 DEF SubscriptionFits, Deleting
<1>5. CASE d = h /\ pc[h] = "write"
  <2>1. DeleteContact(h) \/ SubscriptionFail(h)
    BY <1>1, <1>5 DEF SubscriptionStep, ReceiveSubscriptionOp, Receive, FindCustomer, Find,
       FindCategories, FindLists, UpdateCustomer, CreateContact, Choose, DeleteContactTypes,
       Come, Go, UpdateEvent, RetireCategory, Is
  <2>2. pc'[h] = "failed"
    <3>1. follows' # [follows EXCEPT ![f] = NULL]
      BY <1>3 DEF SubscriptionTypes, SubscriptionsTypeOK
    <3>2. \A phase : Goto(h, phase) => pc'[h] = phase
      BY <1>3 DEF Goto, SubscriptionTypes, SubscriptionsTypeOK
    <3>3. QED
      BY <1>1, <1>5, <2>1, <3>1, <3>2 DEF DeleteContact, SubscriptionFail, BreakOff
  <2>3. QED
    BY <1>1, <1>2, <1>5, <2>2 DEF Deleting
<1>6. QED
  BY <1>1, <1>2, <1>4, <1>5 DEF Deleting

\* A contact is created with the customer's types, unless it missed an update.
LEMMA CreatedWell ==
  ASSUME SubscriptionsOnward, SawInv, NEW h \in Handlers, CreateContact(h), h \in here,
         UNCHANGED types, follows'[h] = Once(sawTypes[h])
  PROVE  Missed(h)' \/ follows'[h] = Once(Due(h)')
<1>1. Is(h, "create", "write") /\ pc[h] # "idle" /\ h \in Followers /\ h \notin Monitors
  BY NoFollower DEF CreateContact, Is
<1>2. sawTypes[h] = types \/ Missed(h)
  BY <1>1 DEF SawInv
<1>3. CASE Missed(h)
  BY <1>1, <1>3, MissedLasts
<1>4. CASE sawTypes[h] = types
  BY <1>1, <1>4 DEF Due
<1>5. QED
  BY <1>2, <1>3, <1>4

LEMMA FollowInvNext ==
  ASSUME SubscriptionsOnward, FollowersInv, NEW h \in Handlers, SubscriptionStep(h)
  PROVE  FollowInv'
<1> SUFFICES ASSUME Alone', NEW f \in There'
             PROVE  \/ \A t \in Types \ apart'[f] : follows'[f][t] = Once(Due(f)')[t]
                    \/ Missed(f)'
                    \/ Deleting(f)'
  BY DEF FollowInv, Once
<1>1. SubscriptionTypes /\ SubscriptionTypes' /\ SubscriptionFits(h) /\ Alone
  BY SubscriptionStepFits, AloneBefore DEF SubscriptionsOnward, SubscriptionsInv
<1>2. f \in Followers /\ follows'[f] # NULL /\ follows'[f] \in [Types -> Nat]
  BY <1>1 DEF There, SubscriptionTypes, SubscriptionsTypeOK
<1>3. \A ts, t : t \in Types => Once(ts)[t] = IF t \in ts THEN 1 ELSE 0
  BY DEF Once
<1>4. ASSUME f \in There
      PROVE  \/ \A t \in Types \ apart[f] : follows[f][t] = Once(Due(f))[t]
             \/ Missed(f) /\ Missed(f)'
             \/ Deleting(f)'
  <2>1. f \in Handlers => pc[f] # "idle"
    BY <1>1, <1>4 DEF There, SubscriptionTypes, SubscriptionPhase
  <2>2. QED
    BY <1>1, <1>2, <1>4, <2>1, MissedLasts, DeletingLasts DEF FollowersInv, FollowInv
<1>5. CASE TypesUpdated(h)
  <2>1. /\ f \in There /\ apart'[f] = apart[f] \ (types \ types')
        /\ \/ Missed(f)
           \/ \A t \in Types :
                follows'[f][t] = IF t \in types \ types' THEN 0
                                 ELSE IF t \notin types' \ types \/ (f \in Monitors /\ t = ArrivedWell)
                                 THEN follows[f][t]
                                 ELSE IF f \in Monitors THEN 1 ELSE follows[f][t] + 1
    BY <1>1, <1>5, FollowersTurned DEF FollowersInv
  <2>2. CASE Missed(f)
    <3>1. f \in Handlers => pc[f] # "idle"
      BY <1>1, <2>1 DEF There, SubscriptionTypes, SubscriptionPhase
    <3>2. QED
      BY <1>2, <2>2, <3>1, MissedLasts
  <2>3. CASE Deleting(f)'
    BY <2>3
  <2>4. CASE ~Missed(f) /\ ~Deleting(f)'
    <3>1. ASSUME NEW t \in Types, t \notin apart'[f]
          PROVE  follows'[f][t] = Once(Due(f)')[t]
      <4>1. t \in types \ types' \/ follows[f][t] = Once(Due(f))[t]
        BY <1>4, <2>1, <2>4, <3>1
      <4>2. CASE f \in Monitors
        BY <1>3, <2>1, <2>4, <4>1, <4>2 DEF Due
      <4>3. CASE f \notin Monitors
        BY <1>3, <2>1, <2>4, <4>1, <4>3 DEF Due
      <4>4. QED
        BY <4>2, <4>3
    <3>2. QED
      BY <3>1
  <2>5. QED
    BY <2>2, <2>3, <2>4
<1>6. CASE ~TypesUpdated(h)
  <2>1. /\ UNCHANGED types
        /\ \/ f \in There /\ follows'[f] = follows[f] /\ apart'[f] = apart[f]
           \/ /\ CreateContact(h) /\ f = h /\ h \in here
              /\ follows'[f] = Once(sawTypes[h])
           \/ apart'[f] = Apart(f, follows'[f])
           \/ /\ DeleteContactTypes(h) /\ f = req[h].follower /\ pc'[h] = "write"
    BY <1>1, <1>6, FollowerSteps
  <2>2. CASE f \in There /\ follows'[f] = follows[f] /\ apart'[f] = apart[f]
    BY <1>4, <2>1, <2>2 DEF Due
  <2>3. CASE CreateContact(h) /\ f = h /\ h \in here /\ follows'[f] = Once(sawTypes[h])
    BY <2>1, <2>3, CreatedWell DEF FollowersInv
  <2>4. CASE apart'[f] = Apart(f, follows'[f])
    BY <2>1, <2>4 DEF Apart, Due
  <2>5. CASE DeleteContactTypes(h) /\ f = req[h].follower /\ pc'[h] = "write"
    <3>1. req[h].kind = "delete" /\ req'[h] = req[h] /\ req[h] # NULL
      BY <1>1, <2>5, SubscriptionOpTypes, AskedLasts DEF DeleteContactTypes, Is, SubscriptionTypes,
         SubscriptionPhase
    <3>2. QED
      BY <2>5, <3>1 DEF Deleting
  <2>6. QED
    BY <2>1, <2>2, <2>3, <2>4, <2>5
<1>7. QED
  BY <1>5, <1>6

LEMMA OnceInvNext ==
  ASSUME SubscriptionsOnward, FollowersInv, NEW h \in Handlers, SubscriptionStep(h)
  PROVE  OnceInv'
<1> SUFFICES ASSUME Alone', NEW f \in There', NEW t \in Types, t \notin apart'[f]
             PROVE  \/ Missed(f)'
                    \/ follows'[f][t] = 0
                    \/ follows'[f][t] = 1 /\ t \in Due(f)'
  BY DEF OnceInv
<1>1. SubscriptionTypes /\ SubscriptionTypes' /\ SubscriptionFits(h) /\ Alone
  BY SubscriptionStepFits, AloneBefore DEF SubscriptionsOnward, SubscriptionsInv
<1>2. f \in Followers /\ follows'[f] # NULL
  BY <1>1 DEF There, SubscriptionTypes, SubscriptionsTypeOK
<1>3. \A ts : Once(ts)[t] = IF t \in ts THEN 1 ELSE 0
  BY DEF Once
<1>4. ASSUME f \in There, t \notin apart[f]
      PROVE  \/ Missed(f)'
             \/ follows[f][t] = 0
             \/ follows[f][t] = 1 /\ t \in Due(f)
  <2>1. f \in Handlers => pc[f] # "idle"
    BY <1>1, <1>4 DEF There, SubscriptionTypes, SubscriptionPhase
  <2>2. QED
    BY <1>1, <1>2, <1>4, <2>1, MissedLasts DEF FollowersInv, OnceInv
<1>5. CASE TypesUpdated(h)
  <2>1. /\ f \in There /\ apart'[f] = apart[f] \ (types \ types')
        /\ \/ Missed(f)
           \/ follows'[f][t] = IF t \in types \ types' THEN 0
                               ELSE IF t \notin types' \ types \/ (f \in Monitors /\ t = ArrivedWell)
                               THEN follows[f][t]
                               ELSE IF f \in Monitors THEN 1 ELSE follows[f][t] + 1
    BY <1>1, <1>5, FollowersTurned DEF FollowersInv
  <2>2. CASE Missed(f)
    <3>1. f \in Handlers => pc[f] # "idle"
      BY <1>1, <2>1 DEF There, SubscriptionTypes, SubscriptionPhase
    <3>2. QED
      BY <1>2, <2>2, <3>1, MissedLasts
  <2>3. CASE t \in types \ types' /\ ~Missed(f)
    BY <2>1, <2>3
  <2>4. CASE t \notin types \ types' /\ ~Missed(f)
    <3>1. \/ Missed(f)'
          \/ follows[f][t] = 0
          \/ follows[f][t] = 1 /\ t \in Due(f)
      BY <1>4, <2>1, <2>4
    <3>2. QED
      BY <2>1, <2>4, <3>1 DEF Due
  <2>5. QED
    BY <2>2, <2>3, <2>4
<1>6. CASE ~TypesUpdated(h)
  <2>1. /\ UNCHANGED types
        /\ \/ f \in There /\ follows'[f] = follows[f] /\ apart'[f] = apart[f]
           \/ /\ CreateContact(h) /\ f = h /\ h \in here
              /\ follows'[f] = Once(sawTypes[h])
           \/ apart'[f] = Apart(f, follows'[f])
           \/ follows'[f] = Once({})
    BY <1>1, <1>6, FollowerSteps
  <2>2. CASE f \in There /\ follows'[f] = follows[f] /\ apart'[f] = apart[f]
    BY <1>4, <2>1, <2>2 DEF Due
  <2>3. CASE CreateContact(h) /\ f = h /\ h \in here /\ follows'[f] = Once(sawTypes[h])
    <3>1. Missed(f)' \/ follows'[f] = Once(Due(f)')
      BY <2>1, <2>3, CreatedWell DEF FollowersInv
    <3>2. QED
      BY <1>3, <3>1
  <2>4. CASE apart'[f] = Apart(f, follows'[f])
    <3>1. follows'[f][t] = Once(Due(f))[t]
      BY <2>4 DEF Apart
    <3>2. QED
      BY <1>3, <2>1, <3>1 DEF Due
  <2>5. CASE follows'[f] = Once({})
    BY <1>3, <2>5
  <2>6. QED
    BY <2>1, <2>2, <2>3, <2>4, <2>5
<1>7. QED
  BY <1>5, <1>6

LEMMA FollowersInvariant == SubscriptionsSpec => []FollowersInv
<1>1. SubscriptionsInit => FollowersInv
  <2> SUFFICES ASSUME SubscriptionsInit PROVE FollowersInv
    OBVIOUS
  <2>1. SawInv
    BY DEF SubscriptionsInit, NoRequests, SawInv, Is
  <2>2. PICK fs \in SUBSET (PriorContacts \cup Monitors) :
          follows = [f \in Followers |-> IF f \in fs THEN Once(Due(f)) ELSE NULL]
    BY DEF SubscriptionsInit
  <2>3. \A f \in There : follows[f] = Once(Due(f))
    <3>1. There \subseteq Followers
      BY SubscriptionTypesInit DEF There, SubscriptionTypes, SubscriptionsTypeOK
    <3>2. QED
      BY <2>2, <3>1 DEF There
  <2>4. FollowInv
    BY <2>3 DEF FollowInv
  <2>5. OnceInv
    BY <2>3 DEF OnceInv, Once
  <2>6. CategoryInv
    BY DEF SubscriptionsInit, NoRequests, CategoryInv
  <2>7. QED
    BY <2>1, <2>4, <2>5, <2>6 DEF FollowersInv
<1>2. SubscriptionsInv /\ FollowersInv /\ [SubscriptionsNext]_subscriptionsVars => FollowersInv'
  <2> SUFFICES ASSUME SubscriptionsInv, FollowersInv, [SubscriptionsNext]_subscriptionsVars
               PROVE  FollowersInv'
    OBVIOUS
  <2>1. SubscriptionsOnward
    BY SubscriptionsInvNext
  <2>2. CASE UNCHANGED subscriptionsVars
    <3> USE <2>2 DEF subscriptionsVars, lists, handling, saw, histories, FollowersInv, Alone,
            Updates, Overlapped, There, Once, Missed, Due
    <3>1. SawInv'
      BY DEF SawInv, Is
    <3>2. FollowInv'
      BY DEF FollowInv, Deleting
    <3>3. OnceInv'
      BY DEF OnceInv
    <3>4. CategoryInv'
      BY DEF CategoryInv, Switched
    <3>5. QED
      BY <3>1, <3>2, <3>3, <3>4
  <2>3. QED
    BY <2>1, <2>2, SawInvNext, CategoryInvNext, FollowInvNext, OnceInvNext
    DEF SubscriptionsNext, FollowersInv
<1>3. QED
  BY <1>1, <1>2, SubscriptionsInvariant, PTL DEF SubscriptionsSpec

\* Who follows the customer's alert types has exactly them once nothing is under
\* way, but for the types somebody chose or brought along since: an update writes
\* differences to what it read (customers.service.ts update), which is right as
\* long as no other update was under way; and only a follower created, or come,
\* beside one, or half deleted, is left out.
THEOREM FollowersHaveTheTypes == SubscriptionsSpec => []FollowersAgree
<1>1. FollowersInv => FollowersAgree
  <2> SUFFICES ASSUME FollowersInv, Quiet, Alone, NEW f \in There
               PROVE  \/ \A t \in Types \ apart[f] : follows[f][t] = Once(Due(f))[t]
                      \/ Missed(f)
                      \/ \E d \in Handlers : /\ req[d] # NULL /\ pc[d] = "failed"
                                             /\ req[d].kind = "delete" /\ req[d].follower = f
    BY DEF FollowersAgree
  <2>1. \A d \in Handlers : pc[d] # "write"
    BY DEF Quiet, InFlight, Ended
  <2>2. QED
    BY <2>1 DEF FollowersInv, FollowInv, Deleting
<1>2. QED
  BY <1>1, FollowersInvariant, PTL

\* The differences double nothing by themselves: as long as updates of the customer
\* come one after the other, a follower is subscribed twice only to a type somebody
\* set apart, or by missing an update, and a category has two active rows only by a
\* row switched on by hand, although no unique key of the tables says so.
THEOREM DifferencesDoubleNothing == SubscriptionsSpec => []ListsKeepNoDoubles
<1>1. FollowersInv => SubscribedOnce
  <2> SUFFICES ASSUME FollowersInv, Alone, NEW f \in There, NEW t \in Types \ apart[f]
               PROVE  follows[f][t] <= 1 \/ Missed(f)
    BY DEF SubscribedOnce
  <2>1. Missed(f) \/ follows[f][t] = 0 \/ follows[f][t] = 1
    BY DEF FollowersInv, OnceInv
  <2>2. QED
    BY <2>1
<1>2. FollowersInv => CategoryOnce
  BY DEF FollowersInv, CategoryInv, CategoryOnce, Switched
<1>3. QED
  BY <1>1, <1>2, FollowersInvariant, PTL DEF ListsKeepNoDoubles
=============================================================================
