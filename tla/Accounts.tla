-------------------------------- MODULE Accounts --------------------------------
(***************************************************************************)
(* The accounts of one person, who is known by a phone number: residents   *)
(* register with a customer whose list of residents names them (or with a  *)
(* government, which has no list), move to another customer with its       *)
(* secret key, and delete their account; administrators create accounts,   *)
(* assign them to customers and give them lots, and edit the lists         *)
(* (users.service.ts, authorized-users.service.ts).                        *)
(*                                                                         *)
(* An account is named after the request that inserts it, or is in         *)
(* PriorAccts.  The list entry of the person at customer c is entry[c].    *)
(* The phone number is the only name; a deleted account has another,       *)
(* Deleted[phone].                                                         *)
(* The database keeps (name, type) unique, but not for accounts without a  *)
(* type, which are those administrators create.                            *)
(***************************************************************************)
EXTENDS RequestHandling

CONSTANTS
  PriorAccts,  \* accounts there may be from the start
  Customers,
  Governments, \* the customers that are governments
  Lots,
  AccountOps   \* what a request may ask for

Accts == Handlers \cup PriorAccts

AccountOp == [kind : {"register", "create"}, customer : Customers]
        \cup [kind : {"reassign"}, customer : Customers \cup {NULL}, account : Accts,
              lot : Lots \cup {NULL}]  \* NULL: not in the request
        \cup [kind : {"move"}, customer : Customers \ Governments, account : Accts]
        \cup [kind : {"delete"}, account : Accts]
        \cup [kind : {"edit"}, customer : Customers \ Governments, lot : Lots, active : BOOLEAN]

Account == [name : {"phone", "deleted"}, type : {"business", "government", "none"},
            home : Customers, entry : Customers \cup {NULL}, lot : Lots \cup {NULL},
            removed : BOOLEAN, code : Handlers \cup {NULL}]
Entry == [lot : Lots, active : BOOLEAN]

ASSUME AccountsAssumption ==
  /\ Handlers \cap PriorAccts = {}
  /\ NULL \notin Accts \cup Account \cup Customers \cup Lots
  /\ Governments \subseteq Customers
  /\ AccountOps \subseteq AccountOp

VARIABLES
  acct,   \* acct[a]: the row of account a, NULL until it is inserted
  entry,  \* entry[c]: the person's row in the list of customer c
  text,   \* text[a]: the registration whose code was last texted for account a
  target, \* target[h]: the account h found, or is to change
  lot,    \* lot[h]: the lot of the entry h read or wrote
  known,  \* known[h]: the account h found was of the customer it registers with
  beside, \* history: beside[h], the accounts that had the name when h inserted one
  given   \* history: given[a], the lot of account a is one a reassign gave it

local == <<req, target, lot, known>>
accountsVars == <<acct, entry, text, handling, target, lot, known, beside, given>>

Named == {a \in Accts : acct[a] # NULL /\ acct[a].name = "phone"}
Linked(c) == {a \in Accts : acct[a] # NULL /\ acct[a].entry = c}
Type(c) == IF c \in Governments THEN "government" ELSE "business"

\* The unique index lets account a have this name and type.
Unique(a, name, type) ==
  type = "none" \/ \A b \in Accts \ {a} :
    acct[b] # NULL => <<acct[b].name, acct[b].type>> # <<name, type>>

-----------------------------------------------------------------------------
AccountsInit ==
  /\ entry \in [Customers \ Governments -> [lot : Lots, active : {TRUE}]]
  /\ \/ acct = [a \in Accts |-> NULL]
     \/ \E p \in PriorAccts, c \in Customers \ Governments :  \* created, then moved
          acct = [a \in Accts |-> IF a # p THEN NULL ELSE
            [name |-> "phone", type |-> "none", home |-> c, removed |-> FALSE,
             code |-> NULL, entry |-> c, lot |-> entry[c].lot]]
  /\ text = [a \in Accts |-> NULL]
  /\ NoRequests
  /\ target = [h \in Handlers |-> NULL]
  /\ lot = [h \in Handlers |-> NULL]
  /\ known = [h \in Handlers |-> FALSE]
  /\ beside = [h \in Handlers |-> {}]
  /\ given = [a \in Accts |-> FALSE]

Tables == <<acct, entry, text, beside, given>>

FirstAwait(op) ==
  CASE op.kind = "register" -> IF op.customer \in Governments THEN "account" ELSE "entry"
    [] op.kind = "create" -> "name"
    [] op.kind = "edit" -> "write"
    [] OTHER -> "account"

ReceiveAccountOp(h, op) ==
  /\ Receive(h, op, FirstAwait(op))
  /\ UNCHANGED <<Tables, target, lot, known>>

\* register and move read the person's entry.  Registering wants an active
\* one; moving does not ask.
FindEntryWhole(h) ==  \* mutant: the entry is taken for its lot
  /\ pc[h] = "entry"
  /\ lot' = [lot EXCEPT ![h] = entry[req[h].customer]]
  /\ Goto(h, IF req[h].kind = "register" THEN "account" ELSE "write")
  /\ UNCHANGED <<Tables, req, target, known, met>>
FindEntry(h) ==
  /\ pc[h] = "entry"
  /\ LET e == entry[req[h].customer] IN
     IF req[h].kind = "register" /\ ~e.active
     THEN Goto(h, "refused") /\ UNCHANGED lot
     ELSE /\ lot' = [lot EXCEPT ![h] = e.lot]
          /\ Goto(h, IF req[h].kind = "register" THEN "account" ELSE "write")
  /\ UNCHANGED <<Tables, req, target, known, met>>

\* register looks for the account of the customer's type.
FindAccount(h) ==
  /\ Is(h, "register", "account")
  /\ LET c == req[h].customer
         found == {a \in Named : acct[a].type = Type(c)} IN
     \/ /\ found = {}
        /\ UNCHANGED <<target, known>>
     \/ \E a \in found :
          /\ target' = [target EXCEPT ![h] = a]
          /\ known' = [known EXCEPT ![h] = acct[a].home = c /\ c \notin Governments]
  /\ Goto(h, "write")
  /\ UNCHANGED <<Tables, req, lot, met>>

\* move and reassign read the account they are to change; the entry is looked
\* up by the name it had.  delete reads it for its record of the deletion.
ReadAccount(h) ==
  /\ pc[h] = "account" /\ req[h].kind \in {"move", "reassign", "delete"}
  /\ LET a == req[h].account IN
     IF \/ acct[a] = NULL
        \/ req[h].kind = "move" /\ acct[a].name # "phone"
     THEN Goto(h, "refused") /\ UNCHANGED target
     ELSE /\ target' = [target EXCEPT ![h] = a]
          /\ Goto(h, IF req[h].kind = "move" THEN "entry" ELSE "write")
  /\ UNCHANGED <<Tables, req, lot, known, met>>

\* create asks whether the name is taken, by an account of any type.
ValidateUsernameTyped(h) ==  \* mutant: only accounts without a type count
  /\ Is(h, "create", "name")
  /\ Goto(h, IF \E a \in Named : acct[a].type = "none" THEN "refused" ELSE "write")
  /\ UNCHANGED <<Tables, local, met>>
ValidateUsername(h) ==
  /\ Is(h, "create", "name")
  /\ Goto(h, IF Named # {} THEN "refused" ELSE "write")
  /\ UNCHANGED <<Tables, local, met>>

NewRow(h) ==
  LET c == req[h].customer IN
  [name |-> "phone", type |-> Type(c), home |-> c, removed |-> FALSE, code |-> h,
   entry |-> IF c \in Governments THEN NULL ELSE c, lot |-> lot[h]]

\* What register writes to the account it found, or inserts: for a resident
\* already registered with the customer only a new code, which is the password.
RegisteredOnce(h) ==  \* mutant: who has an account keeps its code
  IF target[h] = NULL THEN NewRow(h) ELSE acct[target[h]]
Registered(h) ==
  LET c == req[h].customer
      code(r) == [r EXCEPT !.code = h]
      named(r) == [code(r) EXCEPT !.name = "phone", !.type = Type(c), !.home = c]
      listed(r) == [named(r) EXCEPT !.entry = c, !.lot = lot[h]] IN
  IF target[h] = NULL THEN NewRow(h)
  ELSE IF known[h] THEN code(acct[target[h]])
  ELSE IF c \in Governments THEN named(acct[target[h]])
  ELSE listed(acct[target[h]])

RenewsLot(h) == target[h] = NULL \/ (~known[h] /\ req[h].customer \notin Governments)
RegisteredAt(h) == IF target[h] = NULL THEN h ELSE target[h]

WriteRegistration(h) ==
  /\ Is(h, "register", "write")
  /\ LET a == RegisteredAt(h)
         row == Registered(h) IN
     IF Unique(a, row.name, row.type)
     THEN /\ acct' = [acct EXCEPT ![a] = row]
          /\ target' = [target EXCEPT ![h] = a]
          /\ beside' = [beside EXCEPT ![h] = IF a = h THEN Named ELSE {}]
          /\ given' = [given EXCEPT ![a] = @ /\ ~RenewsLot(h)]
          /\ Goto(h, "text")
     ELSE Goto(h, "collided") /\ UNCHANGED <<acct, target, beside, given>>
  /\ UNCHANGED <<entry, text, req, lot, known, met>>

\* The code is texted; an error of the provider is logged and no more.
SendText(h) ==
  /\ pc[h] = "text"
  /\ \/ text' = [text EXCEPT ![target[h]] = h] /\ Goto(h, "done")
     \/ UNCHANGED text /\ Goto(h, "untold")
  /\ UNCHANGED <<acct, entry, local, met, beside, given>>

\* An account without a type never collides.
Create(h) ==
  /\ Is(h, "create", "write")
  /\ acct' = [acct EXCEPT ![h] =
       [name |-> "phone", type |-> "none", home |-> req[h].customer, removed |-> FALSE,
        code |-> NULL, entry |-> NULL, lot |-> NULL]]
  /\ beside' = [beside EXCEPT ![h] = Named]
  /\ Goto(h, "done")
  /\ UNCHANGED <<entry, text, local, met, given>>

Move(h) ==
  /\ Is(h, "move", "write")
  /\ acct' = [acct EXCEPT ![target[h]].home = req[h].customer,
                          ![target[h]].entry = req[h].customer,
                          ![target[h]].lot = lot[h]]
  /\ given' = [given EXCEPT ![target[h]] = FALSE]
  /\ Goto(h, "done")
  /\ UNCHANGED <<entry, text, local, met, beside>>

\* The customer, the lot, or both; the link to the entry of the former customer
\* stays, and no entry hears of the lot.
Reassign(h) ==
  /\ Is(h, "reassign", "write")
  /\ LET c == req[h].customer
         l == req[h].lot IN
     /\ acct' = [acct EXCEPT ![target[h]].home = IF c = NULL THEN @ ELSE c,
                             ![target[h]].lot = IF l = NULL THEN @ ELSE l]
     /\ given' = [given EXCEPT ![target[h]] = @ \/ l # NULL]
  /\ Goto(h, "done")
  /\ UNCHANGED <<entry, text, local, met, beside>>

\* One transaction.  The name is the one in the caller's token.
DeleteLinked(h) ==  \* mutant: the entry keeps the account
  /\ Is(h, "delete", "write")
  /\ acct' = [acct EXCEPT ![target[h]].removed = TRUE, ![target[h]].name = "deleted"]
  /\ Goto(h, "done")
  /\ UNCHANGED <<entry, text, local, met, beside, given>>
DeleteAcc(h) ==
  /\ Is(h, "delete", "write")
  /\ IF Unique(target[h], "deleted", acct[target[h]].type)
     THEN /\ acct' = [acct EXCEPT ![target[h]].removed = TRUE,
                                  ![target[h]].name = "deleted",
                                  ![target[h]].entry = NULL]
          /\ Goto(h, "done")
     ELSE Goto(h, "collided") /\ UNCHANGED acct
  /\ UNCHANGED <<entry, text, local, met, beside, given>>

\* The entry is written; of the accounts linked to it the first one follows.
WriteEntry(h) ==
  /\ Is(h, "edit", "write")
  /\ LET c == req[h].customer IN
     /\ entry' = [entry EXCEPT ![c] = [lot |-> req[h].lot, active |-> req[h].active]]
     /\ \/ /\ Linked(c) = {}
           /\ Goto(h, "done")
           /\ UNCHANGED target
        \/ \E a \in Linked(c) :
             /\ target' = [target EXCEPT ![h] = a]
             /\ Goto(h, "sync")
  /\ lot' = [lot EXCEPT ![h] = req[h].lot]
  /\ UNCHANGED <<acct, text, req, known, met, beside, given>>

SyncNothing(h) ==  \* mutant: the account keeps its lot
  /\ pc[h] = "sync"
  /\ Goto(h, "done")
  /\ UNCHANGED <<Tables, local, met>>
SyncAccount(h) ==
  /\ pc[h] = "sync"
  /\ acct' = [acct EXCEPT ![target[h]].lot = lot[h]]
  /\ given' = [given EXCEPT ![target[h]] = FALSE]
  /\ Goto(h, "done")
  /\ UNCHANGED <<entry, text, local, met, beside>>

AccountFail(h) == BreakOff(h) /\ UNCHANGED <<Tables, target, lot, known>>

AccountStep(h) ==
  \/ \E op \in AccountOps : ReceiveAccountOp(h, op)
  \/ FindEntry(h)
  \/ FindAccount(h)
  \/ ReadAccount(h)
  \/ ValidateUsername(h)
  \/ WriteRegistration(h)
  \/ SendText(h)
  \/ Create(h)
  \/ Move(h)
  \/ Reassign(h)
  \/ DeleteAcc(h)
  \/ WriteEntry(h)
  \/ SyncAccount(h)
  \/ AccountFail(h)

AccountsNext == \E h \in Handlers : AccountStep(h)

AccountsSpec == AccountsInit /\ [][AccountsNext]_accountsVars

-----------------------------------------------------------------------------
AccountsTypeOK ==
  /\ acct \in [Accts -> Account \cup {NULL}]
  /\ entry \in [Customers \ Governments -> Entry]
  /\ text \in [Accts -> Handlers \cup {NULL}]
  /\ pc \in [Handlers -> {"idle", "entry", "account", "name", "write", "text", "sync"} \cup Ended]
  /\ req \in [Handlers -> AccountOps \cup {NULL}]
  /\ target \in [Handlers -> Accts \cup {NULL}]
  /\ lot \in [Handlers -> Lots \cup {NULL}]
  /\ known \in [Handlers -> BOOLEAN]
  /\ met \in [Handlers -> SUBSET Handlers]
  /\ beside \in [Handlers -> SUBSET Accts]
  /\ given \in [Accts -> BOOLEAN]

\* g may have written account a's lot, or the entry at c, that another wrote too.
Touches(g, a, c) ==
  \/ req[g].kind = "edit" /\ req[g].customer = c
  \/ req[g].kind \in {"register", "move"} /\ target[g] = a

\* When nothing is under way, an account linked to an entry has the entry's lot,
\* unless the lot is one a reassign gave the account, or an edit stopped between
\* its two writes, overlapped another write of the two, or passed its lot on to
\* the other of two accounts with that entry.
LinkedLotAgrees ==
  Quiet => \A c \in Customers \ Governments : \A a \in Linked(c) :
    \/ acct[a].lot = entry[c].lot
    \/ given[a]
    \/ \E e \in Handlers :
         /\ lot[e] # NULL /\ req[e].kind = "edit"
         /\ \/ req[e].customer = c /\ (pc[e] = "failed" \/ target[e] \notin {a, NULL})
            \/ /\ req[e].customer = c \/ target[e] = a
               /\ \E g \in met[e] : Touches(g, a, c)

\* A deleted account has lost its name and its entry for good, unless a request
\* that had found it before was still under way when it was deleted.
RemovedStaysRemoved ==
  \A a \in Accts :
    (acct[a] # NULL /\ acct[a].removed) =>
      \/ acct[a].name = "deleted" /\ acct[a].entry = NULL
      \/ \E h, d \in Handlers :
           /\ target[h] = a /\ req[h].kind \in {"register", "move"}
           /\ target[d] = a /\ req[d].kind = "delete"
           /\ d \in met[h]

\* An administrator gives an account a name nobody has, although no index
\* guards it, unless the request overlapped the one that gave it the other.
CreatedNameIsFree ==
  \A h \in Handlers :
    (req[h] # NULL /\ req[h].kind = "create") =>
      \A a \in beside[h] : \E g \in met[h] : req[g].kind \in {"create", "register"} /\ (g = a \/ target[g] = a)

\* When nothing is under way, the code last texted is the one that lets the
\* person in, unless the registration that made that one did not get its text
\* out, or overlapped the one whose text came last.
LastTextOpens ==
  Quiet => \A a \in Accts :
    (acct[a] # NULL /\ text[a] # NULL /\ acct[a].code # text[a]) =>
      \/ text[a] \in met[acct[a].code]
      \/ pc[acct[a].code] \in {"untold", "failed"}
=============================================================================
