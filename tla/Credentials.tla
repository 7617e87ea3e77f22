------------------------------ MODULE Credentials ------------------------------
(***************************************************************************)
(* The password of one account and its recovery token: asking for a reset  *)
(* (or being created by an administrator, who sends a welcome mail), using *)
(* the mailed token, changing the password by proving the old one, and     *)
(* registering again, which replaces the password by a code                *)
(* (users.service.ts).                                                     *)
(*                                                                         *)
(* A password, and a token, is named after the request that made it; NULL  *)
(* is the password from before.  The account has at most one row in the    *)
(* table of tokens: an upsert puts a new token into the row there is.      *)
(***************************************************************************)
EXTENDS RequestHandling

CONSTANTS
  PasswordOps \* what a request may ask for: [kind, uses]

\* "request" asks for a mail, "reset" uses a mailed token, "change" proves a
\* password, "register" takes neither.
PasswordOp == [kind : {"reset"}, uses : Handlers]
        \cup [kind : {"change"}, uses : Handlers \cup {NULL}]
        \cup [kind : {"request", "register"}, uses : {NULL}]

\* A row's id is the request that inserted it.
Token == [id : Handlers, token : Handlers, expired : BOOLEAN]

ASSUME CredentialsAssumption ==
  /\ NULL \notin Token
  /\ PasswordOps \subseteq PasswordOp

VARIABLES
  password, \* the password in force
  row,      \* the account's row in the table of tokens, NULL: none
  mailed,   \* tokens that were mailed
  seen,     \* seen[h]: the row's id when h looked its token up
  newest,   \* history: the token the table was given last
  wrote,    \* history: the requests that set a password
  replaced  \* history: replaced[h], the password h's write replaced

tables == <<password, row, mailed>>
history == <<newest, wrote, replaced>>
credentialsVars == <<tables, handling, seen, history>>

-----------------------------------------------------------------------------
CredentialsInit ==
  /\ password = NULL
  /\ row = NULL
  /\ mailed = {}
  /\ NoRequests
  /\ seen = [h \in Handlers |-> NULL]
  /\ newest = NULL
  /\ wrote = {}
  /\ replaced = [h \in Handlers |-> NULL]

\* A token is used by who got its mail.
ReceivePasswordOp(h, op) ==
  /\ op.kind = "reset" => op.uses \in mailed
  /\ Receive(h, op, "find")
  /\ UNCHANGED <<tables, seen, history>>

\* request, register: the account is found.  change: and the password compared.
FindUserTrusting(h) ==  \* mutant: the old password is not compared
  /\ pc[h] = "find" /\ req[h].kind # "reset"
  /\ Goto(h, "write")
  /\ UNCHANGED <<tables, req, seen, met, history>>
FindUser(h) ==
  /\ pc[h] = "find" /\ req[h].kind # "reset"
  /\ Goto(h, IF req[h].kind = "change" /\ password # req[h].uses THEN "refused" ELSE "write")
  /\ UNCHANGED <<tables, req, seen, met, history>>

\* reset looks the token up.
FindToken(h) ==
  /\ Is(h, "reset", "find")
  /\ IF row = NULL THEN Goto(h, "refused") /\ UNCHANGED seen
     ELSE IF row.token # req[h].uses \/ row.expired
     THEN Goto(h, "refused") /\ UNCHANGED seen
     ELSE Goto(h, "write") /\ seen' = [seen EXCEPT ![h] = row.id]
  /\ UNCHANGED <<tables, req, met, history>>

CreateTokenOnce(h) ==  \* mutant: a row that is there keeps its token
  /\ Is(h, "request", "write")
  /\ row' = IF row = NULL THEN [id |-> h, token |-> h, expired |-> FALSE] ELSE row
  /\ newest' = h
  /\ Goto(h, "mail")
  /\ UNCHANGED <<password, mailed, req, seen, met, wrote, replaced>>
CreatePasswordRecoveryToken(h) ==
  /\ Is(h, "request", "write")
  /\ row' = [id |-> IF row = NULL THEN h ELSE row.id, token |-> h, expired |-> FALSE]
  /\ newest' = h
  /\ Goto(h, "mail")
  /\ UNCHANGED <<password, mailed, req, seen, met, wrote, replaced>>

\* The mail is queued and not awaited.
SendEmail(h) ==
  /\ pc[h] = "mail"
  /\ mailed' \in {mailed, mailed \cup {h}}
  /\ Goto(h, "done")
  /\ UNCHANGED <<password, row, req, seen, met, history>>

\* reset, change and register write the account.
WritePassword(h) ==
  /\ pc[h] = "write" /\ req[h].kind # "request"
  /\ password' = h
  /\ wrote' = wrote \cup {h}
  /\ replaced' = [replaced EXCEPT ![h] = password]
  /\ Goto(h, IF req[h].kind = "reset" THEN "delete" ELSE "done")
  /\ UNCHANGED <<row, mailed, req, seen, met, newest>>

\* The token's row is deleted by its id, whatever token it holds by then.
DeleteNever(h) ==  \* mutant: the token is left to expire
  /\ pc[h] = "delete"
  /\ Goto(h, "done")
  /\ UNCHANGED <<tables, req, seen, met, history>>
DeleteByToken(h) ==  \* mutant: the row is deleted by the token it should hold
  /\ pc[h] = "delete"
  /\ IF row = NULL THEN Goto(h, "late") /\ UNCHANGED row
     ELSE IF row.token # req[h].uses THEN Goto(h, "late") /\ UNCHANGED row
     ELSE row' = NULL /\ Goto(h, "done")
  /\ UNCHANGED <<password, mailed, req, seen, met, history>>
DeleteToken(h) ==
  /\ pc[h] = "delete"
  /\ IF row = NULL THEN Goto(h, "late") /\ UNCHANGED row
     ELSE IF row.id # seen[h] THEN Goto(h, "late") /\ UNCHANGED row
     ELSE row' = NULL /\ Goto(h, "done")
  /\ UNCHANGED <<password, mailed, req, seen, met, history>>

\* The token's time passes.
Expire ==
  /\ row # NULL
  /\ ~row.expired
  /\ row' = [row EXCEPT !.expired = TRUE]
  /\ UNCHANGED <<password, mailed, pc, req, seen, met, history>>

PasswordFail(h) == BreakOff(h) /\ UNCHANGED <<tables, seen, history>>

PasswordStep(h) ==
  \/ \E op \in PasswordOps : ReceivePasswordOp(h, op)
  \/ FindUser(h)
  \/ FindToken(h)
  \/ CreatePasswordRecoveryToken(h)
  \/ SendEmail(h)
  \/ WritePassword(h)
  \/ DeleteToken(h)
  \/ PasswordFail(h)

CredentialsNext == Expire \/ \E h \in Handlers : PasswordStep(h)

CredentialsSpec == CredentialsInit /\ [][CredentialsNext]_credentialsVars

-----------------------------------------------------------------------------
CredentialsTypeOK ==
  /\ password \in Handlers \cup {NULL}
  /\ row \in Token \cup {NULL}
  /\ mailed \subseteq Handlers
  /\ pc \in [Handlers -> {"idle", "find", "write", "mail", "delete"} \cup Ended]
  /\ req \in [Handlers -> PasswordOps \cup {NULL}]
  /\ seen \in [Handlers -> Handlers \cup {NULL}]
  /\ met \in [Handlers -> SUBSET Handlers]
  /\ newest \in Handlers \cup {NULL}
  /\ wrote \subseteq Handlers
  /\ replaced \in [Handlers -> Handlers \cup {NULL}]

Resets(t) == {h \in wrote : req[h].kind = "reset" /\ req[h].uses = t}

\* A recovery token sets a password once, although it is deleted an await after
\* it has: twice only if the two requests overlapped, or one stopped in between.
TokenWorksOnce ==
  \A t \in Handlers : \A h, g \in Resets(t) :
    h = g \/ g \in met[h] \/ "failed" \in {pc[h], pc[g]}

\* The token the person was given last stays in the table until a request uses
\* it; only a reset with an older token that overlapped its making deletes it,
\* because the row is deleted by an id the upsert keeps.
NewestTokenStands ==
  newest # NULL =>
    \/ row # NULL /\ row.token = newest
    \/ Resets(newest) # {}
    \/ \E h \in wrote : req[h].kind = "reset" /\ newest \in met[h]

\* A reset is answered with an error of the database although it has changed the
\* password only if another reset overlapped it and deleted the row first.
LateErrorOnlyByRace ==
  \A h \in Handlers :
    pc[h] = "late" => \E g \in met[h] \cap wrote : req[g].kind = "reset" /\ pc[g] = "done"

\* Who changes the password by the old one replaces no other, unless the other
\* was set while the request was under way: a reset is not undone by a person
\* who knows an older password.
ProvenPasswordReplaced ==
  \A h \in wrote :
    (req[h].kind = "change" /\ replaced[h] # req[h].uses) => replaced[h] \in met[h]
=============================================================================
