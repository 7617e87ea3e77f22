-------------------------------- MODULE Registry --------------------------------
(***************************************************************************)
(* The lists a customer keeps (lots, cameras, locations, holidays, ...)    *)
(* are each kept by a service of the same build: a row has a key that no   *)
(* other row of the customer should have, create counts the rows with the  *)
(* new key and then inserts, update reads the row by its id, counts if the *)
(* key is to change, and then writes; some lists are filled from a CSV     *)
(* file.  A service is a record of what differs from one to the next.  One *)
(* behaviour is about one service.                                         *)
(*                                                                         *)
(* An entry is the list a row is in, its customer's or for contacts its    *)
(* user's, and a name, which stands for a code, name, date or phone.  The  *)
(* database compares names without regard to case.                         *)
(***************************************************************************)
EXTENDS Integers, FiniteSets

CONSTANTS
  Handlers,    \* requests
  Lists,       \* the lists rows are in
  Names,       \* names, as they are spelt
  Letters,     \* Letters[n]: the name the database takes n for
  Present,     \* entries that may be there from the start
  Ops,         \* what a request may ask for: [kind, row, list, names]
  MaxInFlight, \* bound: handlers between their first and last await
  NULL

Entries == [list : Lists, name : Names]

\* A row is named after the request that inserted it (NULL: it was there
\* before) and the entry it was inserted with.
Rows == (Handlers \cup {NULL}) \X Entries

Kinds == {"create", "update", "import"}

ASSUME RegistryAssumption ==
  /\ IsFiniteSet(Handlers)
  /\ NULL \notin Handlers \cup Entries
  /\ Present \subseteq Entries
  /\ Ops \subseteq [kind : Kinds, row : Rows, list : Lists, names : SUBSET Names]
  /\ \A op \in Ops : op.kind = "create" => \E n \in Names : op.names = {n}
  /\ \A op \in Ops : op.kind = "update" => \A n, m \in op.names : n = m
  /\ \A op \in Ops : op.kind = "import" =>
       \A n, m \in op.names : Letters[n] = Letters[m] => n = m
  /\ MaxInFlight \in Nat

-----------------------------------------------------------------------------
(* The services *)

\* atCreate: "look" or "never"; atUpdate: "changed" looks when the name is to
\* change, "always" whenever one is given.  finds: update finds "any" row by its
\* id, or its "own" customer's only.  counts: update counts in the list of the
\* "caller"'s customer, of the "row"'s, or in "all".  moves: update writes the
\* customer too.  exact: of the rows found only those spelt alike count.  csv:
\* "skip" leaves the rows the index refuses out, "filter" reads the list first,
\* "all" has no index to ask.
Usual ==
  [indexed |-> TRUE, atCreate |-> "look", atUpdate |-> "changed", finds |-> "any",
   counts |-> "caller", moves |-> FALSE, exact |-> FALSE, csv |-> "none"]

Lots             == [Usual EXCEPT !.counts = "row", !.csv = "skip"]
Cameras          == Usual
Locations        == [Usual EXCEPT !.indexed = FALSE]
Holidays         == [Usual EXCEPT !.indexed = FALSE, !.atUpdate = "always"]
EventTypes       == Usual
ReservationTypes == [Usual EXCEPT !.moves = TRUE]
AuthorizedUsers  == [Usual EXCEPT !.finds = "own", !.csv = "filter"]
Contacts         == [Usual EXCEPT !.atUpdate = "never"]
CustomerNames    == [Usual EXCEPT !.counts = "all", !.exact = TRUE]
CustomerLots     == [Usual EXCEPT !.indexed = FALSE, !.atCreate = "never",
                                                    !.atUpdate = "never", !.moves = TRUE,
                                                    !.csv = "all"]

Services == {Lots, Cameras, Locations, Holidays, EventTypes, ReservationTypes,
             AuthorizedUsers, Contacts, CustomerNames, CustomerLots}

VARIABLES
  service, \* the service whose list this is
  rows,    \* rows[r]: the row's entry, NULL: no such row
  pc,      \* pc[h]: the handler's next await
  req,     \* req[h]: what was asked
  was,     \* was[h]: the row h is to update, as h read it
  listed,  \* listed[h]: the names an import found in the list
  setBy,   \* history: who gave the row its entry
  overtook \* history: rows h looked for, or at, that changed after it looked

handlerVars == <<pc, req, was, listed>>
vars == <<service, rows, handlerVars, setBy, overtook>>

Ended == {"done", "taken", "refused", "collided", "failed"}
InFlight == {h \in Handlers : pc[h] \notin {"idle"} \cup Ended}

\* One key: the names of customers are one list.
Same(e, f) ==
  /\ Letters[e.name] = Letters[f.name]
  /\ e.list = f.list \/ service.counts = "all"

Holding(entries) == {r \in Rows : rows[r] # NULL /\ \E e \in entries : Same(rows[r], e)}
Own(h) == IF req[h].kind = "update" THEN {req[h].row} ELSE {}

-----------------------------------------------------------------------------
Init ==
  /\ service \in Services
  /\ \E present \in SUBSET Present :
       /\ \A e, f \in present : Same(e, f) => e = f
       /\ rows = [r \in Rows |-> IF r[1] = NULL /\ r[2] \in present THEN r[2] ELSE NULL]
  /\ pc = [h \in Handlers |-> "idle"]
  /\ req = [h \in Handlers |-> NULL]
  /\ was = [h \in Handlers |-> NULL]
  /\ listed = [h \in Handlers |-> {}]
  /\ setBy = [r \in Rows |-> NULL]
  /\ overtook = [h \in Handlers |-> {}]

Goto(h, phase) == pc' = [pc EXCEPT ![h] = phase]
Unwritten == UNCHANGED <<rows, setBy, overtook>>

\* A request names the list it is for: the customer of the path, for an update
\* that of the caller's token, whatever row it names.
Begin(h, op) ==
  /\ pc[h] = "idle"
  /\ Cardinality(InFlight) < MaxInFlight
  /\ op.kind = "import" => service.csv # "none"
  /\ req' = [req EXCEPT ![h] = op]
  /\ Goto(h, CASE op.kind = "update" -> "find"
               [] op.kind = "create" -> IF service.atCreate = "look" THEN "look" ELSE "write"
               [] op.kind = "import" -> IF service.csv = "filter" THEN "list" ELSE "write")
  /\ UNCHANGED <<service, was, listed>> /\ Unwritten

\* Whether an update that has read its row looks for its name in other rows.
LooksNever(mode, old, names) == FALSE  \* mutant: an update trusts its caller
Looks(mode, old, names) ==
  /\ names # {}
  /\ \/ mode = "always"
     \/ mode = "changed" /\ names # {old.name}

\* update reads the row it is to change.
Find(h) ==
  /\ pc[h] = "find"
  /\ LET old == rows[req[h].row]
         found == old # NULL /\ (service.finds = "own" => old.list = req[h].list)
     IN  /\ was' = [was EXCEPT ![h] = old]
         /\ Goto(h, IF ~found THEN "refused"
                    ELSE IF Looks(service.atUpdate, old, req[h].names) THEN "look" ELSE "write")
  /\ UNCHANGED <<service, req, listed>> /\ Unwritten

\* The entries the count of h asks for.
Counted(h) ==
  [list : {IF req[h].kind = "update" /\ service.counts = "row" THEN was[h].list
           ELSE req[h].list},
   name : req[h].names]

\* The count: any row with the key, the updated one included.
LookAside(h) ==  \* mutant: the answer of the count is not awaited
  /\ pc[h] = "look"
  /\ Goto(h, "write")
  /\ UNCHANGED <<service, req, was, listed>> /\ Unwritten
Look(h) ==
  /\ pc[h] = "look"
  /\ Goto(h, IF \E r \in Holding(Counted(h)) : service.exact => rows[r].name \in req[h].names
             THEN "taken" ELSE "write")
  /\ UNCHANGED <<service, req, was, listed>> /\ Unwritten

\* An import of the list of residents reads which of its names are there.
List(h) ==
  /\ pc[h] = "list"
  /\ listed' = [listed EXCEPT ![h] =
                  {n \in req[h].names : \E r \in Rows : rows[r] = [list |-> req[h].list, name |-> n]}]
  /\ Goto(h, "write")
  /\ UNCHANGED <<service, req, was>> /\ Unwritten

\* What an update makes of its row: a name that is not given is left.
Revised(h) ==
  LET old == rows[req[h].row] IN
  [list |-> IF service.moves THEN req[h].list ELSE old.list,
   name |-> IF req[h].names = {} THEN old.name ELSE CHOOSE n \in req[h].names : TRUE]

\* The entries h is about to write, and those it inserts of them: an import
\* leaves out what it found and what the index refuses.
Wanted(h) ==
  IF req[h].kind = "update" THEN {Revised(h)} ELSE [list : {req[h].list}, name : req[h].names]
Inserted(h) ==
  {e \in Wanted(h) : req[h].kind = "import" =>
     /\ e.name \notin listed[h]
     /\ service.indexed => Holding({e}) = {}}
After(h) ==
  [r \in Rows |->
    IF req[h].kind = "update" THEN IF r = req[h].row THEN Revised(h) ELSE rows[r]
    ELSE IF r[1] = h /\ r[2] \in Inserted(h) THEN r[2] ELSE rows[r]]

\* The rows whose key the unique index will not let h have too.
Refused(h) ==
  IF service.indexed /\ req[h].kind # "import"
  THEN Holding(Wanted(h)) \ Own(h) ELSE {}

\* Who is under way and has looked already does not see the rows that change.
Overtake(h, changed) ==
  overtook' = [g \in Handlers |->
    IF g # h /\ pc[g] = "write"
    THEN overtook[g] \cup {r \in changed : r \in Own(g) \/ \E e \in Wanted(g) : Same(rows'[r], e)}
    ELSE overtook[g]]

Write(h) ==
  /\ pc[h] = "write"
  /\ Refused(h) = {}
  /\ rows' = After(h)
  /\ LET changed == {r \in Rows : rows'[r] # rows[r]} IN
     /\ setBy' = [r \in Rows |-> IF r \in changed THEN h ELSE setBy[r]]
     /\ Overtake(h, changed)
  /\ Goto(h, "done")
  /\ UNCHANGED <<service, req, was, listed>>

\* The insert or update fails on the unique index: the client sees a 500.
Collide(h) ==
  /\ pc[h] = "write"
  /\ Refused(h) # {}
  /\ Goto(h, "collided")
  /\ UNCHANGED <<service, req, was, listed>> /\ Unwritten

\* Another check refuses the request, or an await throws.
Fail(h) ==
  /\ h \in InFlight
  /\ Goto(h, "failed")
  /\ UNCHANGED <<service, req, was, listed>> /\ Unwritten

HandlerStep(h) ==
  \/ \E op \in Ops : Begin(h, op)
  \/ Find(h)
  \/ Look(h)
  \/ List(h)
  \/ Write(h)
  \/ Collide(h)
  \/ Fail(h)

Next == \E h \in Handlers : HandlerStep(h)

Spec == Init /\ [][Next]_vars

-----------------------------------------------------------------------------
TypeOK ==
  /\ service \in Services
  /\ rows \in [Rows -> Entries \cup {NULL}]
  /\ pc \in [Handlers -> {"idle", "find", "look", "list", "write"} \cup Ended]
  /\ req \in [Handlers -> Ops \cup {NULL}]
  /\ was \in [Handlers -> Entries \cup {NULL}]
  /\ listed \in [Handlers -> SUBSET Names]
  /\ setBy \in [Rows -> Handlers \cup {NULL}]
  /\ overtook \in [Handlers -> SUBSET Rows]

\* h could not have seen r when it looked: r changed afterwards, or the very row
\* h writes back did.
Unseen(h, r) == r \in overtook[h] \/ Own(h) \cap overtook[h] # {}

\* h changed a row of another customer than its caller's: it counted in its
\* caller's list the name it wrote in the row's; or, where the row is moved to the
\* caller's, it did not count because the name stayed.
LookedElsewhere(h) ==
  /\ req[h].kind = "update" /\ service.counts = "caller"
  /\ was[h].list # req[h].list
  /\ service.moves => req[h].names \subseteq {was[h].name}

Missed(h, r) == h # NULL /\ (Unseen(h, r) \/ LookedElsewhere(h))

\* Two rows of a list share a key only if one of them was given it by a handler
\* that had looked before the other got it, or by one that put back the key it
\* had read from a row that had changed since, or by one that had counted in
\* another customer's list.  Only a list without any check and without an index,
\* customer-lots, is exempt.
DuplicateOnlyByRace ==
  service.atCreate = "look" =>
    \A r1, r2 \in Rows :
      (r1 # r2 /\ rows[r1] # NULL /\ rows[r2] # NULL /\ Same(rows[r1], rows[r2])) =>
        Missed(setBy[r1], r2) \/ Missed(setBy[r2], r1)

\* The index answers in place of the service, with an error of the database,
\* only if a row with the key came after the service's own count, or the row to
\* update was given another key meanwhile; or if the count was of another
\* customer's list, or of a customer's name spelt in other case.  The update of a
\* contact does not count.
CollisionOnlyByRace ==
  [][\A h \in Handlers :
       (/\ pc[h] = "write" /\ pc'[h] = "collided"
        /\ req[h].kind = "create" \/ service.atUpdate # "never") =>
          \A r \in Refused(h) : \/ Unseen(h, r)
                                \/ LookedElsewhere(h)
                                \/ service.exact /\ rows[r].name \notin req[h].names]_vars
=============================================================================
