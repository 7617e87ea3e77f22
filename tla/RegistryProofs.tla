---------------------------- MODULE RegistryProofs ----------------------------
(***************************************************************************)
(* Proofs about Registry, for any lists, names and number of requests, any *)
(* bound on those under way, and each of the services.                     *)
(***************************************************************************)
EXTENDS Registry, TLAPS

\* What a handler's next await says of what it was asked; the row it is to update
\* is there, and in the list it was in unless the service moves rows; rows named
\* after it are not before it is done.
PhaseOK(h) ==
  /\ pc[h] # "idle" => req[h] \in Ops
  /\ pc[h] = "find" => req[h].kind = "update"
  /\ pc[h] = "look" => req[h].kind # "import" /\ req[h].names # {}
  /\ pc[h] = "list" => req[h].kind = "import"
  /\ pc[h] # "idle" /\ req[h].kind = "import" => service.csv # "none"
  /\ pc[h] \in {"look", "write"} /\ req[h].kind = "update" =>
       /\ was[h] # NULL /\ rows[req[h].row] # NULL
       /\ service.moves \/ rows[req[h].row].list = was[h].list
  /\ pc[h] # "done" => \A r \in Rows : r[1] = h => rows[r] = NULL

TypeInv == TypeOK /\ \A h \in Handlers : PhaseOK(h)

LEMMA OpTypes ==
  ASSUME NEW op \in Ops
  PROVE  /\ op.kind \in Kinds /\ op.row \in Rows /\ op.list \in Lists /\ op.names \subseteq Names
         /\ op.kind = "create" => \E n \in Names : op.names = {n}
         /\ op.kind = "update" => op.names = {} \/ \E n \in Names : op.names = {n}
         /\ op.kind = "import" => \A n, m \in op.names : Letters[n] = Letters[m] => n = m
<1>1. op \in [kind : Kinds, row : Rows, list : Lists, names : SUBSET Names]
  BY RegistryAssumption
<1>2. op.kind \in Kinds /\ op.row \in Rows /\ op.list \in Lists /\ op.names \in SUBSET Names
  BY <1>1
<1>3. op.kind = "update" => \A n, m \in op.names : n = m
  BY RegistryAssumption
<1>4. op.kind = "create" => \E n \in Names : op.names = {n}
  BY RegistryAssumption
<1>5. op.kind = "import" => \A n, m \in op.names : Letters[n] = Letters[m] => n = m
  BY RegistryAssumption
<1>6. QED
  BY <1>2, <1>3, <1>4, <1>5

LEMMA CreateNames == \A op \in Ops : op.kind = "create" => op.names # {}
BY RegistryAssumption

\* What the services have in common.
Sound(s) ==
  /\ s.indexed \in BOOLEAN /\ s.moves \in BOOLEAN /\ s.exact \in BOOLEAN
  /\ s.atCreate \in {"look", "never"}
  /\ s.atUpdate \in {"changed", "always", "never"}
  /\ s.counts \in {"row", "caller", "all"}
  /\ s.counts = "row" => ~s.moves
  /\ s.moves /\ s.atUpdate # "never" => s.counts = "caller"
  /\ s.exact => s.indexed
  /\ s.atCreate = "never" => ~s.indexed
  /\ s.atCreate = "look" /\ s.atUpdate = "never" => s.indexed
  /\ s.atCreate = "look" /\ s.csv # "none" => s.indexed

LEMMA ServiceTypes == ASSUME NEW s \in Services PROVE Sound(s)
<1>1. CASE s = Lots
  BY <1>1 DEF Sound, Usual, Lots
<1>2. CASE s = Cameras
  BY <1>2 DEF Sound, Usual, Cameras
<1>3. CASE s = Locations
  BY <1>3 DEF Sound, Usual, Locations
<1>4. CASE s = Holidays
  BY <1>4 DEF Sound, Usual, Holidays
<1>5. CASE s = EventTypes
  BY <1>5 DEF Sound, Usual, EventTypes
<1>6. CASE s = ReservationTypes
  BY <1>6 DEF Sound, Usual, ReservationTypes
<1>7. CASE s = AuthorizedUsers
  BY <1>7 DEF Sound, Usual, AuthorizedUsers
<1>8. CASE s = Contacts
  BY <1>8 DEF Sound, Usual, Contacts
<1>9. CASE s = CustomerNames
  BY <1>9 DEF Sound, Usual, CustomerNames
<1>10. CASE s = CustomerLots
  BY <1>10 DEF Sound, Usual, CustomerLots
<1>11. QED
  BY <1>1, <1>2, <1>3, <1>4, <1>5, <1>6, <1>7, <1>8, <1>9, <1>10 DEF Services

LEMMA RowTypes ==
  \A r \in Rows : r[1] \in Handlers \cup {NULL} /\ r[2] \in Entries /\ r = <<r[1], r[2]>>
BY DEF Rows

LEMMA EntryTypes ==
  /\ \A e \in Entries : e.list \in Lists /\ e.name \in Names /\ e # NULL
  /\ \A e, f \in Entries : e.list = f.list /\ e.name = f.name => e = f
BY RegistryAssumption DEF Entries

LEMMA RevisedType ==
  ASSUME TypeInv, NEW h \in Handlers, pc[h] = "write", req[h].kind = "update"
  PROVE  /\ rows[req[h].row] \in Entries
         /\ Revised(h) \in Entries
         /\ Revised(h).list = IF service.moves THEN req[h].list ELSE rows[req[h].row].list
         /\ req[h].names = {} => Revised(h).name = rows[req[h].row].name
         /\ \A n : req[h].names = {n} => Revised(h).name = n
<1>1. req[h] \in Ops /\ rows[req[h].row] # NULL /\ rows \in [Rows -> Entries \cup {NULL}]
  BY DEF TypeInv, TypeOK, PhaseOK
<1>2. rows[req[h].row] \in Entries /\ req[h].list \in Lists
  BY <1>1, OpTypes
<1>3. req[h].names = {} \/ \E n \in Names : req[h].names = {n}
  BY <1>1, OpTypes
<1>4. \A n : req[h].names = {n} => (CHOOSE m \in req[h].names : TRUE) = n
  OBVIOUS
<1>5. Revised(h).name = IF req[h].names = {} THEN rows[req[h].row].name
                        ELSE CHOOSE m \in req[h].names : TRUE
  BY DEF Revised
<1>6. Revised(h).list = IF service.moves THEN req[h].list ELSE rows[req[h].row].list
  BY DEF Revised
<1>7. Revised(h).name \in Names
  BY <1>2, <1>3, <1>4, <1>5, EntryTypes
<1>8. Revised(h).list \in Lists
  BY <1>2, <1>6, EntryTypes
<1>9. Revised(h) \in Entries
  BY <1>7, <1>8 DEF Revised, Entries
<1>10. QED
  BY <1>2, <1>4, <1>5, <1>6, <1>9

LEMMA WantedTypes ==
  ASSUME TypeInv, NEW h \in Handlers, pc[h] = "write"
  PROVE  Wanted(h) \subseteq Entries
<1>1. req[h] \in Ops
  BY DEF TypeInv, PhaseOK
<1>2. CASE req[h].kind = "update"
  BY <1>2, RevisedType DEF Wanted
<1>3. CASE req[h].kind # "update"
  BY <1>1, <1>3, OpTypes DEF Wanted, Entries
<1>4. QED
  BY <1>2, <1>3

\* What a write does to the list.
LEMMA WriteEffect ==
  ASSUME TypeInv, NEW h \in Handlers, Write(h)
  PROVE  /\ rows' \in [Rows -> Entries \cup {NULL}]
         /\ \A r \in Rows : rows[r] # NULL =>
              rows'[r] # NULL /\ (service.moves \/ rows'[r].list = rows[r].list)
         /\ \A r \in Rows : rows'[r] # rows[r] => rows'[r] \in Wanted(h)
         /\ req[h].kind = "update" => \A r \in Rows : rows'[r] # rows[r] => r = req[h].row
         /\ req[h].kind # "import" => \A r, q \in Rows : rows'[r] # rows[r] /\ rows'[q] # rows[q] => r = q
         /\ req[h].kind # "update" =>
              \A r \in Rows : rows'[r] # rows[r] => r[1] = h /\ rows'[r] = r[2]
         /\ req[h].kind = "import" /\ service.indexed =>
              \A r \in Rows : rows'[r] # rows[r] => Holding({r[2]}) = {}
<1>1. req[h] \in Ops /\ rows \in [Rows -> Entries \cup {NULL}] /\ pc[h] = "write"
  BY DEF TypeInv, TypeOK, PhaseOK, Write
<1>2. rows' = After(h)
  BY DEF Write
<1>3. CASE req[h].kind = "update"
  <2>1. rows' = [r \in Rows |-> IF r = req[h].row THEN Revised(h) ELSE rows[r]]
    BY <1>2, <1>3 DEF After
  <2>2. /\ Revised(h) \in Entries /\ Revised(h) # NULL
        /\ service.moves \/ Revised(h).list = rows[req[h].row].list
    BY <1>1, <1>3, RevisedType, EntryTypes
  <2>3. QED
    BY <1>1, <1>3, <2>1, <2>2 DEF Wanted
<1>4. CASE req[h].kind # "update"
  <2>1. rows' = [r \in Rows |-> IF r[1] = h /\ r[2] \in Inserted(h) THEN r[2] ELSE rows[r]]
    BY <1>2, <1>4 DEF After
  <2>2. Inserted(h) \subseteq Wanted(h) /\ Wanted(h) = [list : {req[h].list}, name : req[h].names]
    BY <1>4 DEF Inserted, Wanted
  <2>3. \A r \in Rows : rows'[r] # rows[r] =>
          r[1] = h /\ rows'[r] = r[2] /\ r[2] \in Inserted(h)
    BY <2>1
  <2>4. rows' \in [Rows -> Entries \cup {NULL}]
    BY <1>1, <2>1, RowTypes
  <2>5. \A r \in Rows : r[2] # NULL
    BY RowTypes, EntryTypes
  <2>6. ASSUME req[h].kind # "import", NEW r \in Rows, NEW q \in Rows,
               rows'[r] # rows[r], rows'[q] # rows[q]
        PROVE  r = q
    <3>1. PICK n \in Names : req[h].names = {n}
      BY <1>1, <1>4, <2>6, OpTypes DEF Kinds
    <3>2. r[2] \in Wanted(h) /\ q[2] \in Wanted(h) /\ r[1] = h /\ q[1] = h
      BY <2>2, <2>3, <2>6
    <3>3. r[2].list = q[2].list /\ r[2].name = q[2].name
      BY <2>2, <3>1, <3>2
    <3>4. QED
      BY <3>2, <3>3, RowTypes, EntryTypes
  <2>7. req[h].kind = "import" /\ service.indexed => \A e \in Inserted(h) : Holding({e}) = {}
    BY DEF Inserted
  <2>8. \A r \in Rows : rows[r] # NULL => rows'[r] = rows[r]
    BY <1>1, <2>3 DEF TypeInv, PhaseOK
  <2>9. QED
    BY <1>4, <2>2, <2>3, <2>4, <2>6, <2>7, <2>8
<1>5. QED
  BY <1>3, <1>4

LEMMA TypeInit == Init => TypeInv
<1> SUFFICES ASSUME Init PROVE TypeInv
  OBVIOUS
<1>1. PICK present \in SUBSET Present :
        rows = [r \in Rows |-> IF r[1] = NULL /\ r[2] \in present THEN r[2] ELSE NULL]
  BY DEF Init
<1>2. rows \in [Rows -> Entries \cup {NULL}]
  BY <1>1, RowTypes
<1>3. \A r \in Rows, h \in Handlers : r[1] = h => rows[r] = NULL
  BY <1>1, RegistryAssumption
<1>4. TypeOK
  BY <1>2 DEF Init, TypeOK
<1>5. QED
  BY <1>3, <1>4 DEF Init, TypeInv, PhaseOK

LEMMA TypeNext == TypeInv /\ [Next]_vars => TypeInv'
<1> SUFFICES ASSUME TypeInv, [Next]_vars PROVE TypeInv'
  OBVIOUS
<1> USE RegistryAssumption, OpTypes
    DEF TypeInv, TypeOK, PhaseOK, Ended, Goto, Unwritten, Kinds
<1>1. ASSUME NEW h \in Handlers, NEW op \in Ops, Begin(h, op) PROVE TypeInv'
  <2>1. PICK phase \in {"find", "look", "list", "write"} :
          /\ pc' = [pc EXCEPT ![h] = phase]
          /\ phase = "find" <=> op.kind = "update"
          /\ phase = "look" => op.kind = "create"
          /\ phase = "list" => op.kind = "import"
    BY <1>1 DEF Begin
  <2>2. /\ req' = [req EXCEPT ![h] = op] /\ (op.kind = "import" => service.csv # "none")
        /\ pc[h] = "idle" /\ UNCHANGED <<service, was, listed, rows, setBy, overtook>>
    BY <1>1 DEF Begin
  <2>3. TypeOK'
    BY <2>1, <2>2
  <2>4. ASSUME NEW g \in Handlers PROVE PhaseOK(g)'
    <3>1. CASE g = h
      <4>1. op.kind = "create" => op.names # {}
        BY CreateNames
      <4>2. QED
        BY <2>1, <2>2, <3>1, <4>1
    <3>2. CASE g # h
      <4>1. pc'[g] = pc[g] /\ req'[g] = req[g] /\ was' = was /\ rows' = rows /\ service' = service
        BY <2>1, <2>2, <3>2
      <4>2. QED
        BY <4>1
    <3>3. QED
      BY <3>1, <3>2
  <2>5. QED
    BY <2>3, <2>4
<1>2. ASSUME NEW h \in Handlers, Find(h) PROVE TypeInv'
  <2>1. req[h].row \in Rows /\ rows[req[h].row] \in Entries \cup {NULL}
    BY <1>2 DEF Find
  <2>2. PICK phase \in {"refused", "look", "write"} :
          /\ pc' = [pc EXCEPT ![h] = phase]
          /\ phase # "refused" => rows[req[h].row] # NULL
          /\ phase = "look" => req[h].names # {}
    BY <1>2 DEF Find, Looks
  <2>3. /\ pc[h] = "find" /\ was' = [was EXCEPT ![h] = rows[req[h].row]]
        /\ UNCHANGED <<service, req, listed, rows, setBy, overtook>>
    BY <1>2 DEF Find
  <2>4. TypeOK'
    BY <2>1, <2>2, <2>3
  <2>5. ASSUME NEW g \in Handlers PROVE PhaseOK(g)'
    <3>1. CASE g = h
      BY <2>2, <2>3, <3>1
    <3>2. CASE g # h
      <4>1. pc'[g] = pc[g] /\ req' = req /\ was'[g] = was[g] /\ rows' = rows /\ service' = service
        BY <2>2, <2>3, <3>2
      <4>2. QED
        BY <4>1
    <3>3. QED
      BY <3>1, <3>2
  <2>6. QED
    BY <2>4, <2>5
<1>3. ASSUME NEW h \in Handlers, Look(h) PROVE TypeInv'
  <2>1. PICK phase \in {"taken", "write"} : pc' = [pc EXCEPT ![h] = phase]
    BY <1>3 DEF Look
  <2>2. pc[h] = "look" /\ UNCHANGED <<service, req, was, listed, rows, setBy, overtook>>
    BY <1>3 DEF Look
  <2>3. QED
    BY <2>1, <2>2
<1>4. ASSUME NEW h \in Handlers, List(h) PROVE TypeInv'
  <2>1. /\ pc[h] = "list" /\ pc' = [pc EXCEPT ![h] = "write"]
        /\ UNCHANGED <<service, req, was, rows, setBy, overtook>>
    BY <1>4 DEF List
  <2>2. listed' \in [Handlers -> SUBSET Names]
    BY <1>4 DEF List
  <2>3. TypeOK'
    BY <2>1, <2>2
  <2>4. \A g \in Handlers : PhaseOK(g)'
    BY <2>1
  <2>5. QED
    BY <2>3, <2>4
<1>5. ASSUME NEW h \in Handlers, Write(h) PROVE TypeInv'
  <2>1. rows' \in [Rows -> Entries \cup {NULL}]
    BY <1>5, WriteEffect
  <2>2. /\ setBy' \in [Rows -> Handlers \cup {NULL}]
        /\ pc[h] = "write" /\ pc' = [pc EXCEPT ![h] = "done"]
        /\ UNCHANGED <<service, req, was, listed>>
    BY <1>5 DEF Write
  <2>3. overtook' \in [Handlers -> SUBSET Rows]
    BY <1>5 DEF Write, Overtake
  <2>4. TypeOK'
    BY <2>1, <2>2, <2>3
  <2>5. ASSUME NEW g \in Handlers PROVE PhaseOK(g)'
    <3>1. pc[g] # "idle" => req[g].row \in Rows
      OBVIOUS
    <3>2. \A r \in Rows : rows[r] # NULL =>
            rows'[r] # NULL /\ (service.moves \/ rows'[r].list = rows[r].list)
      BY <1>5, WriteEffect
    <3>3. ASSUME g # h, pc[g] # "done", NEW r \in Rows, r[1] = g
          PROVE  rows'[r] = NULL
      <4>1. rows[r] = NULL
        BY <3>3
      <4>2. CASE req[h].kind = "update"
        <5>1. rows[req[h].row] # NULL
          BY <2>2, <4>2
        <5>2. QED
          BY <1>5, <4>1, <4>2, <5>1, WriteEffect
      <4>3. CASE req[h].kind # "update"
        BY <1>5, <3>3, <4>1, <4>3, WriteEffect
      <4>4. QED
        BY <4>2, <4>3
    <3>4. CASE g = h
      BY <2>2, <3>4
    <3>5. CASE g # h
      BY <2>2, <3>1, <3>2, <3>3, <3>5
    <3>6. QED
      BY <3>4, <3>5
  <2>6. QED
    BY <2>4, <2>5
<1>6. ASSUME NEW h \in Handlers, Collide(h) \/ Fail(h) PROVE TypeInv'
  <2>1. PICK phase \in {"collided", "failed"} : pc' = [pc EXCEPT ![h] = phase]
    BY <1>6 DEF Collide, Fail
  <2>2. pc[h] \notin {"idle", "done"} /\ UNCHANGED <<service, req, was, listed, rows, setBy, overtook>>
    BY <1>6 DEF Collide, Fail, InFlight
  <2>3. QED
    BY <2>1, <2>2
<1>7. CASE UNCHANGED vars
  BY <1>7 DEF vars, handlerVars
<1>8. QED
  BY <1>1, <1>2, <1>3, <1>4, <1>5, <1>6, <1>7 DEF Next, HandlerStep

-----------------------------------------------------------------------------
\* The index does its work.
NoTwins ==
  \A r, q \in Rows : r # q /\ rows[r] # NULL /\ rows[q] # NULL => ~Same(rows[r], rows[q])
IndexInv == service.indexed => NoTwins

\* A handler about to write, of a request that counts.
Informed(h) ==
  /\ pc[h] = "write"
  /\ \/ req[h].kind = "create" /\ service.atCreate = "look"
     \/ req[h].kind = "update" /\ service.atUpdate # "never"

\* Whoever holds a key it is to write by now got it later, or is spelt in another
\* case; or its own row has changed, or is written back as it is; or it looked in
\* another list.
Covered(h, r) == r \in overtook[h] \/ (service.exact /\ rows[r].name \notin req[h].names)
LookOK(h) ==
  \/ LookedElsewhere(h)
  \/ Own(h) \cap overtook[h] # {}
  \/ req[h].kind = "update" /\ rows[req[h].row] = Revised(h)
  \/ \A r \in Holding(Wanted(h)) \ Own(h) : Covered(h, r)
LookInv == \A h \in Handlers : Informed(h) => LookOK(h)

\* Only a write touches the list and what is remembered of it.
LEMMA Frame ==
  ASSUME TypeInv, [Next]_vars
  PROVE  UNCHANGED <<rows, setBy, overtook>> \/ \E h \in Handlers : Write(h)
<1>1. ASSUME NEW h \in Handlers, NEW op \in Ops, Begin(h, op)
      PROVE  UNCHANGED <<rows, setBy, overtook>>
  BY <1>1 DEF Begin, Unwritten
<1>2. ASSUME NEW h \in Handlers, Find(h) \/ Look(h) \/ List(h) \/ Collide(h) \/ Fail(h)
      PROVE  UNCHANGED <<rows, setBy, overtook>>
  BY <1>2 DEF Find, Look, List, Collide, Fail, Unwritten
<1>3. CASE UNCHANGED vars
  BY <1>3 DEF vars
<1>4. QED
  BY <1>1, <1>2, <1>3 DEF Next, HandlerStep

LEMMA ServiceFixed ==
  ASSUME [Next]_vars
  PROVE  UNCHANGED service
BY DEF Next, HandlerStep, Begin, Find, Look, List, Write, Collide, Fail, vars

\* What was asked, read and overtaken stays so.
LEMMA Monotone ==
  ASSUME TypeInv, [Next]_vars, NEW h \in Handlers, pc[h] # "idle"
  PROVE  /\ req'[h] = req[h] /\ pc'[h] # "idle"
         /\ overtook[h] \subseteq overtook'[h]
         /\ pc[h] # "find" => was'[h] = was[h] /\ pc'[h] # "find"
<1> USE DEF TypeInv, TypeOK, Goto, Unwritten, Ended
<1>1. ASSUME NEW g \in Handlers, NEW op \in Ops, Begin(g, op)
      PROVE  /\ g # h /\ req'[h] = req[h] /\ pc'[h] = pc[h]
             /\ UNCHANGED <<overtook, was>>
  BY <1>1 DEF Begin
<1>2. ASSUME NEW g \in Handlers, Find(g)
      PROVE  /\ UNCHANGED <<req, overtook>> /\ pc'[g] # "idle" /\ pc[g] = "find"
             /\ (g # h => pc'[h] = pc[h] /\ was'[h] = was[h])
  BY <1>2 DEF Find
<1>3. ASSUME NEW g \in Handlers, Look(g) \/ List(g) \/ Collide(g) \/ Fail(g)
      PROVE  /\ UNCHANGED <<req, overtook, was>> /\ pc'[g] \notin {"idle", "find"}
             /\ (g # h => pc'[h] = pc[h])
  BY <1>3 DEF Look, List, Collide, Fail, InFlight
<1>4. ASSUME NEW g \in Handlers, Write(g)
      PROVE  /\ UNCHANGED <<req, was>> /\ pc'[g] \notin {"idle", "find"}
             /\ (g # h => pc'[h] = pc[h]) /\ overtook[h] \subseteq overtook'[h]
  BY <1>4 DEF Write, Overtake
<1>5. CASE UNCHANGED vars
  BY <1>5 DEF vars, handlerVars
<1>6. QED
  BY <1>1, <1>2, <1>3, <1>4, <1>5 DEF Next, HandlerStep

LEMMA RefusedNone ==
  ASSUME TypeInv, NEW h \in Handlers, Write(h), service.indexed, req[h].kind # "import"
  PROVE  \A r \in Rows : r \in Holding(Wanted(h)) => req[h].kind = "update" /\ r = req[h].row
<1>1. Holding(Wanted(h)) \subseteq Own(h)
  BY DEF Write, Refused
<1>2. QED
  BY <1>1 DEF Own

LEMMA IndexNext == TypeInv /\ IndexInv /\ [Next]_vars => IndexInv'
<1> SUFFICES ASSUME TypeInv, IndexInv, [Next]_vars, service.indexed,
                    NEW r \in Rows, NEW q \in Rows, r # q,
                    rows'[r] # NULL, rows'[q] # NULL, Same(rows'[r], rows'[q])
             PROVE  FALSE
  BY ServiceFixed DEF IndexInv, NoTwins, Same
<1>1. CASE UNCHANGED rows
  BY <1>1 DEF IndexInv, NoTwins
<1>2. ASSUME NEW h \in Handlers, Write(h) PROVE FALSE
  <2>1. \A x \in Rows : rows'[x] # rows[x] => rows'[x] \in Wanted(h)
    BY <1>2, WriteEffect
  <2>2. ~(rows'[r] = rows[r] /\ rows'[q] = rows[q])
    BY DEF IndexInv, NoTwins
  <2>3. CASE req[h].kind = "import"
    <3>1. \A x \in Rows : rows'[x] # rows[x] =>
            x[1] = h /\ rows'[x] = x[2] /\ Holding({x[2]}) = {}
      BY <1>2, <2>3, WriteEffect
    <3>2. CASE rows'[r] # rows[r] /\ rows'[q] # rows[q]
      <4>1. /\ req[h] \in Ops /\ Wanted(h) = [list : {req[h].list}, name : req[h].names]
        BY <1>2, <2>3 DEF Write, TypeInv, PhaseOK, Wanted
      <4>2. r[2] \in Wanted(h) /\ q[2] \in Wanted(h)
        BY <2>1, <3>1, <3>2
      <4>3. r[2].name = q[2].name
        <5>1. r[2].name \in req[h].names /\ q[2].name \in req[h].names
          BY <4>1, <4>2
        <5>2. Letters[r[2].name] = Letters[q[2].name]
          BY <3>1, <3>2 DEF Same
        <5>3. \A n, m \in req[h].names : Letters[n] = Letters[m] => n = m
          BY <2>3, <4>1, OpTypes
        <5>4. QED
          BY <5>1, <5>2, <5>3
      <4>4. r[2].list = q[2].list
        BY <4>1, <4>2
      <4>5. r[2] = q[2]
        BY <4>3, <4>4, RowTypes, EntryTypes
      <4>6. r = <<r[1], r[2]>> /\ q = <<q[1], q[2]>> /\ r[1] = h /\ q[1] = h
        BY <3>1, <3>2, RowTypes
      <4>7. QED
        BY <4>5, <4>6
    <3>3. CASE rows'[r] # rows[r] /\ rows'[q] = rows[q]
      <4>1. q \in Holding({r[2]})
        BY <3>1, <3>3 DEF Holding, Same
      <4>2. QED
        BY <3>1, <3>3, <4>1
    <3>4. CASE rows'[r] = rows[r] /\ rows'[q] # rows[q]
      <4>1. r \in Holding({q[2]})
        BY <3>1, <3>4 DEF Holding, Same
      <4>2. QED
        BY <3>1, <3>4, <4>1
    <3>5. QED
      BY <2>2, <3>2, <3>3, <3>4
  <2>4. CASE req[h].kind # "import"
    <3>1. \A x, y \in Rows : rows'[x] # rows[x] /\ rows'[y] # rows[y] => x = y
      BY <1>2, <2>4, WriteEffect
    <3>2. \A x \in Rows : x \in Holding(Wanted(h)) => req[h].kind = "update" /\ x = req[h].row
      BY <1>2, <2>4, RefusedNone
    <3>3. \A x \in Rows : req[h].kind = "update" /\ rows'[x] # rows[x] => x = req[h].row
      BY <1>2, WriteEffect
    <3>4. ASSUME NEW x \in Rows, NEW y \in Rows, x # y, rows'[x] # rows[x], rows'[y] = rows[y],
                 rows'[y] # NULL, Same(rows'[x], rows'[y])
          PROVE  FALSE
      <4>1. y \in Holding(Wanted(h))
        BY <2>1, <3>4 DEF Holding, Same
      <4>2. QED
        BY <3>2, <3>3, <3>4, <4>1
    <3>5. Same(rows'[q], rows'[r])
      BY DEF Same
    <3>6. QED
      BY <2>2, <3>1, <3>4, <3>5
  <2>5. QED
    BY <2>3, <2>4
<1>3. QED
  BY <1>1, <1>2, Frame

\* The count of a handler is of the keys it is to write, or in another list.
LEMMA CountedIsWanted ==
  ASSUME TypeInv, NEW h \in Handlers, Look(h), pc'[h] = "write",
         NEW r \in Holding(Wanted(h))'
  PROVE  LookedElsewhere(h)' \/ Covered(h, r)'
<1>1. /\ pc[h] = "look" /\ UNCHANGED <<service, req, was, rows, overtook>>
      /\ req[h] \in Ops /\ req[h].kind # "import" /\ req[h].names # {}
  BY DEF Look, Unwritten, TypeInv, PhaseOK
<1>2. \A q \in Holding(Counted(h)) : service.exact /\ rows[q].name \notin req[h].names
  BY DEF Look, Goto, TypeInv, TypeOK
<1>3. ASSUME NEW n \in Names, req[h].names = {n}, NEW l \in Lists,
             r \in Rows, rows[r] # NULL, Letters[rows[r].name] = Letters[n],
             rows[r].list = l \/ service.counts = "all",
             Counted(h) = [list : {l}, name : req[h].names] \/ service.counts = "all"
      PROVE  Covered(h, r)'
  <2>1. PICK e \in Counted(h) :
          e.name = n /\ (e.list = l \/ service.counts = "all")
    <3>1. PICK k : Counted(h) = [list : {k}, name : {n}]
                   /\ (k = l \/ service.counts = "all")
      <4>1. CASE Counted(h) = [list : {l}, name : req[h].names]
        BY <1>3, <4>1
      <4>2. CASE service.counts = "all"
        BY <1>3, <4>2 DEF Counted
      <4>3. QED
        BY <1>3, <4>1, <4>2
    <3>2. [list |-> k, name |-> n] \in Counted(h)
      BY <3>1
    <3>3. [list |-> k, name |-> n].name = n /\ [list |-> k, name |-> n].list = k
      OBVIOUS
    <3>4. QED
      BY <3>1, <3>2, <3>3
  <2>2. r \in Holding(Counted(h))
    BY <1>3, <2>1 DEF Holding, Same
  <2>3. QED
    BY <1>1, <1>2, <2>2 DEF Covered
<1>4. r \in Rows /\ rows[r] # NULL
  BY <1>1 DEF Holding
<1>5. CASE req[h].kind = "create"
  <2>1. PICK n \in Names : req[h].names = {n}
    BY <1>1, <1>5, OpTypes
  <2>2. req[h].list \in Lists /\ Counted(h) = [list : {req[h].list}, name : req[h].names]
    BY <1>1, <1>5, OpTypes DEF Counted
  <2>3. Wanted(h)' = [list : {req[h].list}, name : req[h].names]
    BY <1>1, <1>5 DEF Wanted
  <2>4. PICK e \in Wanted(h)' : Same(rows[r], e)'
    BY <1>1 DEF Holding
  <2>5. e.list = req[h].list /\ e.name = n
    BY <2>1, <2>3, <2>4
  <2>6. Letters[rows[r].name] = Letters[n] /\ (rows[r].list = req[h].list \/ service.counts = "all")
    BY <1>1, <2>4, <2>5 DEF Same
  <2>7. QED
    BY <1>3, <1>4, <2>1, <2>2, <2>6
<1>6. CASE req[h].kind = "update"
  <2>1. PICK n \in Names : req[h].names = {n}
    BY <1>1, <1>6, OpTypes
  <2> DEFINE old == rows[req[h].row]
             to == IF service.moves THEN req[h].list ELSE old.list
  <2>2. /\ old \in Entries /\ (service.moves \/ old.list = was[h].list) /\ was[h] \in Entries
        /\ req[h].list \in Lists
    <3>1. old # NULL /\ (service.moves \/ old.list = was[h].list) /\ was[h] # NULL
      BY <1>1, <1>6 DEF TypeInv, PhaseOK
    <3>2. req[h].row \in Rows /\ req[h].list \in Lists
      BY <1>1, OpTypes
    <3>3. QED
      BY <3>1, <3>2 DEF TypeInv, TypeOK
  <2>3. to \in Lists
    BY <2>2, EntryTypes
  <2>4. Letters[rows[r].name] = Letters[n] /\ (rows[r].list = to \/ service.counts = "all")
    <3>1. (CHOOSE m \in req[h].names : TRUE) = n
      BY <2>1
    <3>2. Revised(h)'.name = n /\ Revised(h)'.list = to
      BY <1>1, <2>1, <3>1 DEF Revised
    <3>3. Wanted(h)' = {Revised(h)'}
      BY <1>1, <1>6 DEF Wanted
    <3>4. Same(rows[r], Revised(h))'
      BY <1>1, <3>3 DEF Holding
    <3>5. QED
      BY <1>1, <3>2, <3>4 DEF Same
  <2>5. \/ Counted(h) = [list : {to}, name : req[h].names]
        \/ service.counts = "all" \/ LookedElsewhere(h)'
    <3>1. service.counts \in {"row", "caller", "all"} /\ (service.counts = "row" => ~service.moves)
          /\ service.moves \in BOOLEAN
      BY ServiceTypes DEF Sound, TypeInv, TypeOK
    <3>2. CASE service.counts = "row"
      BY <1>6, <2>2, <3>1, <3>2 DEF Counted
    <3>3. CASE service.counts = "caller" /\ (service.moves \/ was[h].list = req[h].list)
      BY <1>6, <2>2, <3>1, <3>3 DEF Counted
    <3>4. CASE service.counts = "caller" /\ ~service.moves /\ was[h].list # req[h].list
      BY <1>1, <1>6, <3>4 DEF LookedElsewhere
    <3>5. QED
      BY <3>1, <3>2, <3>3, <3>4
  <2>6. QED
    BY <1>3, <1>4, <2>1, <2>3, <2>4, <2>5
<1>7. QED
  BY <1>1, <1>5, <1>6, OpTypes DEF Kinds

\* A handler comes to its write informed.
LEMMA BecomesInformed ==
  ASSUME TypeInv, [Next]_vars, NEW h \in Handlers, Informed(h)', ~Informed(h)
  PROVE  LookOK(h)'
<1>1. UNCHANGED service
  BY ServiceFixed
<1>2. pc'[h] = "write"
  BY DEF Informed
<1>3. pc[h] # "write"
  <2>1. SUFFICES ASSUME pc[h] = "write" PROVE FALSE
    OBVIOUS
  <2>2. req'[h] = req[h]
    BY <2>1, Monotone
  <2>3. QED
    BY <1>1, <1>2, <2>1, <2>2 DEF Informed
<1> USE DEF TypeInv, TypeOK, Goto, Unwritten
<1>4. ASSUME NEW g \in Handlers, NEW op \in Ops, Begin(g, op)
      PROVE  FALSE
  <2>1. g = h
    BY <1>2, <1>3, <1>4 DEF Begin
  <2>2. req'[h] = op /\ pc'[h] = "write"
    BY <1>2, <1>4, <2>1 DEF Begin
  <2>3. op.kind # "update" /\ (op.kind = "create" => service.atCreate # "look")
    BY <1>4, <2>1, <2>2 DEF Begin
  <2>4. QED
    BY <1>1, <2>2, <2>3 DEF Informed
<1>5. ASSUME NEW g \in Handlers, List(g) \/ Write(g) \/ Collide(g) \/ Fail(g)
      PROVE  FALSE
  <2>1. List(g)
    BY <1>2, <1>3, <1>5 DEF List, Write, Collide, Fail
  <2>2. g = h /\ req[g].kind = "import" /\ req' = req
    BY <1>2, <1>3, <2>1 DEF List, PhaseOK
  <2>3. QED
    BY <2>2 DEF Informed
<1>6. ASSUME NEW g \in Handlers, Look(g)
      PROVE  LookOK(h)'
  <2>1. g = h
    BY <1>2, <1>3, <1>6 DEF Look
  <2>2. \A r \in Holding(Wanted(h))' : LookedElsewhere(h)' \/ Covered(h, r)'
    BY <1>2, <1>6, <2>1, CountedIsWanted
  <2>3. QED
    BY <2>2 DEF LookOK
<1>7. ASSUME NEW g \in Handlers, Find(g)
      PROVE  LookOK(h)'
  <2> DEFINE old == rows[req[h].row]
  <2>1. g = h /\ req' = req /\ was'[h] = old /\ UNCHANGED rows
    BY <1>2, <1>3, <1>7 DEF Find
  <2>2. /\ req[h].kind = "update" /\ req[h] \in Ops /\ old # NULL
        /\ ~Looks(service.atUpdate, old, req[h].names)
    BY <1>2, <1>7, <2>1 DEF Find, PhaseOK
  <2>3. service.atUpdate \in {"changed", "always"}
    BY <1>1, <2>1, <2>2, ServiceTypes DEF Informed, Sound
  <2>4. req[h].names = {} \/ req[h].names = {old.name}
    BY <2>2, <2>3 DEF Looks
  <2>5. CASE service.moves /\ old.list # req[h].list
    <3>1. req[h].names \subseteq {old.name}
      BY <2>4
    <3>2. service.counts = "caller"
      BY <2>3, <2>5, ServiceTypes DEF Sound
    <3>3. QED
      BY <1>1, <2>1, <2>2, <2>5, <3>1, <3>2 DEF LookedElsewhere, LookOK
  <2>6. CASE ~(service.moves /\ old.list # req[h].list)
    <3>1. old \in Entries
      BY <2>2, OpTypes
    <3>2. req[h].names # {} => (CHOOSE n \in req[h].names : TRUE) = old.name
      BY <2>4
    <3>3. Revised(h)' = [list |-> old.list, name |-> old.name]
      BY <1>1, <2>1, <2>6, <3>2 DEF Revised
    <3>4. rows'[req'[h].row] = Revised(h)'
      BY <2>1, <3>1, <3>3 DEF Entries
    <3>5. QED
      BY <2>1, <2>2, <3>4 DEF LookOK
  <2>7. QED
    BY <2>5, <2>6
<1>8. CASE UNCHANGED vars
  BY <1>2, <1>3, <1>8 DEF vars, handlerVars
<1>9. QED
  BY <1>4, <1>5, <1>6, <1>7, <1>8 DEF Next, HandlerStep

LEMMA LookNext == TypeInv /\ LookInv /\ [Next]_vars => LookInv'
<1> SUFFICES ASSUME TypeInv, LookInv, [Next]_vars, NEW h \in Handlers, Informed(h)'
             PROVE  LookOK(h)'
  BY DEF LookInv
<1>1. CASE ~Informed(h)
  BY <1>1, BecomesInformed
<1>2. CASE Informed(h)
  <2>1. /\ req'[h] = req[h] /\ was'[h] = was[h] /\ pc[h] = "write" /\ pc'[h] = "write"
        /\ overtook[h] \subseteq overtook'[h] /\ service' = service
    BY <1>2, Monotone, ServiceFixed DEF Informed
  <2>2. LookOK(h)
    BY <1>2 DEF LookInv
  <2>3. Own(h)' = Own(h)
    BY <2>1 DEF Own
  <2>4. CASE LookedElsewhere(h)
    <3>1. LookedElsewhere(h)'
      BY <2>1, <2>4 DEF LookedElsewhere
    <3>2. QED
      BY <3>1 DEF LookOK
  <2>5. CASE Own(h) \cap overtook'[h] # {}
    BY <2>3, <2>5 DEF LookOK
  <2>6. CASE /\ Own(h) \cap overtook'[h] = {}
             /\ \/ req[h].kind = "update" /\ rows[req[h].row] = Revised(h)
                \/ \A r \in Holding(Wanted(h)) \ Own(h) : Covered(h, r)
    <3>1. req[h] \in Ops /\ (req[h].kind = "update" => req[h].row \in Rows /\ req[h].row \in Own(h))
      BY <2>1, OpTypes DEF TypeInv, PhaseOK, Own
    <3>2. \A r \in Rows : rows'[r] # rows[r] =>
            /\ r \in Own(h) => r \in overtook'[h]
            /\ (\E e \in Wanted(h) : Same(rows'[r], e)) => r \in overtook'[h]
      <4>1. ASSUME NEW g \in Handlers, Write(g), NEW r \in Rows, rows'[r] # rows[r]
            PROVE  /\ r \in Own(h) => r \in overtook'[h]
                   /\ (\E e \in Wanted(h) : Same(rows'[r], e)) => r \in overtook'[h]
        <5>1. g # h
          BY <2>1, <4>1 DEF Write, Goto, TypeInv, TypeOK
        <5>2. overtook'[h] = overtook[h] \cup
                {q \in {q \in Rows : rows'[q] # rows[q]} :
                   q \in Own(h) \/ \E e \in Wanted(h) : Same(rows'[q], e)}
          BY <2>1, <4>1, <5>1 DEF Write, Overtake
        <5>3. QED
          BY <4>1, <5>2
      <4>2. QED
        BY <4>1, Frame
    <3>3. req[h].kind = "update" => rows'[req[h].row] = rows[req[h].row]
      BY <2>6, <3>1, <3>2
    <3>4. Revised(h)' = Revised(h) \/ req[h].kind # "update"
      BY <2>1, <3>3 DEF Revised
    <3>5. Wanted(h)' = Wanted(h)
      BY <2>1, <3>4 DEF Wanted
    <3>6. CASE req[h].kind = "update" /\ rows[req[h].row] = Revised(h)
      BY <2>1, <3>3, <3>4, <3>6 DEF LookOK
    <3>7. CASE \A r \in Holding(Wanted(h)) \ Own(h) : Covered(h, r)
      <4>1. ASSUME NEW r \in Holding(Wanted(h))', r \notin Own(h)
            PROVE  Covered(h, r)'
        <5>1. PICK e \in Wanted(h) : r \in Rows /\ rows'[r] # NULL /\ Same(rows'[r], e)
          BY <2>1, <3>5, <4>1 DEF Holding, Same
        <5>2. CASE rows'[r] = rows[r]
          <6>1. r \in Holding(Wanted(h))
            BY <5>1, <5>2 DEF Holding
          <6>2. Covered(h, r)
            BY <3>7, <4>1, <6>1
          <6>3. QED
            BY <2>1, <5>2, <6>2 DEF Covered
        <5>3. CASE rows'[r] # rows[r]
          BY <3>2, <5>1, <5>3 DEF Covered
        <5>4. QED
          BY <5>2, <5>3
      <4>2. QED
        BY <2>3, <4>1 DEF LookOK
    <3>8. QED
      BY <2>6, <3>6, <3>7
  <2>7. QED
    BY <2>1, <2>2, <2>4, <2>5, <2>6 DEF LookOK
<1>3. QED
  BY <1>1, <1>2

-----------------------------------------------------------------------------
\* Whoever gave a row its entry is done.
SetInv == \A r \in Rows : setBy[r] # NULL => pc[setBy[r]] = "done"

LEMMA DoneStays ==
  ASSUME TypeInv, [Next]_vars, NEW h \in Handlers, pc[h] = "done"
  PROVE  pc'[h] = "done"
BY DEF Next, HandlerStep, Begin, Find, Look, List, Write, Collide, Fail, InFlight, Ended, Goto,
       TypeInv, TypeOK, vars, handlerVars

LEMMA SetNext == TypeInv /\ SetInv /\ [Next]_vars => SetInv'
<1> SUFFICES ASSUME TypeInv, SetInv, [Next]_vars, NEW r \in Rows, setBy'[r] # NULL
             PROVE  pc'[setBy'[r]] = "done"
  BY DEF SetInv
<1>1. CASE setBy'[r] = setBy[r]
  <2>1. setBy[r] \in Handlers /\ pc[setBy[r]] = "done"
    BY <1>1 DEF SetInv, TypeInv, TypeOK
  <2>2. QED
    BY <1>1, <2>1, DoneStays
<1>2. ASSUME NEW h \in Handlers, Write(h), setBy'[r] # setBy[r]
      PROVE  pc'[setBy'[r]] = "done"
  <2>1. setBy'[r] = h /\ pc'[h] = "done"
    BY <1>2 DEF Write, Goto, TypeInv, TypeOK
  <2>2. QED
    BY <2>1
<1>3. QED
  BY <1>1, <1>2, Frame

\* What a handler that has looked missed it has still missed after a step.
LEMMA MissedStays ==
  ASSUME TypeInv, [Next]_vars, NEW h \in Handlers, pc[h] \in {"write", "done"}, NEW r
  PROVE  /\ Unseen(h, r) => Unseen(h, r)'
         /\ LookedElsewhere(h) => LookedElsewhere(h)'
<1>1. /\ req'[h] = req[h] /\ was'[h] = was[h] /\ overtook[h] \subseteq overtook'[h]
      /\ service' = service
  BY Monotone, ServiceFixed
<1>2. QED
  BY <1>1 DEF Unseen, LookedElsewhere, Own

\* A write without an index to stop it that makes a twin missed the other.
LEMMA WriteMissed ==
  ASSUME TypeInv, LookInv, NEW h \in Handlers, Write(h), [Next]_vars,
         ~service.indexed, service.atCreate = "look",
         NEW r \in Rows, NEW q \in Rows, r # q,
         rows'[r] # rows[r], rows'[q] # NULL, Same(rows'[r], rows'[q])
  PROVE  setBy'[r] = h /\ (Unseen(h, q)' \/ LookedElsewhere(h)')
<1>1. setBy'[r] = h
  BY DEF Write
<1>2. req[h] \in Ops /\ pc[h] = "write" /\ req[h].kind # "import" /\ ~service.exact
  BY ServiceTypes DEF TypeInv, TypeOK, PhaseOK, Write, Sound
<1>3. rows'[r] \in Wanted(h)
  BY WriteEffect
<1>4. rows[q] = rows'[q]
  BY <1>2, WriteEffect
<1>5. q \in Holding(Wanted(h))
  BY <1>3, <1>4 DEF Holding, Same
<1>6. service.atUpdate # "never"
  BY ServiceTypes DEF TypeInv, TypeOK, Sound
<1>7. LookOK(h)
  BY <1>2, <1>6, OpTypes DEF LookInv, Informed, Kinds
<1>8. req[h].kind = "update" => r = req[h].row
  BY WriteEffect
<1>9. Unseen(h, q) \/ LookedElsewhere(h)
  <2>1. CASE req[h].kind = "update" /\ rows[req[h].row] = Revised(h)
    BY <1>3, <1>8, <2>1 DEF Wanted
  <2>2. CASE \A x \in Holding(Wanted(h)) \ Own(h) : Covered(h, x)
    <3>1. q \notin Own(h)
      BY <1>8 DEF Own
    <3>2. QED
      BY <1>2, <1>5, <2>2, <3>1 DEF Covered, Unseen
  <2>3. QED
    BY <1>7, <2>1, <2>2 DEF LookOK, Unseen
<1>10. QED
  BY <1>1, <1>2, <1>9, MissedStays

LEMMA DupNext ==
  TypeInv /\ IndexInv /\ LookInv /\ SetInv /\ DuplicateOnlyByRace /\ [Next]_vars
    => DuplicateOnlyByRace'
<1> SUFFICES ASSUME TypeInv, IndexInv, LookInv, SetInv, DuplicateOnlyByRace, [Next]_vars,
                    service.atCreate = "look",
                    NEW r \in Rows, NEW q \in Rows,
                    r # q, rows'[r] # NULL, rows'[q] # NULL, Same(rows'[r], rows'[q])
             PROVE  Missed(setBy[r], q)' \/ Missed(setBy[q], r)'
  BY ServiceFixed DEF DuplicateOnlyByRace, Same
<1>1. ~service.indexed
  <2>1. IndexInv' /\ service' = service
    BY IndexNext, ServiceFixed
  <2>2. QED
    BY <2>1 DEF IndexInv, NoTwins, Same
<1>2. CASE rows'[r] = rows[r] /\ rows'[q] = rows[q]
  <2>1. Missed(setBy[r], q) \/ Missed(setBy[q], r)
    BY <1>2 DEF DuplicateOnlyByRace
  <2>2. setBy'[r] = setBy[r] /\ setBy'[q] = setBy[q]
    <3>1. ASSUME NEW h \in Handlers, Write(h)
          PROVE  setBy'[r] = setBy[r] /\ setBy'[q] = setBy[q]
      BY <1>2, <3>1 DEF Write
    <3>2. QED
      BY <3>1, Frame
  <2>3. ASSUME NEW x \in Rows, NEW y \in Rows, Missed(setBy[x], y), setBy'[x] = setBy[x]
        PROVE  Missed(setBy[x], y)'
    <3> DEFINE g == setBy[x]
    <3>1. g \in Handlers /\ pc[g] = "done" /\ g # NULL
      BY <2>3 DEF SetInv, TypeInv, TypeOK, Missed
    <3>2. Unseen(g, y) \/ LookedElsewhere(g)
      BY <2>3 DEF Missed
    <3>3. /\ req'[g] = req[g] /\ was'[g] = was[g] /\ overtook[g] \subseteq overtook'[g]
          /\ service' = service
      BY <3>1, Monotone, ServiceFixed
    <3>4. setBy'[x] = g
      BY <2>3
    <3>5. QED
      BY <3>1, <3>2, <3>3, <3>4 DEF Missed, Unseen, LookedElsewhere, Own
  <2>4. QED
    BY <2>1, <2>2, <2>3
<1>3. CASE rows'[r] # rows[r] \/ rows'[q] # rows[q]
  <2>1. PICK h \in Handlers : Write(h)
    BY <1>3, Frame
  <2>2. h # NULL
    BY RegistryAssumption
  <2>3. rows'[r] # rows[r] => setBy'[r] = h /\ (Unseen(h, q)' \/ LookedElsewhere(h)')
    BY <1>1, <2>1, WriteMissed
  <2>4. Same(rows'[q], rows'[r])
    BY DEF Same
  <2>5. rows'[q] # rows[q] => setBy'[q] = h /\ (Unseen(h, r)' \/ LookedElsewhere(h)')
    BY <1>1, <2>1, <2>4, WriteMissed
  <2>6. QED
    BY <1>3, <2>2, <2>3, <2>5 DEF Missed, Unseen, LookedElsewhere, Own
<1>4. QED
  BY <1>2, <1>3

\* What the index refuses to a handler that has looked it missed.
LEMMA CollideMissed ==
  ASSUME TypeInv, IndexInv, LookInv, NEW h \in Handlers, pc[h] = "write",
         req[h].kind = "create" \/ service.atUpdate # "never",
         NEW r \in Refused(h)
  PROVE  \/ Unseen(h, r) \/ LookedElsewhere(h)
         \/ service.exact /\ rows[r].name \notin req[h].names
<1>1. req[h] \in Ops
  BY DEF TypeInv, PhaseOK
<1>2. /\ service.indexed /\ req[h].kind # "import"
      /\ r \in Rows /\ rows[r] # NULL /\ r \in Holding(Wanted(h)) /\ r \notin Own(h)
  BY DEF Refused, Holding
<1>3. service.atCreate = "look"
  BY <1>2, ServiceTypes DEF Sound, TypeInv, TypeOK
<1>4. LookOK(h)
  BY <1>1, <1>2, <1>3, OpTypes DEF LookInv, Informed, Kinds
<1>5. CASE req[h].kind = "update" /\ rows[req[h].row] = Revised(h)
  <2>1. req[h].row \in Rows /\ r # req[h].row /\ rows[req[h].row] # NULL
    BY <1>1, <1>2, <1>5, OpTypes DEF Own, TypeInv, PhaseOK
  <2>2. Same(rows[r], rows[req[h].row])
    BY <1>2, <1>5 DEF Holding, Wanted
  <2>3. QED
    BY <1>2, <2>1, <2>2 DEF IndexInv, NoTwins
<1>6. CASE \A x \in Holding(Wanted(h)) \ Own(h) : Covered(h, x)
  BY <1>2, <1>6 DEF Covered, Unseen
<1>7. QED
  BY <1>4, <1>5, <1>6 DEF LookOK, Unseen

-----------------------------------------------------------------------------
IInv ==
  /\ TypeInv
  /\ IndexInv
  /\ LookInv
  /\ SetInv
  /\ DuplicateOnlyByRace

LEMMA InvInit == Init => IInv
<1> SUFFICES ASSUME Init PROVE IInv
  OBVIOUS
<1>1. PICK present \in SUBSET Present :
        /\ \A e, f \in present : Same(e, f) => e = f
        /\ rows = [r \in Rows |-> IF r[1] = NULL /\ r[2] \in present THEN r[2] ELSE NULL]
  BY DEF Init
<1>2. TypeInv
  BY TypeInit
<1>3. NoTwins
  <2>1. SUFFICES ASSUME NEW r \in Rows, NEW q \in Rows, rows[r] # NULL, rows[q] # NULL,
                        Same(rows[r], rows[q])
                 PROVE  r = q
    BY DEF NoTwins
  <2>2. r[1] = NULL /\ q[1] = NULL /\ r[2] = q[2]
    BY <1>1, <2>1
  <2>3. QED
    BY <2>2, RowTypes
<1>4. LookInv /\ SetInv
  BY DEF Init, LookInv, Informed, SetInv
<1>5. DuplicateOnlyByRace
  BY <1>3 DEF NoTwins, DuplicateOnlyByRace
<1>6. QED
  BY <1>2, <1>3, <1>4, <1>5 DEF IInv, IndexInv

LEMMA Inductive == Spec => []IInv
<1>1. IInv /\ [Next]_vars => IInv'
  BY TypeNext, IndexNext, LookNext, SetNext, DupNext DEF IInv
<1>2. QED
  BY InvInit, <1>1, PTL DEF Spec

\* The list, the requests and what is remembered of them keep their types.
THEOREM TypeCorrect == Spec => []TypeOK
<1>1. IInv => TypeOK
  BY DEF IInv, TypeInv
<1>2. QED
  BY Inductive, <1>1, PTL

\* Whatever the service's checks and index, a list that is checked at all gets two
\* rows with one key only when a write overtakes another's count, or when a caller
\* changes another customer's row, which is counted in the caller's list (create
\* and update of the services).
THEOREM DuplicatesNeedRace == Spec => []DuplicateOnlyByRace
<1>1. IInv => DuplicateOnlyByRace
  BY DEF IInv
<1>2. QED
  BY Inductive, <1>1, PTL

\* A request that has counted meets the unique index only when a write has come in
\* between its count and its own write, when it has counted in another customer's
\* list, or when a customer's name is there in another case.
THEOREM CollisionsNeedRace == Spec => CollisionOnlyByRace
<1>1. IInv /\ [Next]_vars =>
        [\A h \in Handlers :
           (/\ pc[h] = "write" /\ pc'[h] = "collided"
            /\ req[h].kind = "create" \/ service.atUpdate # "never") =>
              \A r \in Refused(h) : \/ Unseen(h, r)
                                    \/ LookedElsewhere(h)
                                    \/ service.exact /\ rows[r].name \notin req[h].names]_vars
  BY CollideMissed DEF IInv
<1>2. QED
  BY Inductive, <1>1, PTL DEF Spec, CollisionOnlyByRace
=============================================================================
