---------------------- MODULE EventAuthorizationProofs ----------------------
(***************************************************************************)
(* Proofs about EventAuthorization, for any number of requests, residents  *)
(* and overlapping handlers.                                               *)
(***************************************************************************)
EXTENDS EventAuthorization, FiniteSetTheorems, TLAPS

\* What a handler has done when it gets to each phase.
PhasesOfKinds ==
  \A h \in Handlers :
    /\ pc[h] \in {"insert", "notify"} =>
         op[h].kind = "create" /\ audience[h] # {}
    /\ pc[h] = "notify" => op[h].visit \in rows
    /\ pc[h] \in {"event", "flag"} =>
         op[h].kind \in {"confirm", "reject"} /\ op[h].visit \in rows
    /\ pc[h] = "flag" => h \in events

\* Only answers past their first write have an event.
EventsOfAnswers ==
  \A h \in events :
    /\ pc[h] \in {"flag", "done", "failed"}
    /\ op[h].kind \in {"confirm", "reject"}

TypeInv == TypeOK /\ PhasesOfKinds /\ EventsOfAnswers

LEMMA OpType ==
  \A o \in Ops : /\ o # NULL
                 /\ o.kind \in {"create", "confirm", "reject"}
                 /\ o.visit \in Visits
                 /\ o.by \in Residents
BY AuthorizationAssumption DEF Ops

LEMMA TypeInit == Init => TypeInv
BY DEF Init, TypeInv, TypeOK, PhasesOfKinds, EventsOfAnswers, Phases, Ended

\* Every step keeps the types, and every handler to its kind's phases.
LEMMA TypeNext == TypeInv /\ [Next]_vars => TypeInv'
<1> SUFFICES ASSUME TypeInv, [Next]_vars
             PROVE  TypeInv'
  OBVIOUS
<1> USE OpType DEF TypeInv, TypeOK, PhasesOfKinds, EventsOfAnswers, Phases,
                   Ended, Goto, tables
<1>1. ASSUME NEW h \in Handlers, NEW o \in Ops, Begin(h, o)
      PROVE  TypeInv'
  BY <1>1 DEF Begin
<1>2. ASSUME NEW h \in Handlers, FindResidents(h)
      PROVE  TypeInv'
  BY <1>2 DEF FindResidents
<1>3. ASSUME NEW h \in Handlers, InsertRequest(h)
      PROVE  TypeInv'
  BY <1>3 DEF InsertRequest
<1>4. ASSUME NEW h \in Handlers, Notify(h)
      PROVE  TypeInv'
  BY <1>4 DEF Notify
<1>5. ASSUME NEW h \in Handlers, ReadRequest(h)
      PROVE  TypeInv'
  BY <1>5 DEF ReadRequest
<1>6. ASSUME NEW h \in Handlers, OpenGate(h)
      PROVE  TypeInv'
  BY <1>6 DEF OpenGate
<1>7. ASSUME NEW h \in Handlers, RecordRefusal(h)
      PROVE  TypeInv'
  BY <1>7 DEF RecordRefusal
<1>8. ASSUME NEW h \in Handlers, Flag(h)
      PROVE  TypeInv'
  BY <1>8 DEF Flag
<1>9. ASSUME NEW h \in Handlers, Fail(h)
      PROVE  TypeInv'
  BY <1>9 DEF Fail, InFlight
<1>10. ASSUME NEW r \in Residents, SetSender(r)
       PROVE  TypeInv'
  BY <1>10 DEF SetSender
<1>11. CASE UNCHANGED vars
  BY <1>11 DEF vars
<1>12. QED
  BY <1>1, <1>2, <1>3, <1>4, <1>5, <1>6, <1>7, <1>8, <1>9, <1>10, <1>11
     DEF Next, Step

\* TypeOK holds in every reachable state: only requests in the table are ever
\* flagged.
THEOREM TypeCorrect == Spec => []TypeOK
<1>1. TypeInv => TypeOK
  BY DEF TypeInv
<1>2. QED
  BY TypeInit, TypeNext, <1>1, PTL DEF Spec

-----------------------------------------------------------------------------
(* Events, flags and notifications *)

\* An event's request does not change: only idle handlers begin.
LEMMA OpKept ==
  ASSUME TypeInv, [Next]_vars, NEW h \in Handlers, pc[h] # "idle"
  PROVE  op'[h] = op[h]
BY DEF Next, Step, Begin, FindResidents, InsertRequest, Notify, ReadRequest,
       OpenGate, RecordRefusal, Flag, Fail, SetSender, vars, TypeInv, TypeOK

LEMMA FlagHasEventNext == TypeInv /\ FlagHasEvent /\ [Next]_vars => FlagHasEvent'
<1> SUFFICES ASSUME TypeInv, FlagHasEvent, [Next]_vars
             PROVE  FlagHasEvent'
  OBVIOUS
<1>1. events \subseteq events'
  BY DEF Next, Step, Begin, FindResidents, InsertRequest, Notify, ReadRequest,
         OpenGate, RecordRefusal, Flag, Fail, SetSender, vars, tables
<1>2. \A h \in events : op'[h] = op[h]
  BY OpKept DEF TypeInv, TypeOK, EventsOfAnswers
<1>3. CASE UNCHANGED <<confirmed, rejected>>
  BY <1>1, <1>2, <1>3 DEF FlagHasEvent
<1>4. ASSUME NEW h \in Handlers, Flag(h)
      PROVE  FlagHasEvent'
  BY <1>1, <1>2, <1>4 DEF Flag, FlagHasEvent, TypeInv, PhasesOfKinds
<1>5. QED
  BY <1>3, <1>4
     DEF Next, Step, Begin, FindResidents, InsertRequest, Notify, ReadRequest,
         OpenGate, RecordRefusal, Fail, SetSender, vars, tables

\* FlagHasEvent holds: no request is marked answered before the gate has the
\* event of that answer.
THEOREM FlagsFollowEvents == Spec => []FlagHasEvent
<1>1. Init => FlagHasEvent
  BY DEF Init, FlagHasEvent
<1>2. QED
  BY TypeInit, TypeNext, FlagHasEventNext, <1>1, PTL DEF Spec

LEMMA UnflaggedNext ==
  TypeInv /\ UnflaggedEventOnlyByFailure /\ [Next]_vars => UnflaggedEventOnlyByFailure'
<1> SUFFICES ASSUME TypeInv, UnflaggedEventOnlyByFailure, [Next]_vars, NEW h \in events'
             PROVE  \/ pc'[h] \in {"flag", "failed"}
                    \/ op'[h].visit \in IF op'[h].kind = "confirm" THEN confirmed' ELSE rejected'
  BY DEF UnflaggedEventOnlyByFailure
<1> USE DEF TypeInv, TypeOK, PhasesOfKinds, EventsOfAnswers, Goto, tables
<1>1. h \in Handlers /\ confirmed \subseteq confirmed' /\ rejected \subseteq rejected'
  BY TypeNext
     DEF Next, Step, Begin, FindResidents, InsertRequest, Notify, ReadRequest,
         OpenGate, RecordRefusal, Flag, Fail, SetSender, vars
<1>2. CASE h \notin events
  BY <1>1, <1>2
     DEF Next, Step, Begin, FindResidents, InsertRequest, Notify, ReadRequest,
         OpenGate, RecordRefusal, Flag, Fail, SetSender, vars
<1>3. CASE h \in events /\ pc'[h] = pc[h]
  <2>1. op'[h] = op[h]
    BY <1>1, <1>3, OpKept
  <2>2. QED
    BY <1>1, <1>3, <2>1 DEF UnflaggedEventOnlyByFailure
<1>4. CASE h \in events /\ pc'[h] # pc[h]
  <2>1. Flag(h) \/ Fail(h)
    BY <1>1, <1>4
       DEF Next, Step, Begin, FindResidents, InsertRequest, Notify, ReadRequest,
           OpenGate, RecordRefusal, Flag, Fail, SetSender, vars
  <2>2. QED
    BY <1>1, <2>1 DEF Flag, Fail
<1>5. QED
  BY <1>2, <1>3, <1>4

\* UnflaggedEventOnlyByFailure holds: a gate event of a request that stays
\* unanswered is the trace of a handler that broke off.
THEOREM EventsAreFlagged == Spec => []UnflaggedEventOnlyByFailure
<1>1. Init => UnflaggedEventOnlyByFailure
  BY DEF Init, UnflaggedEventOnlyByFailure
<1>2. QED
  BY TypeInit, TypeNext, UnflaggedNext, <1>1, PTL DEF Spec

\* The create of a request that has yet to notify, or stopped before it.
Unnotified(v, h) ==
  /\ op[h] # NULL
  /\ op[h].kind = "create" /\ op[h].visit = v
  /\ pc[h] \in {"notify", "failed"}

LEMMA UntoldNext ==
  TypeInv /\ UntoldOnlyByFailure /\ [Next]_vars => UntoldOnlyByFailure'
<1> SUFFICES ASSUME TypeInv, UntoldOnlyByFailure, [Next]_vars,
                    NEW v \in rows', told'[v] = {}
             PROVE  \E h \in Handlers : Unnotified(v, h)'
  BY DEF UntoldOnlyByFailure, Unnotified
<1> USE OpType DEF TypeInv, TypeOK, PhasesOfKinds, Goto, tables
<1>1. CASE v \notin rows
  <2>1. PICK h \in Handlers : InsertRequest(h)
    BY <1>1 DEF Next, Step, Begin, FindResidents, Notify, ReadRequest,
         OpenGate, RecordRefusal, Flag, Fail, SetSender, vars
  <2>2. Unnotified(v, h)'
    BY <1>1, <2>1 DEF InsertRequest, Unnotified
  <2>3. QED
    BY <2>2
<1>2. CASE v \in rows /\ told[v] = {}
  <2>1. PICK h \in Handlers : Unnotified(v, h)
    BY <1>2 DEF UntoldOnlyByFailure, Unnotified
  <2>2. op'[h] = op[h]
    BY <2>1, OpKept DEF Unnotified
  <2>3. CASE Notify(h)
    BY <1>2, <2>1, <2>3 DEF Notify, Unnotified
  <2>4. CASE ~Notify(h)
    <3>1. pc'[h] \in {"notify", "failed"}
      BY <2>1, <2>4 DEF Next, Step, Begin, FindResidents, InsertRequest, Notify,
           ReadRequest, OpenGate, RecordRefusal, Flag, Fail, InFlight, Ended,
           SetSender, vars, Unnotified
    <3>2. QED
      BY <2>1, <2>2, <3>1 DEF Unnotified
  <2>5. QED
    BY <2>3, <2>4
<1>3. CASE told[v] # {}
  BY <1>3 DEF Next, Step, Begin, FindResidents, InsertRequest, Notify, ReadRequest,
       OpenGate, RecordRefusal, Flag, Fail, SetSender, vars
<1>4. QED
  BY <1>1, <1>2, <1>3

\* UntoldOnlyByFailure holds: a request no resident is told of is the trace of
\* a create that broke off, even if all residents lost the right to answer.
THEOREM RequestsAreTold == Spec => []UntoldOnlyByFailure
<1>1. Init => UntoldOnlyByFailure
  BY DEF Init, UntoldOnlyByFailure
<1>2. QED
  BY TypeInit, TypeNext, UntoldNext, <1>1, PTL DEF Spec

-----------------------------------------------------------------------------
(* How many events a request gets *)

\* The answers to v that count: recorded, or about to be.
Admitted(v) == {h \in Answering(v) : pc[h] \in {"event", "flag"}}
Recorded(v) == {h \in events \cap Answering(v) : pc[h] # "failed"}

\* A request waits until an answer is recorded, and then admits no other.
CountInv ==
  /\ Cardinality(InFlight) <= MaxInFlight
  /\ \A v \in Visits :
       /\ v \notin confirmed \cup rejected =>
            \A h \in Recorded(v) : pc[h] = "flag"
       /\ v \in confirmed \cup rejected =>
            Cardinality(Admitted(v) \cup Recorded(v)) <= MaxInFlight

LEMMA Finite ==
  ASSUME NEW S, S \subseteq Handlers
  PROVE  IsFiniteSet(S) /\ Cardinality(S) \in Nat
BY AuthorizationAssumption, FS_Subset, FS_CardinalityType

LEMMA Smaller ==
  ASSUME NEW S, NEW T, S \subseteq T, T \subseteq Handlers, Cardinality(T) <= MaxInFlight
  PROVE  Cardinality(S) <= MaxInFlight
<1>1. IsFiniteSet(T) /\ Cardinality(T) \in Nat /\ Cardinality(S) \in Nat
  BY Finite
<1>2. Cardinality(S) <= Cardinality(T)
  BY <1>1, FS_Subset
<1>3. QED
  BY <1>1, <1>2, AuthorizationAssumption

LEMMA CountNext == TypeInv /\ CountInv /\ [Next]_vars => CountInv'
<1> SUFFICES ASSUME TypeInv, CountInv, [Next]_vars
             PROVE  CountInv'
  OBVIOUS
<1>1. TypeInv'
  BY TypeNext
<1> USE OpType DEF TypeInv, TypeOK, PhasesOfKinds, EventsOfAnswers, Goto, tables, Ended
<1>2. Cardinality(InFlight') <= MaxInFlight
  <2>1. ASSUME NEW h \in Handlers, NEW o \in Ops, Begin(h, o)
        PROVE  Cardinality(InFlight') <= MaxInFlight
    <3>1. InFlight' = InFlight \cup {h} /\ h \notin InFlight
      BY <2>1 DEF Begin, InFlight
    <3>2. IsFiniteSet(InFlight) /\ Cardinality(InFlight) \in Nat
      BY Finite DEF InFlight
    <3>3. Cardinality(InFlight') = Cardinality(InFlight) + 1
      BY <3>1, <3>2, FS_AddElement
    <3>4. Cardinality(InFlight) < MaxInFlight
      BY <2>1 DEF Begin
    <3>5. QED
      BY <3>2, <3>3, <3>4, AuthorizationAssumption
  <2>2. ASSUME ~\E h \in Handlers, o \in Ops : Begin(h, o)
        PROVE  InFlight' \subseteq InFlight
    BY <2>2 DEF Next, Step, FindResidents, InsertRequest, Notify, ReadRequest,
         OpenGate, RecordRefusal, Flag, Fail, SetSender, vars, InFlight
  <2>3. InFlight \subseteq Handlers
    BY DEF InFlight
  <2>4. QED
    BY <2>1, <2>2, <2>3, Smaller DEF CountInv
<1>3. ASSUME NEW v \in Visits
      PROVE  /\ v \notin confirmed' \cup rejected' =>
                  \A h \in Recorded(v)' : pc'[h] = "flag"
             /\ v \in confirmed' \cup rejected' =>
                  Cardinality(Admitted(v)' \cup Recorded(v)') <= MaxInFlight
  <2>1. confirmed \subseteq confirmed' /\ rejected \subseteq rejected'
    BY DEF Next, Step, Begin, FindResidents, InsertRequest, Notify, ReadRequest,
         OpenGate, RecordRefusal, Flag, Fail, SetSender, vars
  <2>2. CASE v \notin confirmed' \cup rejected'
    <3>1. \A h \in Recorded(v) : pc[h] = "flag"
      BY <2>1, <2>2 DEF CountInv
    <3>2. SUFFICES ASSUME NEW h \in Recorded(v)'
                   PROVE  pc'[h] = "flag"
      BY <2>2
    <3>3. h \in Handlers /\ h \in events' /\ op'[h].visit = v /\ pc'[h] # "failed"
      BY DEF Recorded, Answering
    <3>4. CASE h \in events
      <4>1. op'[h] = op[h] /\ op[h] \in Ops
        BY <3>3, <3>4, OpKept
      <4>2. pc[h] = "flag" \/ pc[h] = "failed"
        BY <3>1, <3>3, <3>4, <4>1 DEF Recorded, Answering
      <4>3. QED
        BY <2>2, <3>3, <4>1, <4>2
           DEF Next, Step, Begin, FindResidents, InsertRequest, Notify, ReadRequest,
               OpenGate, RecordRefusal, Flag, Fail, SetSender, vars
    <3>5. CASE h \notin events
      BY <3>3, <3>5
         DEF Next, Step, Begin, FindResidents, InsertRequest, Notify, ReadRequest,
             OpenGate, RecordRefusal, Flag, Fail, SetSender, vars
    <3>6. QED
      BY <3>4, <3>5
  <2>3. CASE v \in confirmed \cup rejected
    <3>1. Admitted(v)' \cup Recorded(v)' \subseteq Admitted(v) \cup Recorded(v)
      BY <2>3
         DEF Next, Step, Begin, FindResidents, InsertRequest, Notify, ReadRequest,
             OpenGate, RecordRefusal, Flag, Fail, SetSender, vars,
             Admitted, Recorded, Answering
    <3>2. /\ Admitted(v) \cup Recorded(v) \subseteq Handlers
          /\ Cardinality(Admitted(v) \cup Recorded(v)) <= MaxInFlight
      BY <2>3 DEF CountInv, Admitted, Recorded, Answering
    <3>3. Cardinality(Admitted(v)' \cup Recorded(v)') <= MaxInFlight
      BY <3>1, <3>2, Smaller, Zenon
    <3>4. QED
      BY <2>1, <2>3, <3>3
  <2>4. CASE v \notin confirmed \cup rejected /\ v \in confirmed' \cup rejected'
    <3>1. PICK g \in Handlers : Flag(g)
      BY <2>4 DEF Next, Step, Begin, FindResidents, InsertRequest, Notify,
           ReadRequest, OpenGate, RecordRefusal, Fail, SetSender, vars
    <3>2. \A h \in Recorded(v) : pc[h] = "flag"
      BY <2>4 DEF CountInv
    <3>3. Admitted(v)' \cup Recorded(v)' \subseteq InFlight
      BY <3>1, <3>2 DEF Flag, Admitted, Recorded, Answering, InFlight
    <3>4. InFlight \subseteq Handlers /\ Cardinality(InFlight) <= MaxInFlight
      BY DEF CountInv, InFlight
    <3>5. Cardinality(Admitted(v)' \cup Recorded(v)') <= MaxInFlight
      BY <3>3, <3>4, Smaller, Zenon
    <3>6. QED
      BY <2>4, <3>5
  <2>5. QED
    BY <2>2, <2>3, <2>4
<1>4. QED
  BY <1>2, <1>3 DEF CountInv

\* EventsBounded holds: a request has no more events than handlers that may
\* overlap, plus those of the answers that broke off.
THEOREM EventsAreBounded == Spec => []EventsBounded
<1>1. Init => CountInv
  <2> SUFFICES ASSUME Init PROVE CountInv
    OBVIOUS
  <2>1. InFlight = {} /\ \A v \in Visits : Recorded(v) = {}
    BY DEF Init, InFlight, Recorded
  <2>2. Cardinality(InFlight) <= MaxInFlight
    BY <2>1, FS_EmptySet, AuthorizationAssumption
  <2>3. QED
    BY <2>1, <2>2 DEF Init, CountInv
<1>2. TypeInv /\ CountInv => EventsBounded
  <2> SUFFICES ASSUME TypeInv, CountInv, NEW v \in Visits
               PROVE  Cardinality(events \cap Answering(v))
                        <= MaxInFlight + Cardinality({h \in Answering(v) : pc[h] = "failed"})
    BY DEF EventsBounded
  <2> DEFINE Failed == {h \in Answering(v) : pc[h] = "failed"}
  <2>1. Recorded(v) \subseteq Handlers /\ Failed \subseteq Handlers
    BY DEF Recorded, Answering
  <2>2. Cardinality(Recorded(v)) <= MaxInFlight
    <3>1. CASE v \notin confirmed \cup rejected
      <4>1. Recorded(v) \subseteq InFlight /\ InFlight \subseteq Handlers
        BY <3>1 DEF CountInv, InFlight, Ended, Recorded, Answering
      <4>2. QED
        BY <4>1, Smaller DEF CountInv
    <3>2. CASE v \in confirmed \cup rejected
      <4>1. /\ Recorded(v) \subseteq Admitted(v) \cup Recorded(v)
            /\ Admitted(v) \cup Recorded(v) \subseteq Handlers
        BY DEF Admitted, Recorded, Answering
      <4>2. QED
        BY <3>2, <4>1, Smaller DEF CountInv
    <3>3. QED
      BY <3>1, <3>2
  <2>3. events \cap Answering(v) \subseteq Recorded(v) \cup Failed
    BY DEF Recorded
  <2>4. /\ IsFiniteSet(Recorded(v)) /\ Cardinality(Recorded(v)) \in Nat
        /\ IsFiniteSet(Failed) /\ Cardinality(Failed) \in Nat
        /\ IsFiniteSet(Recorded(v) \cap Failed)
        /\ Cardinality(Recorded(v) \cap Failed) \in Nat
    BY <2>1, Finite
  <2>5. /\ IsFiniteSet(Recorded(v) \cup Failed)
        /\ Cardinality(Recorded(v) \cup Failed)
             = Cardinality(Recorded(v)) + Cardinality(Failed)
               - Cardinality(Recorded(v) \cap Failed)
    BY <2>4, FS_Union
  <2>6. /\ Cardinality(events \cap Answering(v)) \in Nat
        /\ Cardinality(events \cap Answering(v)) <= Cardinality(Recorded(v) \cup Failed)
    BY <2>3, <2>5, FS_Subset, FS_CardinalityType
  <2>7. QED
    BY <2>2, <2>4, <2>5, <2>6, AuthorizationAssumption
<1>3. QED
  BY TypeInit, TypeNext, CountNext, <1>1, <1>2, PTL DEF Spec

-----------------------------------------------------------------------------
(* One verdict, one handler at a time *)

\* Each row is made by one create, which is past its insert.
RowsOfCreates ==
  /\ \A g, h \in Handlers :
       (/\ op[g] # NULL /\ op[g].kind = "create"
        /\ op[h] # NULL /\ op[h].kind = "create"
        /\ op[g].visit = op[h].visit) => g = h
  /\ \A v \in rows : \E h \in Handlers :
       /\ op[h] # NULL /\ op[h].kind = "create" /\ op[h].visit = v
       /\ pc[h] \in {"notify", "done", "failed"}

\* The handler on its own answers a request that still waits.
Serial ==
  /\ \A g, h \in InFlight : g = h
  /\ \A h \in Handlers : pc[h] \in {"event", "flag"} =>
       op[h].visit \notin confirmed \cup rejected
  /\ confirmed \cap rejected = {}

LEMMA CreatesNext == TypeInv /\ RowsOfCreates /\ [Next]_vars => RowsOfCreates'
<1> SUFFICES ASSUME TypeInv, RowsOfCreates, [Next]_vars
             PROVE  RowsOfCreates'
  OBVIOUS
<1> USE OpType DEF TypeInv, TypeOK, PhasesOfKinds, Goto, tables, Ended
<1>1. ASSUME NEW g \in Handlers, NEW h \in Handlers,
             op'[g] # NULL, op'[g].kind = "create",
             op'[h] # NULL, op'[h].kind = "create",
             op'[g].visit = op'[h].visit
      PROVE  g = h
  <2>1. CASE op' = op
    BY <1>1, <2>1 DEF RowsOfCreates
  <2>2. ASSUME NEW k \in Handlers, NEW o \in Ops, Begin(k, o)
        PROVE  g = h
    BY <1>1, <2>2 DEF Begin, RowsOfCreates
  <2>3. QED
    BY <2>1, <2>2 DEF Next, Step, FindResidents, InsertRequest, Notify, ReadRequest,
         OpenGate, RecordRefusal, Flag, Fail, SetSender, vars
<1>2. ASSUME NEW v \in rows'
      PROVE  \E h \in Handlers :
               /\ op'[h] # NULL /\ op'[h].kind = "create" /\ op'[h].visit = v
               /\ pc'[h] \in {"notify", "done", "failed"}
  <2>1. CASE v \in rows
    <3>1. PICK h \in Handlers :
            /\ op[h] # NULL /\ op[h].kind = "create" /\ op[h].visit = v
            /\ pc[h] \in {"notify", "done", "failed"}
      BY <2>1 DEF RowsOfCreates
    <3>2. op'[h] = op[h]
      BY <3>1, OpKept
    <3>3. pc'[h] \in {"notify", "done", "failed"}
      BY <3>1 DEF Next, Step, Begin, FindResidents, InsertRequest, Notify,
           ReadRequest, OpenGate, RecordRefusal, Flag, Fail, SetSender, vars
    <3>4. QED
      BY <3>1, <3>2, <3>3
  <2>2. CASE v \notin rows
    <3>1. PICK h \in Handlers : InsertRequest(h)
      BY <2>2 DEF Next, Step, Begin, FindResidents, Notify, ReadRequest,
           OpenGate, RecordRefusal, Flag, Fail, SetSender, vars
    <3>2. QED
      BY <2>2, <3>1 DEF InsertRequest
  <2>3. QED
    BY <2>1, <2>2
<1>3. QED
  BY <1>1, <1>2 DEF RowsOfCreates

LEMMA SerialNext ==
  ASSUME MaxInFlight = 1
  PROVE  TypeInv /\ CountInv /\ Serial /\ [Next]_vars => Serial'
<1> SUFFICES ASSUME TypeInv, CountInv, Serial, [Next]_vars
             PROVE  Serial'
  OBVIOUS
<1> USE OpType DEF TypeInv, TypeOK, PhasesOfKinds, Goto, tables, Ended
<1>1. \A g, h \in InFlight' : g = h
  <2>1. Cardinality(InFlight') <= 1 /\ IsFiniteSet(InFlight') /\ Cardinality(InFlight') \in Nat
    BY CountNext, TypeNext, Finite DEF CountInv, InFlight
  <2>2. SUFFICES ASSUME NEW g \in InFlight', NEW h \in InFlight', g # h
                 PROVE  FALSE
    OBVIOUS
  <2>3. Cardinality({g, h}) = 2 /\ {g, h} \subseteq InFlight'
    <3>1. IsFiniteSet({g}) /\ Cardinality({g}) = 1
      BY FS_Singleton
    <3>2. Cardinality({g} \cup {h}) = Cardinality({g}) + 1
      BY <2>2, <3>1, FS_AddElement
    <3>3. {g, h} = {g} \cup {h}
      OBVIOUS
    <3>4. QED
      BY <2>2, <3>1, <3>2, <3>3
  <2>4. Cardinality({g, h}) <= Cardinality(InFlight')
    BY <2>1, <2>3, FS_Subset
  <2>5. QED
    BY <2>1, <2>3, <2>4
<1>2. /\ \A h \in Handlers : pc'[h] \in {"event", "flag"} =>
            op'[h].visit \notin confirmed' \cup rejected'
      /\ confirmed' \cap rejected' = {}
  <2>1. ASSUME NEW h \in Handlers, Flag(h)
        PROVE  /\ \A g \in Handlers : pc'[g] \notin {"event", "flag"}
               /\ confirmed' \cap rejected' = {}
    BY <2>1 DEF Flag, Serial, InFlight
  <2>2. CASE UNCHANGED <<confirmed, rejected>>
    BY <2>2 DEF Serial, Next, Step, Begin, FindResidents, InsertRequest, Notify,
         ReadRequest, OpenGate, RecordRefusal, Flag, Fail, SetSender, vars
  <2>3. QED
    BY <2>1, <2>2 DEF Next, Step, Begin, FindResidents, InsertRequest, Notify,
         ReadRequest, OpenGate, RecordRefusal, Fail, SetSender, vars
<1>3. QED
  BY <1>1, <1>2 DEF Serial

\* Every step of a single handler is one of the promise's, or a stutter.
LEMMA VerdictStep ==
  ASSUME TypeInv, RowsOfCreates, Serial, [Next]_vars
  PROVE  [Abstract!Next]_([v \in Visits |-> VerdictOf(v)])
<1> DEFINE verdict == [v \in Visits |-> VerdictOf(v)]
<1> SUFFICES Abstract!Next \/ verdict' = verdict
  OBVIOUS
<1> USE OpType DEF TypeInv, TypeOK, PhasesOfKinds, Goto, tables
<1>1. CASE UNCHANGED <<rows, confirmed, rejected>>
  BY <1>1 DEF VerdictOf
<1>2. ASSUME NEW h \in Handlers, InsertRequest(h)
      PROVE  Abstract!Next
  <2>7. PICK v \in Visits : v = op[h].visit
    BY <1>2 DEF InsertRequest
  <2>1. v \notin rows
    BY <1>2, <2>7 DEF InsertRequest, RowsOfCreates
  <2>2. /\ rows' = rows \cup {v} /\ confirmed' = confirmed /\ rejected' = rejected
        /\ v \notin confirmed /\ v \notin rejected
    BY <1>2, <2>1, <2>7 DEF InsertRequest
  <2>3. VerdictOf(v) = "none" /\ VerdictOf(v)' = "waiting"
    BY <2>1, <2>2 DEF VerdictOf
  <2>4. \A u \in Visits \ {v} : VerdictOf(u)' = VerdictOf(u)
    BY <2>2 DEF VerdictOf
  <2>5. verdict[v] = "none" /\ verdict' = [verdict EXCEPT ![v] = "waiting"]
    BY <2>1, <2>3, <2>4
  <2>6. QED
    BY <2>1, <2>5 DEF Abstract!Next, Abstract!Ask
<1>3. ASSUME NEW h \in Handlers, Flag(h)
      PROVE  Abstract!Next
  <2>7. PICK v \in Visits : v = op[h].visit
    BY <1>3 DEF Flag
  <2>8. PICK answer \in {"authorized", "refused"} :
          answer = IF op[h].kind = "confirm" THEN "authorized" ELSE "refused"
    OBVIOUS
  <2>1. v \in rows /\ v \notin confirmed /\ v \notin rejected
    BY <1>3, <2>7 DEF Flag, Serial
  <2>2. /\ rows' = rows
        /\ confirmed' = IF op[h].kind = "confirm" THEN confirmed \cup {v} ELSE confirmed
        /\ rejected' = IF op[h].kind = "confirm" THEN rejected ELSE rejected \cup {v}
    BY <1>3, <2>7 DEF Flag
  <2>3. VerdictOf(v) = "waiting" /\ VerdictOf(v)' = answer
    BY <2>1, <2>2, <2>8 DEF VerdictOf
  <2>4. \A u \in Visits \ {v} : VerdictOf(u)' = VerdictOf(u)
    BY <2>2 DEF VerdictOf
  <2>5. verdict[v] = "waiting" /\ verdict' = [verdict EXCEPT ![v] = answer]
    BY <2>1, <2>3, <2>4
  <2>6. QED
    BY <2>1, <2>5 DEF Abstract!Next, Abstract!Answer
<1>4. QED
  BY <1>1, <1>2, <1>3
     DEF Next, Step, Begin, FindResidents, Notify, ReadRequest, OpenGate,
         RecordRefusal, Fail, SetSender, vars

\* Handlers that do not overlap implement Verdict: each request gets one
\* answer, which stays, whatever breaks off and is sent again.
THEOREM SerialImplementsVerdict == MaxInFlight = 1 /\ Spec => ImplementsVerdict
<1> SUFFICES ASSUME MaxInFlight = 1
             PROVE  Spec => ImplementsVerdict
  OBVIOUS
<1>1. Init => Abstract!Init
  BY DEF Init, Abstract!Init, VerdictOf
<1>2. Init => CountInv /\ RowsOfCreates /\ Serial
  <2> SUFFICES ASSUME Init PROVE CountInv /\ RowsOfCreates /\ Serial
    OBVIOUS
  <2>1. InFlight = {} /\ \A v \in Visits : Recorded(v) = {}
    BY DEF Init, InFlight, Recorded
  <2>2. CountInv
    BY <2>1, FS_EmptySet DEF Init, CountInv
  <2>3. RowsOfCreates /\ Serial
    BY <2>1 DEF Init, RowsOfCreates, Serial
  <2>4. QED
    BY <2>2, <2>3
<1>3. QED
  BY <1>1, <1>2, TypeInit, TypeNext, CountNext, CreatesNext, SerialNext,
     VerdictStep, PTL DEF Spec, Abstract!Spec, ImplementsVerdict
=============================================================================
