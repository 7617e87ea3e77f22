------------------------- MODULE EventAuthorization -------------------------
(***************************************************************************)
(* EventAuthorizationRequestService: the guard's monitor asks the          *)
(* residents of a lot to let a visitor in, every resident is notified, and *)
(* any of them may confirm or reject.  An answer reads the request, writes *)
(* an event and only then sets the request's flag, each in an await of its *)
(* own, so several residents may answer one request.                       *)
(***************************************************************************)
EXTENDS Integers, FiniteSets

CONSTANTS
  Visits,           \* authorization requests: one lot, one visitor each
  Residents,        \* users of the lot
  Handlers,         \* HTTP requests
  Demanding,        \* those whose event type asks for a description or a file
  MaxInFlight,      \* bound: handlers between their first and last await
  NULL

Ops == [kind : {"create", "confirm", "reject"}, visit : Visits, by : Residents]

ASSUME AuthorizationAssumption ==
  /\ IsFiniteSet(Handlers)
  /\ Demanding \subseteq Visits
  /\ MaxInFlight \in Nat
  /\ NULL \notin Ops

VARIABLES
  pc,        \* pc[h]: the handler's next await
  op,        \* op[h]: what was asked
  audience,  \* audience[h]: the users create found
  rows,      \* requests in the table
  told,      \* told[v]: users its notification is addressed to
  confirmed, \* requests with confirmed = true
  rejected,  \* requests with rejected = true
  events,    \* handlers whose event row was written
  senders    \* active residents whose AuthorizedUser has sendEvents

tables == <<rows, told, confirmed, rejected, events>>
vars == <<pc, op, audience, tables, senders>>

Ended == {"done", "refused", "failed"}
InFlight == {h \in Handlers : pc[h] \notin {"idle"} \cup Ended}

\* The handlers that work, or worked, on answers to v.
Answering(v) ==
  {h \in Handlers : op[h] # NULL /\ op[h].visit = v /\ op[h].kind # "create"}

Init ==
  /\ pc = [h \in Handlers |-> "idle"]
  /\ op = [h \in Handlers |-> NULL]
  /\ audience = [h \in Handlers |-> {}]
  /\ rows = {}
  /\ told = [v \in Visits |-> {}]
  /\ confirmed = {}
  /\ rejected = {}
  /\ events = {}
  /\ senders \in SUBSET Residents

Goto(h, phase) == pc' = [pc EXCEPT ![h] = phase]

\* A create makes a row of its own; an answer may name any request.
Begin(h, o) ==
  /\ pc[h] = "idle"
  /\ Cardinality(InFlight) < MaxInFlight
  /\ o.kind = "create" =>
       \A g \in Handlers : op[g] # NULL => ~(op[g].kind = "create" /\ op[g].visit = o.visit)
  /\ op' = [op EXCEPT ![h] = o]
  /\ Goto(h, "read")
  /\ UNCHANGED <<audience, tables, senders>>

-----------------------------------------------------------------------------
(* create *)

\* USERS_WITH_LOT_NOT_FOUND when nobody may answer.
FindResidents(h) ==
  /\ pc[h] = "read"
  /\ op[h].kind = "create"
  /\ audience' = [audience EXCEPT ![h] = senders]
  /\ Goto(h, IF senders = {} THEN "refused" ELSE "insert")
  /\ UNCHANGED <<op, tables, senders>>

InsertRequest(h) ==
  /\ pc[h] = "insert"
  /\ rows' = rows \cup {op[h].visit}
  /\ Goto(h, "notify")
  /\ UNCHANGED <<op, audience, told, confirmed, rejected, events, senders>>

\* The notification is addressed to everybody the query returned.
Notify(h) ==
  /\ pc[h] = "notify"
  /\ told' = [told EXCEPT ![op[h].visit] = audience[h]]
  /\ Goto(h, "done")
  /\ UNCHANGED <<op, audience, rows, confirmed, rejected, events, senders>>

-----------------------------------------------------------------------------
(* confirm and reject *)

ReadRequestUnchecked(h) ==  \* mutant: only the answer's own flag is checked
  /\ pc[h] = "read"
  /\ op[h].kind \in {"confirm", "reject"}
  /\ LET v == op[h].visit
         answered == IF op[h].kind = "confirm" THEN confirmed ELSE rejected
     IN  Goto(h, IF v \in rows \ answered THEN "event" ELSE "refused")
  /\ UNCHANGED <<op, audience, tables, senders>>
\* NOT_FOUND, ALREADY_CONFIRMED and ALREADY_REJECTED, all from one read.
ReadRequest(h) ==
  /\ pc[h] = "read"
  /\ op[h].kind \in {"confirm", "reject"}
  /\ Goto(h, IF op[h].visit \in rows \ (confirmed \cup rejected)
             THEN "event" ELSE "refused")
  /\ UNCHANGED <<op, audience, tables, senders>>

\* EventsService.create, which may throw: the event type asks for what the
\* answer does not carry, or the resident may not send events.
OpenGate(h) ==
  /\ pc[h] = "event"
  /\ op[h].kind = "confirm"
  /\ IF op[h].visit \in Demanding \/ op[h].by \notin senders
     THEN Goto(h, "refused") /\ UNCHANGED events
     ELSE Goto(h, "flag") /\ events' = events \cup {h}
  /\ UNCHANGED <<op, audience, rows, told, confirmed, rejected, senders>>

\* reject writes the event itself, in state Rechazado.
RecordRefusal(h) ==
  /\ pc[h] = "event"
  /\ op[h].kind = "reject"
  /\ events' = events \cup {h}
  /\ Goto(h, "flag")
  /\ UNCHANGED <<op, audience, rows, told, confirmed, rejected, senders>>

FlagLost(h) ==  \* mutant: the final update is not made
  /\ pc[h] = "flag"
  /\ Goto(h, "done")
  /\ UNCHANGED <<op, audience, tables, senders>>
\* By id alone: the flags are not looked at again.
Flag(h) ==
  /\ pc[h] = "flag"
  /\ IF op[h].kind = "confirm"
     THEN confirmed' = confirmed \cup {op[h].visit} /\ UNCHANGED rejected
     ELSE rejected' = rejected \cup {op[h].visit} /\ UNCHANGED confirmed
  /\ Goto(h, "done")
  /\ UNCHANGED <<op, audience, rows, told, events, senders>>

-----------------------------------------------------------------------------
\* A query throws or the process stops; the client may send another request.
Fail(h) ==
  /\ h \in InFlight
  /\ Goto(h, "failed")
  /\ UNCHANGED <<op, audience, tables, senders>>

\* An administrator or an import changes who may send events.
SetSender(r) ==
  /\ senders' = IF r \in senders THEN senders \ {r} ELSE senders \cup {r}
  /\ UNCHANGED <<pc, op, audience, tables>>

Step(h) ==
  \/ FindResidents(h)
  \/ InsertRequest(h)
  \/ Notify(h)
  \/ ReadRequest(h)
  \/ OpenGate(h)
  \/ RecordRefusal(h)
  \/ Flag(h)

Next ==
  \/ \E h \in Handlers : \/ \E o \in Ops : Begin(h, o)
                         \/ Step(h)
                         \/ Fail(h)
  \/ \E r \in Residents : SetSender(r)

Spec == Init /\ [][Next]_vars

\* Handlers are resumed when their queries answer; nothing else is promised.
FairSpec == Spec /\ \A h \in Handlers : WF_vars(Step(h))
-----------------------------------------------------------------------------
Phases == {"idle", "read", "insert", "notify", "event", "flag"} \cup Ended

TypeOK ==
  /\ pc \in [Handlers -> Phases]
  /\ op \in [Handlers -> Ops \cup {NULL}]
  /\ \A h \in Handlers : pc[h] # "idle" => op[h] \in Ops
  /\ audience \in [Handlers -> SUBSET Residents]
  /\ rows \subseteq Visits
  /\ told \in [Visits -> SUBSET Residents]
  /\ confirmed \subseteq rows
  /\ rejected \subseteq rows
  /\ events \subseteq Handlers
  /\ senders \subseteq Residents

\* A request is answered by at most one event, plus one for every answer that
\* overlapped it and one for every answer that failed half way and was sent
\* again: the flags stop all later ones.
EventsBounded ==
  \A v \in Visits :
    Cardinality(events \cap Answering(v))
      <= MaxInFlight + Cardinality({h \in Answering(v) : pc[h] = "failed"})

\* A flag always has its event: confirmed one that lets the visitor in,
\* rejected one in Rechazado.
FlagHasEvent ==
  /\ \A v \in confirmed : \E h \in events : op[h].visit = v /\ op[h].kind = "confirm"
  /\ \A v \in rejected  : \E h \in events : op[h].visit = v /\ op[h].kind = "reject"

\* An event without the flag is there only while its handler is between its
\* two writes, or if it stopped there: the gate's event of an answered
\* request never stays unrecorded otherwise.
UnflaggedEventOnlyByFailure ==
  \A h \in events :
    \/ pc[h] \in {"flag", "failed"}
    \/ op[h].visit \in IF op[h].kind = "confirm" THEN confirmed ELSE rejected

\* A request nobody was told of is one whose handler is between its two
\* writes, or stopped there.
UntoldOnlyByFailure ==
  \A v \in rows : told[v] = {} =>
    \E h \in Handlers : /\ op[h] # NULL
                        /\ op[h].kind = "create" /\ op[h].visit = v
                        /\ pc[h] \in {"notify", "failed"}

\* An answer under way on a waiting request ends with the request answered,
\* refused, or its handler failed.
AnswerEventuallyRecorded ==
  \A h \in Handlers :
    pc[h] = "event" ~> \/ op[h] # NULL /\ op[h].visit \in confirmed \cup rejected
                       \/ pc[h] \in {"refused", "failed"}

\* Both flags count as a verdict of their own, which Verdict does not have.
VerdictOf(v) ==
  CASE v \in confirmed /\ v \in rejected -> "both"
    [] v \in confirmed \ rejected -> "authorized"
    [] v \in rejected \ confirmed -> "refused"
    [] v \in rows \ (confirmed \cup rejected) -> "waiting"
    [] OTHER -> "none"
Abstract == INSTANCE Verdict WITH verdict <- [v \in Visits |-> VerdictOf(v)]

\* One handler at a time, a request gets one verdict and keeps it, whatever
\* handlers fail and whatever is sent again.
ImplementsVerdict == Abstract!Spec
=============================================================================
