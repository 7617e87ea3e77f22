----------------------------- MODULE RequestHandling -----------------------------
(***************************************************************************)
(* What the handlers of a service have in common: a request starts one,    *)
(* it goes from await to await, beside others, and ends answered or        *)
(* broken off.  Accounts, Credentials and Subscriptions extend this module *)
(* with their tables and with what happens at each await.                  *)
(***************************************************************************)
EXTENDS Integers, FiniteSets

CONSTANTS
  Handlers,    \* requests
  MaxInFlight, \* bound: handlers between their first and last await
  NULL

ASSUME HandlingAssumption ==
  /\ IsFiniteSet(Handlers)
  /\ NULL \notin Handlers
  /\ MaxInFlight \in Nat

VARIABLES
  pc,  \* pc[h]: the handler's next await
  req, \* req[h]: what was asked
  met  \* history: met[h], the handlers that were under way while h was

handling == <<pc, req, met>>

Ended == {"done", "untold", "refused", "collided", "late", "failed"}
InFlight == {h \in Handlers : pc[h] \notin {"idle"} \cup Ended}
Quiet == InFlight = {}

NoRequests ==
  /\ pc = [h \in Handlers |-> "idle"]
  /\ req = [h \in Handlers |-> NULL]
  /\ met = [h \in Handlers |-> {}]

Goto(h, phase) == pc' = [pc EXCEPT ![h] = phase]
Is(h, kind, phase) == pc[h] = phase /\ req[h].kind = kind

\* A request arrives; its handler's first await is the one of this phase.
Receive(h, op, phase) ==
  /\ pc[h] = "idle"
  /\ Cardinality(InFlight) < MaxInFlight
  /\ req' = [req EXCEPT ![h] = op]
  /\ Goto(h, phase)
  /\ met' = [g \in Handlers |-> IF g = h THEN InFlight
                                ELSE IF g \in InFlight THEN met[g] \cup {h} ELSE met[g]]

\* Another check refuses the request, or an await throws: nothing follows.
BreakOff(h) ==
  /\ h \in InFlight
  /\ Goto(h, "failed")
  /\ UNCHANGED <<req, met>>
=============================================================================
