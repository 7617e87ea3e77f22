------------------------------ MODULE Verdict -------------------------------
(***************************************************************************)
(* What an authorization request promises: it is made, it waits, and it    *)
(* gets one verdict, which never changes.                                  *)
(***************************************************************************)
CONSTANT Visits

VARIABLE verdict

VerdictTypeOK == verdict \in [Visits -> {"none", "waiting", "authorized", "refused"}]

Init == verdict = [v \in Visits |-> "none"]

Ask(v) ==
  /\ verdict[v] = "none"
  /\ verdict' = [verdict EXCEPT ![v] = "waiting"]

Answer(v, answer) ==
  /\ verdict[v] = "waiting"
  /\ verdict' = [verdict EXCEPT ![v] = answer]

Next ==
  \E v \in Visits : Ask(v) \/ \E answer \in {"authorized", "refused"} : Answer(v, answer)

Spec == Init /\ [][Next]_verdict
=============================================================================
