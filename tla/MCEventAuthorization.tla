------------------------ MODULE MCEventAuthorization ------------------------
(* Small instances of EventAuthorization for TLC. *)
EXTENDS EventAuthorization, TLC

CONSTANTS v1, v2, r1, r2, h1, h2, h3, h4

Symmetry == Permutations(Handlers) \cup Permutations(Residents)
=============================================================================
