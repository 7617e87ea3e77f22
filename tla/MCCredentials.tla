---------------------------- MODULE MCCredentials ----------------------------
(* A small instance of Credentials for TLC. *)
EXTENDS Credentials, TLC

CONSTANTS h1, h2, h3, h4

Symmetry == Permutations(Handlers)
=============================================================================
