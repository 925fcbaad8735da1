--------------------------- MODULE MCServerRequests ---------------------------
(***************************************************************************)
(* ServerRequests on small sets of users and connections.                  *)
(***************************************************************************)
EXTENDS ServerRequests

CONSTANTS u1, u2

\* u2 follows u1: a tweet of u1 is due to u2.
OneFollower == { << u2, u1 >> }

\* Connections are interchangeable.
Symmetry == Permutations(Connections)

=============================================================================
