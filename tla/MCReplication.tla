---------------------------- MODULE MCReplication ----------------------------
(***************************************************************************)
(* Replication on small sets of users, connections and backups.            *)
(***************************************************************************)
EXTENDS Replication

CONSTANTS u1, u2

\* u1 logs in or out, u2 follows u1 or tries to follow u2.
OneUserRequests ==
  {[op |-> "login",  user |-> u1, other |-> u1],
   [op |-> "logout", user |-> u1, other |-> u1],
   [op |-> "follow", user |-> u2, other |-> u1],
   [op |-> "follow", user |-> u2, other |-> u2]}

\* Connections are interchangeable, and so are backups.
Symmetry == Permutations(Connections) \cup Permutations(Backups)

=============================================================================
