----------------------- MODULE MCProfileSessionManager -----------------------
(***************************************************************************)
(* ProfileSessionManager on small sets of users and connections.           *)
(***************************************************************************)
EXTENDS ProfileSessionManager

\* Connections and users are interchangeable.
Symmetry == Permutations(Connections) \cup Permutations(Users)

=============================================================================
