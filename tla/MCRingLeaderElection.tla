------------------------- MODULE MCRingLeaderElection -------------------------
(***************************************************************************)
(* RingLeaderElection with the pids and ports of small sets of backups.    *)
(***************************************************************************)
EXTENDS RingLeaderElection, TLC

CONSTANTS b1, b2

\* The first of the list has the higher pid: it starts as the winner.
PairList == << b1, b2 >>
PairPid  == b1 :> 300 @@ b2 :> 200
PairPort == b1 :> 6001 @@ b2 :> 6002

\* Backups on two hosts: each host gives the first port of the range.
SamePort == b1 :> 6001 @@ b2 :> 6001

=============================================================================
