--------------------------- MODULE MCPrimaryChange ---------------------------
(***************************************************************************)
(* PrimaryChange with three servers, two of them on one host.              *)
(***************************************************************************)
EXTENDS PrimaryChange, TLC

CONSTANTS s1, s2, s3

\* The second server of a host takes the second of SERVER_PORTS.
TwoHosts == s1 :> [ip |-> "h1", port |-> 4021] @@ s2 :> [ip |-> "h2", port |-> 4022]
            @@ s3 :> [ip |-> "h2", port |-> 4021]

=============================================================================
