----------------------------- MODULE MCFailover -----------------------------
(***************************************************************************)
(* Failover on three hosts.  There are two beginnings.  In one, s4 is not  *)
(* started, and the others may be at any time.  In the other, s1 is the    *)
(* primary and has told the three others of each other: if it ends, all    *)
(* three elect.  s3 and s4 have found no free port.                        *)
(***************************************************************************)
EXTENDS Failover

CONSTANTS s1, s2, s3, s4

\* s1 and s3 are on one host.
SomeHosts == s1 :> "hA" @@ s2 :> "hB" @@ s3 :> "hA" @@ s4 :> "hC"

\* Processes of different hosts may have equal pids.
SomePids == s1 :> 200 @@ s2 :> 200 @@ s3 :> 300 @@ s4 :> 500

AtPort(s, p) == [host |-> Host[s], port |-> p]

Told ==
  /\ phase = s1 :> "primary" @@ [s \in {s2, s3, s4} |-> "backup"]
  /\ port = s1 :> 0 @@ s2 :> 6001 @@ s3 :> NoneFree @@ s4 :> NoneFree
  /\ primaryIp = [s \in Servers |-> Host[s1]]
  /\ rm = s1 :> << AtPort(s2, 6001), AtPort(s3, NoneFree), AtPort(s4, NoneFree) >>
            @@ s2 :> << AtPort(s3, NoneFree), AtPort(s4, NoneFree) >>
            @@ [s \in {s3, s4} |-> << AtPort(s2, 6001) >>]
  /\ telling = [s \in Servers |-> Silent]
  /\ crashes = 0
  /\ faults = {}
  /\ toldBy = s1 :> Nowhere @@ [s \in {s2, s3, s4} |-> s1]

WithoutS4 ==
  /\ phase = [s \in Servers |-> IF s = s4 THEN "dead" ELSE "off"]
  /\ port      = [s \in Servers |-> 0]
  /\ primaryIp = [s \in Servers |-> Nowhere]
  /\ rm        = [s \in Servers |-> << >>]
  /\ telling   = [s \in Servers |-> Silent]
  /\ crashes = 0
  /\ faults  = {}
  /\ toldBy  = [s \in Servers |-> Nowhere]

MCSpec == (Told \/ WithoutS4) /\ [][Next]_vars /\ WF_vars(\E s \in Servers : Step(s))

=============================================================================
