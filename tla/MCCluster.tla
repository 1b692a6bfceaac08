------------------------------ MODULE MCCluster ------------------------------
(* Three servers after a total outage: S1 the founder, S2 and S3 joining *)
(* through S1, with the revisions and join URLs each cfg chooses.         *)
EXTENDS Cluster

CONSTANTS S1, S2, S3

MCServers == {S1, S2, S3}

(* The usual layout: the founder has no join URL, the others join it.    *)
FounderJoins == [s \in MCServers |-> IF s = S1 THEN NoJoin ELSE S1]

(* Every server names the next one: no server is started without a join  *)
(* URL.                                                                   *)
RingJoins == [s \in MCServers |-> CASE s = S1 -> S2 [] s = S2 -> S3
                                    [] OTHER -> S1]

(* A rolling upgrade half done: S2 still runs the earlier revision.      *)
MixedRevisions ==
  [s \in MCServers |-> IF s = S2 THEN "earlier" ELSE "current"]
AllCurrent == [s \in MCServers |-> "current"]
(* S1 upgraded first, S2 and S3 not yet.                                 *)
FounderUpgraded ==
  [s \in MCServers |-> IF s = S1 THEN "current" ELSE "earlier"]
=============================================================================
