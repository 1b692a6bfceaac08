----------------------------- MODULE MCBootstrap -----------------------------
(* The Bootstrap model for TLC: two registered drivers, a token pinned to *)
(* the genuine CA, an unpinned one and a malformed one, and a network on  *)
(* which an attacker may answer the join URL.                             *)
EXTENDS Bootstrap

CONSTANTS D1, D2, T1, T2, T3, Genuine, Attacker, GenuineCA, AttackerCA

MCRegistered == <<D1, D2>>
MCTokens == {T1, T2, T3}
MCPinOf == [t \in MCTokens \cup {NoToken} |-> IF t = T1 THEN GenuineCA ELSE NoHash]
MCCertCA == [r \in {Genuine, Attacker} |-> IF r = Genuine THEN GenuineCA ELSE AttackerCA]
MCBodyOf == [r \in {Genuine, Attacker} |->
               IF r = Genuine THEN {GenuineCA} ELSE {GenuineCA, AttackerCA}]
=============================================================================
