--------------------------- MODULE BootstrapProofs ---------------------------
(***************************************************************************)
(* Proofs about the Bootstrap model, for every value of its constants      *)
(* that satisfies BootstrapAssumption.                                     *)
(***************************************************************************)
EXTENDS Bootstrap, TLAPS

(* The first registered driver of S, if any, is one of S.                 *)
LEMMA FirstRegisteredIn ==
  ASSUME NEW S
  PROVE  FirstRegistered(S) \subseteq S
BY DEF FirstRegistered

-----------------------------------------------------------------------------
(* Each step keeps the types.                                             *)
LEMMA TypeOKStep == TypeOK /\ [Next]_vars => TypeOK'
<1> USE BootstrapAssumption
<1> SUFFICES ASSUME TypeOK, [Next]_vars PROVE TypeOK'
  OBVIOUS
<1>1. CASE AssignManagedDriver
  <2>1. managedDB' \in Drivers \cup {None}
    BY <1>1, FirstRegisteredIn DEF AssignManagedDriver, disk, TypeOK
  <2>2. QED
    BY <1>1, <2>1 DEF AssignManagedDriver, disk, Fail, TypeOK, PCs
<1>2. CASE ShouldBootstrapLoad
  BY <1>2 DEF ShouldBootstrapLoad, disk, StampCheck, Fail, TypeOK, PCs
<1>3. CASE GetCACertsDefault
  BY <1>3 DEF GetCACertsDefault, disk, TokenValidated, StampCheck, Fail,
              TypeOK, PCs, CAValues
<1>4. CASE GetCACertsInsecure
  BY <1>4 DEF GetCACertsInsecure, disk, TokenError, Fail, TypeOK, PCs,
              CAValues
<1>5. CASE GetCACertsVerify
  BY <1>5 DEF GetCACertsVerify, disk, TokenValidated, TokenError, StampCheck,
              Fail, TypeOK, PCs
<1>6. CASE HttpBootstrap
  BY <1>6 DEF HttpBootstrap, disk, Fail, TypeOK, PCs, TokenVals, Configs
<1>7. CASE StorageBootstrap
  BY <1>7 DEF StorageBootstrap, disk, Fail, TypeOK, PCs, TokenVals, Configs
<1>8. CASE ClusterStart
  BY <1>8 DEF ClusterStart, disk, Fail, TypeOK, PCs
<1>9. CASE Bootstrapped
  BY <1>9 DEF Bootstrapped, disk, Fail, TypeOK, PCs, TokenVals, Configs
<1>10. CASE TestClusterDB
  BY <1>10 DEF TestClusterDB, disk, TypeOK
<1>11. CASE CancelTestClusterDB
  BY <1>11 DEF CancelTestClusterDB, disk, TypeOK
<1>12. CASE Stop
  BY <1>12 DEF Stop, disk, TypeOK, PCs, CAValues
<1>13. CASE Restart
  BY <1>13 DEF Restart, disk, TypeOK, PCs
<1>14. CASE UNCHANGED vars
  BY <1>14 DEF vars, disk, proc, TypeOK
<1>15. QED
  BY <1>1, <1>2, <1>3, <1>4, <1>5, <1>6, <1>7, <1>8, <1>9, <1>10, <1>11,
     <1>12, <1>13, <1>14 DEF Next

(* Every variable keeps its type: the disk holds drivers and raw tokens,  *)
(* the process variables hold the values the code gives them.             *)
THEOREM TypeCorrect == Spec => []TypeOK
<1>1. Init => TypeOK
  BY BootstrapAssumption DEF Init, TypeOK, CAValues, PCs
<1>2. QED
  BY <1>1, TypeOKStep, PTL DEF Spec

-----------------------------------------------------------------------------
(* PinnedCredentials is not inductive: a step of HttpBootstrap adds a     *)
(* pair whose safety rests on what info holds when the fetch starts.      *)
(* FetchPinned says that a process about to fetch with a pinned token     *)
(* trusts exactly the pinned bundle (TokenValidated let nothing else       *)
(* through), and DecideNotHttp that shouldBootstrapLoad starts with        *)
(* HTTPBootstrap unset, so its unmanaged branch goes to the storage path   *)
(* and never to a fetch with an unvalidated info.                          *)
DecideNotHttp == pc \in {"down", "assign", "decide"} => ~httpBootstrap
FetchPinned ==
  pc = "fetch" /\ PinOf[cfg.token] # NoHash => info = PinOf[cfg.token]

IInv ==
  /\ TypeOK
  /\ DecideNotHttp
  /\ FetchPinned
  /\ PinnedCredentials

(* Validation of the CA bundle against a declared hash pins it.           *)
LEMMA ValidatedIsPinned ==
  ASSUME NEW ca, NEW hash, hash # NoHash, ValidateCACerts(ca, hash)
  PROVE  ca = hash
BY DEF ValidateCACerts

LEMMA IInvInit == Init => IInv
BY BootstrapAssumption
   DEF Init, IInv, TypeOK, CAValues, PCs, DecideNotHttp, FetchPinned,
       PinnedCredentials

LEMMA IInvStep == IInv /\ [Next]_vars => IInv'
<1> USE BootstrapAssumption
<1> SUFFICES ASSUME IInv, [Next]_vars PROVE IInv'
  OBVIOUS
<1>1. TypeOK /\ TypeOK'
  BY TypeOKStep DEF IInv
<1> DEFINE Rest == DecideNotHttp /\ FetchPinned /\ PinnedCredentials
<1>2. Rest
  BY DEF IInv
<1> SUFFICES Rest'
  BY <1>1 DEF IInv
<1> USE DEF Rest, DecideNotHttp, FetchPinned, PinnedCredentials
<1>3. CASE AssignManagedDriver
  BY <1>2, <1>3 DEF AssignManagedDriver, disk, Fail
<1>4. CASE ShouldBootstrapLoad
  BY <1>2, <1>4 DEF ShouldBootstrapLoad, disk, StampCheck, Fail
<1>5. CASE GetCACertsDefault
  <2>1. PICK r \in Responders, st \in Statuses :
          IF Authenticates(DefaultTrust, r) /\ st = "200"
          THEN TokenValidated(NoCA)
          ELSE pc' = "ca2" /\ UNCHANGED <<info, shouldBootstrap, joining>>
    BY <1>5 DEF GetCACertsDefault
  <2>2. UNCHANGED <<cfg, httpBootstrap, credsTo>>
    BY <1>5 DEF GetCACertsDefault
  <2>3. pc' = "fetch" /\ PinOf[cfg.token] # NoHash
          => info' = PinOf[cfg.token]
    BY <2>1, ValidatedIsPinned DEF TokenValidated, StampCheck, Fail
  <2>4. pc' \notin {"down", "assign", "decide"}
    BY <2>1 DEF TokenValidated, StampCheck, Fail
  <2>5. QED
    BY <1>2, <2>2, <2>3, <2>4
<1>6. CASE GetCACertsInsecure
  BY <1>2, <1>6 DEF GetCACertsInsecure, TokenError, Fail
<1>7. CASE GetCACertsVerify
  <2>1. PICK r \in Responders, st \in Statuses :
          IF Authenticates(GetHTTPClient(cacerts), r)
          THEN IF st = "200"
               THEN TokenValidated(cacerts)
               ELSE TokenError(st = "503") /\ UNCHANGED <<info, joining>>
          ELSE TokenError(FALSE) /\ UNCHANGED <<info, joining>>
    BY <1>7 DEF GetCACertsVerify
  <2>2. UNCHANGED <<cfg, httpBootstrap, credsTo>>
    BY <1>7 DEF GetCACertsVerify
  <2>3. pc' = "fetch" /\ PinOf[cfg.token] # NoHash
          => info' = PinOf[cfg.token]
    BY <2>1, ValidatedIsPinned DEF TokenValidated, TokenError, StampCheck,
                                   Fail
  <2>4. pc' \notin {"down", "assign", "decide"}
    BY <2>1 DEF TokenValidated, TokenError, StampCheck, Fail
  <2>5. QED
    BY <1>2, <2>2, <2>3, <2>4
<1>8. CASE HttpBootstrap
  <2>1. PICK r \in Responders, st \in Statuses :
          IF Authenticates(GetHTTPClient(info), r)
          THEN /\ credsTo' = credsTo \cup {<<cfg.token, r>>}
               /\ IF st = "200"
                  THEN pc' = "start" /\ loaded' = loaded \cup {cfg.token}
                  ELSE Fail /\ UNCHANGED loaded
          ELSE Fail /\ UNCHANGED <<credsTo, loaded>>
    BY <1>8 DEF HttpBootstrap
  <2>2. UNCHANGED <<cfg, info>> /\ pc = "fetch"
    BY <1>8 DEF HttpBootstrap
  <2>3. pc' \in {"start", "failed"}
    BY <2>1 DEF Fail
  <2>4. PinnedCredentials'
    BY <1>2, <2>1, <2>2
  <2>5. QED
    BY <2>3, <2>4
<1>9. CASE StorageBootstrap
  BY <1>2, <1>9 DEF StorageBootstrap, Fail
<1>10. CASE ClusterStart
  BY <1>2, <1>10 DEF ClusterStart, Fail
<1>11. CASE Bootstrapped
  BY <1>2, <1>11 DEF Bootstrapped, Fail
<1>12. CASE TestClusterDB
  BY <1>2, <1>12 DEF TestClusterDB, disk
<1>13. CASE CancelTestClusterDB
  BY <1>2, <1>13 DEF CancelTestClusterDB, disk
<1>14. CASE Stop
  BY <1>2, <1>14 DEF Stop, disk
<1>15. CASE Restart
  BY <1>2, <1>15 DEF Restart, disk
<1>16. CASE UNCHANGED vars
  BY <1>2, <1>16 DEF vars, disk, proc
<1>17. QED
  BY <1>3, <1>4, <1>5, <1>6, <1>7, <1>8, <1>9, <1>10, <1>11, <1>12, <1>13,
     <1>14, <1>15, <1>16 DEF Next

(* Credentials of a pinned token only reach servers the pin trusts:      *)
(* across crashes, restarts with new configs and any answers of an        *)
(* attacker, getCACerts with validateCAHash lets httpBootstrap send the   *)
(* password of a token that declares a CA hash only to a server that CA  *)
(* authenticates.                                                          *)
THEOREM PinnedCredentialsInvariant == Spec => []PinnedCredentials
<1>1. IInv => PinnedCredentials
  BY DEF IInv
<1>2. QED
  BY <1>1, IInvInit, IInvStep, PTL DEF Spec

=============================================================================
