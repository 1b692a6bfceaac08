--------------------------- MODULE BootstrapSafety ---------------------------
(***************************************************************************)
(* Proof that the bootstrap data is only ever fetched with a validated     *)
(* CA bundle, for every value of the constants that satisfies             *)
(* BootstrapAssumption.                                                   *)
(***************************************************************************)
EXTENDS BootstrapRefinement

(* JInv strengthened with the property itself: the only step into the    *)
(* fetch, GetCACertsVerify, sets info, and JInv keeps the unmanaged path  *)
(* (DecideNotHttp) and the bypass away from it.                           *)
KInv ==
  /\ JInv
  /\ FetchHasCA

LEMMA KInvInit == Init => KInv
<1>1. Init => JInv
  BY JInvInit
<1>2. QED
  BY <1>1 DEF Init, KInv, FetchHasCA

LEMMA KInvStep == KInv /\ [Next]_vars => KInv'
<1> USE BootstrapAssumption
<1> SUFFICES ASSUME KInv, [Next]_vars PROVE KInv'
  OBVIOUS
<1>1. JInv /\ JInv'
  BY JInvStep DEF KInv
<1>2. TypeOK /\ DecideNotHttp
  BY <1>1 DEF JInv
<1>3. FetchHasCA
  BY DEF KInv
<1> SUFFICES FetchHasCA'
  BY <1>1 DEF KInv
<1> USE DEF FetchHasCA
<1>4. CASE AssignManagedDriver
  BY <1>3, <1>4 DEF AssignManagedDriver, disk, Fail
<1>5. CASE ShouldBootstrapLoad
  BY <1>2, <1>3, <1>5 DEF ShouldBootstrapLoad, disk, StampCheck, Fail,
                          DecideNotHttp
<1>6. CASE GetCACertsDefault
  BY <1>3, <1>6 DEF GetCACertsDefault, disk, TokenValidated, StampCheck,
                    Fail, CAValues
<1>7. CASE GetCACertsInsecure
  BY <1>3, <1>7 DEF GetCACertsInsecure, disk, TokenError, Fail
<1>8. CASE GetCACertsVerify
  <2>1. cacerts \in CAValues
    BY <1>2 DEF TypeOK
  <2>2. QED
    BY <1>3, <1>8, <2>1 DEF GetCACertsVerify, disk, TokenValidated,
                            TokenError, StampCheck, Fail
<1>9. CASE HttpBootstrap
  BY <1>3, <1>9 DEF HttpBootstrap, disk, Fail
<1>10. CASE StorageBootstrap
  BY <1>3, <1>10 DEF StorageBootstrap, disk, Fail
<1>11. CASE ClusterStart
  BY <1>3, <1>11 DEF ClusterStart, disk, Fail
<1>12. CASE Bootstrapped
  BY <1>3, <1>12 DEF Bootstrapped, disk, Fail
<1>13. CASE TestClusterDB \/ CancelTestClusterDB
  BY <1>3, <1>13 DEF TestClusterDB, CancelTestClusterDB, disk
<1>14. CASE Stop \/ Restart
  BY <1>3, <1>14 DEF Stop, Restart, disk
<1>15. CASE UNCHANGED vars
  BY <1>3, <1>15 DEF vars, disk, proc
<1>16. QED
  BY <1>4, <1>5, <1>6, <1>7, <1>8, <1>9, <1>10, <1>11, <1>12, <1>13, <1>14,
     <1>15 DEF Next

(* Every reachable state satisfies KInv.                                  *)
THEOREM KInvariant == Spec => []KInv
BY KInvInit, KInvStep, PTL DEF Spec

(* httpBootstrap never runs with a nil clientAccessInfo: a process about  *)
(* to fetch the bootstrap data holds the CA bundle that getCACerts found  *)
(* and validateCAHash accepted in this run; neither the 503 bypass nor    *)
(* the unmanaged path of shouldBootstrapLoad leads to a fetch.            *)
THEOREM FetchHasCAInvariant == Spec => []FetchHasCA
<1>1. KInv => FetchHasCA
  BY DEF KInv
<1>2. QED
  BY <1>1, KInvariant, PTL

=============================================================================
