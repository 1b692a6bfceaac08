------------------------- MODULE BootstrapRefinement -------------------------
(***************************************************************************)
(* Proofs that the disk stays consistent across any number of crashes and  *)
(* restarts (one managed datastore, stamps only after loads), and that the *)
(* Bootstrap process implements the orchestrator of BootstrapAbstract.    *)
(***************************************************************************)
EXTENDS BootstrapProofs

(* The facts about one run of the process that the disk invariants and    *)
(* the refinement rest on.  A process that has not chosen its driver has  *)
(* none; once chosen, a managed driver is the one on disk if there is one *)
(* (assignManagedDriver looked there first); the three requests and the   *)
(* fetch happen on the HTTP path of a managed datastore, the storage load *)
(* on the other; a process on a bootstrap path has shouldBootstrap set,   *)
(* and once it reaches start with it set, its token has been loaded.      *)
IdleUnmanaged == pc \in {"down", "assign"} => managedDB = None
ManagedOnDisk ==
  pc \notin {"down", "assign"} /\ managedDB # None /\ dbInit # {}
    => managedDB \in dbInit
HttpPhase ==
  pc \in {"ca1", "ca2", "ca3", "fetch"} => httpBootstrap /\ managedDB # None
LoadPhase == pc = "load" => ~httpBootstrap /\ managedDB = None
BootstrapPhase == pc \in {"fetch", "load", "stamp"} => shouldBootstrap
LoadedBeforeStart ==
  pc \in {"start", "stamp", "running"} /\ shouldBootstrap
    => cfg.token \in loaded

JInv ==
  /\ TypeOK
  /\ DecideNotHttp
  /\ IdleUnmanaged
  /\ ManagedOnDisk
  /\ SingleManagedDriver
  /\ HttpPhase
  /\ LoadPhase
  /\ BootstrapPhase
  /\ LoadedBeforeStart
  /\ StampMeansLoaded

LEMMA JInvInit == Init => JInv
BY BootstrapAssumption
   DEF Init, JInv, TypeOK, CAValues, PCs, DecideNotHttp, IdleUnmanaged,
       ManagedOnDisk, SingleManagedDriver, HttpPhase, LoadPhase,
       BootstrapPhase, LoadedBeforeStart, StampMeansLoaded

LEMMA JInvStep == JInv /\ [Next]_vars => JInv'
<1> USE BootstrapAssumption
<1> SUFFICES ASSUME JInv, [Next]_vars PROVE JInv'
  OBVIOUS
<1>1. TypeOK /\ TypeOK'
  BY TypeOKStep DEF JInv
<1> DEFINE Rest == /\ DecideNotHttp /\ IdleUnmanaged /\ ManagedOnDisk
                   /\ SingleManagedDriver /\ HttpPhase /\ LoadPhase
                   /\ BootstrapPhase /\ LoadedBeforeStart /\ StampMeansLoaded
<1>2. Rest
  BY DEF JInv
<1> SUFFICES Rest'
  BY <1>1 DEF JInv
<1> USE DEF Rest, DecideNotHttp, IdleUnmanaged, ManagedOnDisk,
            SingleManagedDriver, HttpPhase, LoadPhase, BootstrapPhase,
            LoadedBeforeStart, StampMeansLoaded
<1>3. CASE AssignManagedDriver
  <2>1. dbInit \subseteq Drivers
    BY <1>1 DEF TypeOK
  <2> DEFINE initialized == Drivers \cap dbInit
  <2>2. initialized = dbInit
    BY <2>1
  <2>3. managedDB' \in FirstRegistered(initialized) => managedDB' \in dbInit
    BY <2>2, FirstRegisteredIn
  <2>4. managedDB' # None /\ dbInit # {} => managedDB' \in dbInit
    BY <1>2, <1>3, <2>2, <2>3 DEF AssignManagedDriver, disk, Fail
  <2>5. QED
    BY <1>2, <1>3, <2>4 DEF AssignManagedDriver, disk, Fail
<1>4. CASE ShouldBootstrapLoad
  BY <1>2, <1>4 DEF ShouldBootstrapLoad, disk, StampCheck, Fail
<1>5. CASE GetCACertsDefault
  BY <1>2, <1>5 DEF GetCACertsDefault, disk, TokenValidated, StampCheck,
                    Fail
<1>6. CASE GetCACertsInsecure
  BY <1>2, <1>6 DEF GetCACertsInsecure, disk, TokenError, Fail
<1>7. CASE GetCACertsVerify
  BY <1>2, <1>7 DEF GetCACertsVerify, disk, TokenValidated, TokenError,
                    StampCheck, Fail
<1>8. CASE HttpBootstrap
  BY <1>2, <1>8 DEF HttpBootstrap, disk, Fail
<1>9. CASE StorageBootstrap
  BY <1>2, <1>9 DEF StorageBootstrap, disk, Fail
<1>10. CASE ClusterStart
  BY <1>2, <1>10 DEF ClusterStart, disk, Fail
<1>11. CASE Bootstrapped
  BY <1>2, <1>11 DEF Bootstrapped, disk, Fail
<1>12. CASE TestClusterDB
  BY <1>2, <1>12 DEF TestClusterDB, disk
<1>13. CASE CancelTestClusterDB
  BY <1>2, <1>13 DEF CancelTestClusterDB, disk
<1>14. CASE Stop
  BY <1>2, <1>14 DEF Stop, disk
<1>15. CASE Restart
  BY <1>2, <1>15 DEF Restart, disk
<1>16. CASE UNCHANGED vars
  BY <1>2, <1>16 DEF vars, disk, proc
<1>17. QED
  BY <1>3, <1>4, <1>5, <1>6, <1>7, <1>8, <1>9, <1>10, <1>11, <1>12, <1>13,
     <1>14, <1>15, <1>16 DEF Next

(* Every reachable state satisfies the run and disk facts above.         *)
THEOREM JInvariant == Spec => []JInv
BY JInvInit, JInvStep, PTL DEF Spec

(* assignManagedDriver never switches drivers: whatever the restarts and  *)
(* config changes, at most one managed datastore is initialized on disk. *)
THEOREM SingleManagedDriverInvariant == Spec => []SingleManagedDriver
<1>1. JInv => SingleManagedDriver
  BY DEF JInv
<1>2. QED
  BY <1>1, JInvariant, PTL

(* A stamp only records a bootstrap that loaded data with its raw token: *)
(* Cluster.Start writes it only when shouldBootstrap is set, and that is  *)
(* only set on the path through bootstrap().                              *)
THEOREM StampMeansLoadedInvariant == Spec => []StampMeansLoaded
<1>1. JInv => StampMeansLoaded
  BY DEF JInv
<1>2. QED
  BY <1>1, JInvariant, PTL

-----------------------------------------------------------------------------
(* The refinement mapping maps an initial state to the abstract one.     *)
LEMMA RefInit == Init => Abs!AInit
BY DEF Init, Abs!AInit, AbsPhase, AbsDecision

(* Each step of the process maps to a step of the orchestrator or leaves *)
(* its state alone, as long as os.Stat reads the stamp without error.     *)
LEMMA RefStep ==
  ASSUME ~StatFaults
  PROVE  JInv /\ [Next]_vars => [Abs!ANext]_Abs!avars
<1> USE BootstrapAssumption, ~StatFaults
<1> SUFFICES ASSUME JInv, [Next]_vars PROVE [Abs!ANext]_Abs!avars
  OBVIOUS
<1> USE DEF JInv, TypeOK, DecideNotHttp, IdleUnmanaged, ManagedOnDisk,
            HttpPhase, LoadPhase, BootstrapPhase
<1> DEFINE Stutter == UNCHANGED Abs!avars
<1>1. CASE AssignManagedDriver
  <2>1. CASE DiskFaults /\ Fail /\ UNCHANGED managedDB
    BY <1>1, <2>1 DEF AssignManagedDriver, disk, Fail, Abs!ANext, Abs!AFail,
                      AbsPhase, AbsDecision
  <2>2. CASE pc' = "decide"
    <3>1. managedDB' \in IF Drivers \cap dbInit # {} THEN Drivers \cap dbInit
                         ELSE Drivers \cup {None}
      BY <1>1, <2>2, FirstRegisteredIn DEF AssignManagedDriver, Fail
    <3>2. QED
      BY <1>1, <2>2, <3>1 DEF AssignManagedDriver, disk, Abs!ANext,
                              Abs!AssignDriver, AbsPhase, AbsDecision
  <2>3. QED
    BY <1>1, <2>1, <2>2 DEF AssignManagedDriver, Fail
<1>2. CASE ShouldBootstrapLoad
  BY <1>2 DEF ShouldBootstrapLoad, disk, StampCheck, Fail, Abs!ANext,
              Abs!avars, Abs!AFail, Abs!Skip, Abs!Decide, AbsPhase, AbsDecision
<1>3. CASE GetCACertsDefault
  BY <1>3 DEF GetCACertsDefault, disk, TokenValidated, StampCheck, Fail,
              Abs!ANext, Abs!avars, Abs!AFail, Abs!Skip, Abs!Decide,
              AbsPhase, AbsDecision
<1>4. CASE GetCACertsInsecure
  BY <1>4 DEF GetCACertsInsecure, disk, TokenError, Fail, Abs!ANext,
              Abs!avars, Abs!AFail, Abs!Skip, AbsPhase, AbsDecision
<1>5. CASE GetCACertsVerify
  BY <1>5 DEF GetCACertsVerify, disk, TokenValidated, TokenError,
              StampCheck, Fail, Abs!ANext, Abs!avars, Abs!AFail, Abs!Skip,
              Abs!Decide, AbsPhase, AbsDecision
<1>6. CASE HttpBootstrap
  BY <1>6 DEF HttpBootstrap, disk, Fail, Abs!ANext, Abs!AFail, Abs!Load,
              AbsPhase, AbsDecision
<1>7. CASE StorageBootstrap
  BY <1>7 DEF StorageBootstrap, disk, Fail, Abs!ANext, Abs!AFail, Abs!Load,
              AbsPhase, AbsDecision
<1>8. CASE ClusterStart
  BY <1>8 DEF ClusterStart, disk, Fail, Abs!ANext, Abs!AFail,
              Abs!StartDatastore, AbsPhase, AbsDecision
<1>9. CASE Bootstrapped
  BY <1>9 DEF Bootstrapped, disk, Fail, Abs!ANext, Abs!avars, Abs!AFail,
              Abs!MarkBootstrapped, AbsPhase, AbsDecision
<1>10. CASE TestClusterDB \/ CancelTestClusterDB
  <2>1. UNCHANGED <<disk, cfg, pc, managedDB, httpBootstrap, shouldBootstrap,
                   loaded>>
    BY <1>10 DEF TestClusterDB, CancelTestClusterDB
  <2>2. QED
    BY <2>1 DEF disk, Abs!avars, AbsPhase, AbsDecision
<1>11. CASE Stop
  BY <1>11 DEF Stop, disk, Abs!ANext, Abs!AStop, AbsPhase, AbsDecision, PCs
<1>12. CASE Restart
  BY <1>12 DEF Restart, disk, Abs!ANext, Abs!ARestart, AbsPhase, AbsDecision
<1>13. CASE UNCHANGED vars
  BY <1>13 DEF vars, disk, proc, Abs!avars, AbsPhase, AbsDecision
<1>14. QED
  BY <1>1, <1>2, <1>3, <1>4, <1>5, <1>6, <1>7, <1>8, <1>9, <1>10, <1>11,
     <1>12, <1>13 DEF Next

(* The process implements the orchestrator of spec section 4.4 under the *)
(* refinement mapping of Bootstrap: the driver on disk is kept, bootstrap *)
(* is skipped only when justified, fetch and load happen on their own     *)
(* paths, and stamps follow loads.  This holds for every value of the     *)
(* constants with any IsInitialized, MkdirAll, Create and Close failures, *)
(* crashes and answers of the join URL, provided os.Stat of the stamp     *)
(* never fails otherwise than with "does not exist": line 298 takes any   *)
(* other error for a missing stamp (the run stamp_stat shows the result). *)
THEOREM Refinement ==
  ASSUME ~StatFaults
  PROVE  Spec => ImplementsAbstract
<1>1. JInv /\ [Next]_vars => [Abs!ANext]_Abs!avars
  BY RefStep
<1>2. []JInv /\ [][Next]_vars => [][Abs!ANext]_Abs!avars
  BY <1>1, PTL
<1>3. QED
  BY RefInit, <1>2, JInvariant, PTL DEF Spec, ImplementsAbstract, Abs!ASpec

=============================================================================
