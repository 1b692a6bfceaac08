------------------------------- MODULE Cluster -------------------------------
(***************************************************************************)
(* Servers of one embedded-etcd cluster coming back after a total outage.  *)
(* Every server already holds an initialized etcd member on disk, so       *)
(* assignManagedDriver picks the managed driver, and the etcd cluster has  *)
(* quorum once a majority of members run.  A server with a join URL must  *)
(* first get /cacerts from its peer; the peer only listens once it has    *)
(* reached Cluster.Start (initClusterAndHTTPS), and answers 503 until its *)
(* own datastore is ready.  Each server runs one revision of the code:    *)
(* "current" (lines 240-364 of https.go, with the quorum-loss bypass) or  *)
(* "earlier" (lines 114-220), as during a rolling upgrade.                *)
(***************************************************************************)
EXTENDS Naturals, FiniteSets

CONSTANTS
  Servers,   \* the servers of the cluster
  JoinOf,    \* server -> the peer its join URL names, or NoJoin
  NoJoin,    \* no join URL (the founder started with cluster-init)
  RevisionOf, \* server -> "current" or "earlier"
  MaxCrashes  \* crashes of started servers the environment may cause

ASSUME ClusterAssumption ==
  /\ Servers # {} /\ IsFiniteSet(Servers)
  /\ NoJoin \notin Servers
  /\ JoinOf \in [Servers -> Servers \cup {NoJoin}]
  /\ RevisionOf \in [Servers -> {"current", "earlier"}]
  /\ MaxCrashes \in Nat

PCs == {"down", "validate", "fetch", "start", "started", "running"}

VARIABLES
  pc,              \* server -> where its process is
  stamped,         \* servers whose db/joined-<hash(token)> file exists
  shouldBootstrap, \* server -> c.shouldBootstrap of its current process
  crashes          \* crashes so far, bounded by MaxCrashes
vars == <<pc, stamped, shouldBootstrap, crashes>>

(* The answer of peer p to a request, from its handlers (not in this     *)
(* file): connection refused while it is not listening, 503 until its    *)
(* startup completes, as the comment at 277-282 says, then 200.           *)
Answer(p) ==
  IF pc[p] \notin {"started", "running"} THEN "refused"
  ELSE IF pc[p] = "running" THEN "200" ELSE "503"

(* etcd has quorum: a strict majority of the members run.                 *)
Quorum == 2 * Cardinality({s \in Servers : pc[s] \in {"started", "running"}})
            > Cardinality(Servers)

-----------------------------------------------------------------------------
Init ==
  /\ pc = [s \in Servers |-> "down"]
  /\ stamped \in SUBSET Servers
  /\ shouldBootstrap = [s \in Servers |-> FALSE]
  /\ crashes = 0

(* A fatal error: Bootstrap returns it, the process exits and the service *)
(* manager starts it again.                                               *)
Fail(s) ==
  /\ pc' = [pc EXCEPT ![s] = "down"]
  /\ UNCHANGED <<stamped, shouldBootstrap, crashes>>

(* The process starts: assignManagedDriver finds the initialized member,  *)
(* shouldBootstrapLoad sets HTTPBootstrap and, without a join URL,        *)
(* returns false at once.                                                 *)
Launch(s) ==
  /\ pc[s] = "down"
  /\ pc' = [pc EXCEPT ![s] = IF JoinOf[s] = NoJoin THEN "start"
                                                   ELSE "validate"]
  /\ shouldBootstrap' = [shouldBootstrap EXCEPT ![s] = FALSE]
  /\ UNCHANGED <<stamped, crashes>>

(* After the token validated: the stamp check, then bootstrap() over HTTP *)
(* if the stamp is missing.                                               *)
Validated(s) ==
  /\ pc' = [pc EXCEPT ![s] = IF s \in stamped THEN "start" ELSE "fetch"]
  /\ shouldBootstrap' = [shouldBootstrap EXCEPT ![s] = s \notin stamped]
  /\ UNCHANGED <<stamped, crashes>>

(* Mutant of ValidateToken: a 503 is fatal like any other error.          *)
ValidateTokenNoBypass(s) ==
  /\ pc[s] = "validate"
  /\ IF Answer(JoinOf[s]) = "200" THEN Validated(s) ELSE Fail(s)

(* Current shouldBootstrapLoad: ParseAndValidateTokenForUser against the  *)
(* peer; on ErrServiceUnavailable the initialized member bypasses the     *)
(* bootstrap; any other error is fatal.                                   *)
ValidateToken(s) ==
  /\ pc[s] = "validate"
  /\ CASE Answer(JoinOf[s]) = "200" -> Validated(s)
       [] Answer(JoinOf[s]) = "503" ->
            /\ pc' = [pc EXCEPT ![s] = "start"]
            /\ UNCHANGED <<stamped, shouldBootstrap, crashes>>
       [] OTHER -> Fail(s)

(* Earlier shouldBootstrapLoad: NormalizeAndValidateTokenForUser and      *)
(* ParseAndValidateToken; every error is fatal.                           *)
ValidateTokenEarlier(s) ==
  /\ pc[s] = "validate"
  /\ IF Answer(JoinOf[s]) = "200" THEN Validated(s) ELSE Fail(s)

(* httpBootstrap: GET server-bootstrap from the peer.                     *)
HttpBootstrap(s) ==
  /\ pc[s] = "fetch"
  /\ IF Answer(JoinOf[s]) = "200"
     THEN /\ pc' = [pc EXCEPT ![s] = "start"]
          /\ UNCHANGED <<stamped, shouldBootstrap, crashes>>
     ELSE Fail(s)

(* Cluster.Start: the listener, then start() of the etcd member, then     *)
(* testClusterDB's goroutine, then bootstrapped() if bootstrap ran.       *)
ClusterStart(s) ==
  /\ pc[s] = "start"
  /\ pc' = [pc EXCEPT ![s] = "started"]
  /\ stamped' = IF shouldBootstrap[s] THEN stamped \cup {s} ELSE stamped
  /\ UNCHANGED <<shouldBootstrap, crashes>>

(* testClusterDB: managedDB.Test succeeds once etcd has quorum; startup   *)
(* then completes and the server serves its handlers.                     *)
TestClusterDB(s) ==
  /\ pc[s] = "started"
  /\ Quorum
  /\ pc' = [pc EXCEPT ![s] = "running"]
  /\ UNCHANGED <<stamped, shouldBootstrap, crashes>>

(* A server that has started is killed (power loss, OOM): the process   *)
(* exits and is started again.  Not fair: the environment may stop.       *)
Crash(s) ==
  /\ pc[s] \in {"start", "started", "running"}
  /\ crashes < MaxCrashes
  /\ pc' = [pc EXCEPT ![s] = "down"]
  /\ crashes' = crashes + 1
  /\ UNCHANGED <<stamped, shouldBootstrap>>

Validate(s) ==
  IF RevisionOf[s] = "current" THEN ValidateToken(s) ELSE ValidateTokenEarlier(s)

Step(s) ==
  \/ Launch(s)
  \/ Validate(s)
  \/ HttpBootstrap(s)
  \/ ClusterStart(s)
  \/ TestClusterDB(s)

Next == \E s \in Servers : Step(s) \/ Crash(s)

(* Each server is one process whose steps block on requests that always  *)
(* return (refused, 503 or 200), and the service manager restarts an      *)
(* exited process: every server's steps are weakly fair.                  *)
Spec == Init /\ [][Next]_vars /\ \A s \in Servers : WF_vars(Step(s))

-----------------------------------------------------------------------------
(* Recovery from quorum loss: after a total outage, every server          *)
(* eventually completes its startup, however the restarts and a bounded  *)
(* number of further crashes interleave.                                  *)
(* The quorum-loss bypass of shouldBootstrapLoad exists to guarantee it. *)
Recovers == <>(\A s \in Servers : pc[s] = "running")

=============================================================================
