------------------------------ MODULE Bootstrap ------------------------------
(***************************************************************************)
(* One server process of the cluster package: Cluster.Bootstrap            *)
(* (assignManagedDriver, shouldBootstrapLoad with the token validation of  *)
(* clientaccess, bootstrap/httpBootstrap/storageBootstrap), the start of   *)
(* the datastore, the bootstrap stamp and the readiness poller, across     *)
(* crashes and restarts in which the operator may change the config.       *)
(*                                                                         *)
(* What survives a restart is on disk: the drivers whose datastore is      *)
(* initialized (dbInit) and the stamp files, keyed by the raw token         *)
(* (stamps).  Everything else belongs to one process run.                  *)
(*                                                                         *)
(* The join URL is answered by the genuine server or, when the network is  *)
(* not trusted, by an attacker; each request gets its own answer.  A TLS    *)
(* handshake succeeds only if the client's trust policy authenticates the  *)
(* responder's certificate.                                                *)
(***************************************************************************)
EXTENDS Naturals, Sequences

CONSTANTS
  Registered,      \* managed.Registered(): the driver registry, in order
  DefaultDriver,   \* managed.Default()
  Tokens,          \* raw non-empty token strings the operator may configure
  NoToken,         \* the empty token ""
  Malformed,       \* raw tokens on which parseToken fails
  PinOf,           \* raw token -> the CA hash it declares, or NoHash
  NoHash,          \* a token without a CA hash segment
  Responders,      \* who may answer a request to the join URL
  CertCA,          \* responder -> the CA bundle that signed its certificate
  PublicCert,      \* responders whose certificate the OS trust store accepts
  Bundles,         \* non-empty CA bundles (a hash is named by its bundle)
  NoCA,            \* the empty CA bundle (nil []byte)
  BodyOf,          \* responder -> the bundles it may send from /cacerts
  DiskFaults,      \* whether filesystem calls may fail
  StatFaults       \* whether os.Stat of the stamp may fail otherwise than
                   \* with "does not exist" (a permission error, say)

Drivers == {Registered[i] : i \in DOMAIN Registered}
TokenVals == Tokens \cup {NoToken}
CAValues == Bundles \cup {NoCA}

ASSUME BootstrapAssumption ==
  /\ Registered \in Seq(Drivers)
  /\ DefaultDriver \in Drivers
  /\ NoToken \notin Tokens
  /\ Malformed \subseteq Tokens
  /\ PinOf \in [TokenVals -> CAValues \cup {NoHash}]
  /\ PinOf[NoToken] = NoHash
  /\ NoHash \notin CAValues
  /\ NoCA \notin Bundles
  /\ CertCA \in [Responders -> Bundles]
  /\ PublicCert \subseteq Responders
  /\ BodyOf \in [Responders -> SUBSET CAValues]
  /\ DiskFaults \in BOOLEAN
  /\ StatFaults \in BOOLEAN

(* Join URLs: none configured, an https:// URL, a URL of another scheme.  *)
NoURL == "none"
HttpsURL == "https"
OtherSchemeURL == "http"
JoinURLs == {NoURL, HttpsURL, OtherSchemeURL}

(* Datastore endpoints: none, "<driver>://...", or an external one.       *)
NoEndpoint == "none"
ExternalEndpoint == "external"
Endpoints == {NoEndpoint, ExternalEndpoint} \cup Drivers

None == "none"

(* ClusterReset only chooses Reset over Start in start(); both leave the  *)
(* datastore initialized, so the flag is not part of the modelled config. *)
Configs == [token : TokenVals, joinURL : JoinURLs, endpoint : Endpoints,
            clusterInit : BOOLEAN]

(* Trust policies of the http clients: http.DefaultClient, insecureClient, *)
(* or a client whose root pool is a CA bundle.                            *)
DefaultTrust == "default"
Insecure == "insecure"

(* Answer of a server once the TLS handshake succeeded.                   *)
Statuses == {"200", "503", "other"}

PCs == {"down", "assign", "decide", "ca1", "ca2", "ca3", "fetch", "load",
        "start", "stamp", "running", "failed"}

VARIABLES
  dbInit,          \* disk: drivers whose IsInitialized reports true
  stamps,          \* disk: raw tokens with a db/joined-<hash> file
  cfg,             \* the config of the current process
  pc,              \* where the process is
  managedDB,       \* c.managedDB
  httpBootstrap,   \* c.runtime.HTTPBootstrap
  shouldBootstrap, \* c.shouldBootstrap
  joining,         \* c.joining
  cacerts,         \* CA bundle obtained by the insecure /cacerts request
  info,            \* c.clientAccessInfo.CACerts, or None while nil
  poll,            \* the testClusterDB goroutine: "off", "running", "done"
  ready,           \* the channel returned by testClusterDB is closed
  credsTo,         \* history: <<raw token, responder>> sent the password
  loaded,          \* history: raw tokens with which bootstrap() succeeded
  tested,          \* history of this run: a managedDB.Test succeeded
  netUsed          \* history of this run: a request went to the join URL

disk == <<dbInit, stamps>>
proc == <<cfg, pc, managedDB, httpBootstrap, shouldBootstrap, joining,
          cacerts, info, poll, ready, tested, netUsed>>
vars == <<disk, proc, credsTo, loaded>>

-----------------------------------------------------------------------------
(* clientaccess helpers                                                   *)

(* GetHTTPClient: an empty bundle falls back to http.DefaultClient.       *)
GetHTTPClient(ca) == IF ca = NoCA THEN DefaultTrust ELSE ca

(* The TLS handshake of a client with trust policy t succeeds with r.     *)
Authenticates(t, r) ==
  \/ t = Insecure
  \/ t = DefaultTrust /\ r \in PublicCert
  \/ t \in Bundles /\ t = CertCA[r]

(* validateCACerts: an empty bundle matches only a missing hash, and     *)
(* otherwise the hash of the bundle (the empty bundle has a hash too).    *)
ValidateCACerts(ca, hash) ==
  (ca = NoCA /\ hash = NoHash) \/ hash = ca

(* The first registered driver in S, as a set: empty or a singleton.    *)
FirstRegistered(S) ==
  {Registered[i] : i \in {i \in DOMAIN Registered :
                           /\ Registered[i] \in S
                           /\ \A j \in DOMAIN Registered :
                                 j < i => Registered[j] \notin S}}

-----------------------------------------------------------------------------
Init ==
  /\ dbInit = {}
  /\ stamps = {}
  /\ cfg \in Configs
  /\ pc = "assign"
  /\ managedDB = None
  /\ httpBootstrap = FALSE
  /\ shouldBootstrap = FALSE
  /\ joining = FALSE
  /\ cacerts = NoCA
  /\ info = None
  /\ poll = "off"
  /\ ready = FALSE
  /\ credsTo = {}
  /\ loaded = {}
  /\ tested = FALSE
  /\ netUsed = FALSE

(* A fatal error: Bootstrap or Start returns it and the server exits.     *)
Fail == pc' = "failed"

(* Mutant of AssignManagedDriver: the endpoint scheme is consulted before *)
(* the drivers initialized on disk.                                       *)
AssignManagedDriverEndpointFirst ==
  /\ pc = "assign"
  /\ \/ /\ cfg.endpoint \in Drivers
        /\ managedDB' = cfg.endpoint
     \/ /\ cfg.endpoint \notin Drivers
        /\ managedDB' \in FirstRegistered(Drivers \cap dbInit)
  /\ pc' = "decide"
  /\ UNCHANGED <<disk, cfg, httpBootstrap, shouldBootstrap, joining, cacerts,
                 info, poll, ready, credsTo, loaded, tested, netUsed>>

(* Mutant of AssignManagedDriver: the endpoint scheme is taken as the    *)
(* driver without matching it against a registered driver.                *)
AssignManagedDriverAnyScheme ==
  /\ pc = "assign"
  /\ \/ /\ Drivers \cap dbInit # {}
        /\ managedDB' \in FirstRegistered(Drivers \cap dbInit)
     \/ /\ Drivers \cap dbInit = {}
        /\ cfg.endpoint # NoEndpoint
        /\ managedDB' = cfg.endpoint
  /\ pc' = "decide"
  /\ UNCHANGED <<disk, cfg, httpBootstrap, shouldBootstrap, joining, cacerts,
                 info, poll, ready, credsTo, loaded, tested, netUsed>>

(* assignManagedDriver: a driver initialized on disk, else the driver    *)
(* named by the endpoint scheme, else the default one when a cluster is   *)
(* to be created or joined.  Any IsInitialized call may fail.             *)
AssignManagedDriver ==
  /\ pc = "assign"
  /\ LET initialized == Drivers \cap dbInit
         wantDefault == /\ cfg.endpoint = NoEndpoint
                        /\ \/ cfg.clusterInit
                           \/ cfg.token # NoToken /\ cfg.joinURL # NoURL
     IN \/ /\ DiskFaults
           /\ Fail
           /\ UNCHANGED managedDB
        \/ /\ initialized # {}
           /\ managedDB' \in FirstRegistered(initialized)
           /\ pc' = "decide"
        \/ /\ initialized = {}
           /\ cfg.endpoint \in Drivers
           /\ managedDB' = cfg.endpoint
           /\ pc' = "decide"
        \/ /\ initialized = {}
           /\ cfg.endpoint \notin Drivers
           /\ managedDB' = IF wantDefault THEN DefaultDriver ELSE None
           /\ pc' = "decide"
  /\ UNCHANGED <<disk, cfg, httpBootstrap, shouldBootstrap, joining, cacerts,
                 info, poll, ready, credsTo, loaded, tested, netUsed>>

(* The end of shouldBootstrapLoad once the token is settled, followed by  *)
(* Bootstrap calling bootstrap(), which sets joining and picks the path.  *)
(* Only err == nil from os.Stat counts as a stamp: any other error is     *)
(* taken for a missing stamp, even when the file is there.                *)
StampCheck ==
  \/ /\ cfg.token \in stamps
     /\ shouldBootstrap' = FALSE
     /\ pc' = "start"
     /\ UNCHANGED joining
  \/ /\ cfg.token \notin stamps \/ StatFaults
     /\ managedDB # None /\ cfg.token = NoToken
     /\ Fail
     /\ UNCHANGED <<shouldBootstrap, joining>>
  \/ /\ cfg.token \notin stamps \/ StatFaults
     /\ ~(managedDB # None /\ cfg.token = NoToken)
     /\ shouldBootstrap' = TRUE
     /\ joining' = TRUE
     /\ pc' = IF httpBootstrap THEN "fetch" ELSE "load"

(* shouldBootstrapLoad up to the first request for the CA bundle:        *)
(* parseToken and the scheme check of setServer.                          *)
ShouldBootstrapLoad ==
  /\ pc = "decide"
  /\ \/ /\ managedDB = None
        /\ StampCheck
        /\ UNCHANGED httpBootstrap
     \/ /\ managedDB # None
        /\ httpBootstrap' = TRUE
        /\ \/ /\ cfg.joinURL = NoURL
              /\ shouldBootstrap' = FALSE
              /\ pc' = "start"
           \/ /\ cfg.joinURL # NoURL
              /\ \/ cfg.token \in Malformed
                 \/ cfg.joinURL = OtherSchemeURL
              /\ Fail
              /\ UNCHANGED shouldBootstrap
           \/ /\ cfg.joinURL = HttpsURL
              /\ cfg.token \notin Malformed
              /\ pc' = "ca1"
              /\ UNCHANGED shouldBootstrap
        /\ UNCHANGED joining
  /\ UNCHANGED <<disk, cfg, managedDB, cacerts, info, poll, ready, credsTo,
                 loaded, tested, netUsed>>

(* Mutant of TokenValidated: the declared CA hash is not checked.        *)
TokenValidatedUnpinned(ca) == info' = ca /\ StampCheck

(* The CA bundle is settled: validateCAHash when the token declares a    *)
(* hash, c.clientAccessInfo = info, then the stamp check.                 *)
TokenValidated(ca) ==
  IF PinOf[cfg.token] # NoHash /\ ~ValidateCACerts(ca, PinOf[cfg.token])
  THEN Fail /\ UNCHANGED <<info, shouldBootstrap, joining>>
  ELSE info' = ca /\ StampCheck

(* Mutant of TokenError: ErrServiceUnavailable bypasses the bootstrap     *)
(* without asking IsInitialized.                                          *)
TokenErrorAlwaysBypass(unavailable) ==
  \/ /\ unavailable
     /\ shouldBootstrap' = FALSE
     /\ pc' = "start"
  \/ /\ ~unavailable
     /\ Fail
     /\ UNCHANGED shouldBootstrap

(* Mutant of TokenError: the bypass returns (true, nil), so Bootstrap    *)
(* goes on to bootstrap() over HTTP.                                      *)
TokenErrorBootstrapOnBypass(unavailable) ==
  \/ /\ unavailable
     /\ managedDB \in dbInit
     /\ shouldBootstrap' = TRUE
     /\ pc' = "fetch"
  \/ /\ ~(unavailable /\ managedDB \in dbInit /\ ~DiskFaults)
     /\ Fail
     /\ UNCHANGED shouldBootstrap

(* ParseAndValidateTokenForUser failed.  On ErrServiceUnavailable the    *)
(* bootstrap is skipped if the managed datastore is initialized and       *)
(* IsInitialized did not itself fail.                                     *)
TokenError(unavailable) ==
  \/ /\ unavailable
     /\ managedDB \in dbInit
     /\ shouldBootstrap' = FALSE
     /\ pc' = "start"
  \/ /\ ~(unavailable /\ managedDB \in dbInit /\ ~DiskFaults)
     /\ Fail
     /\ UNCHANGED shouldBootstrap

(* getCACerts, first request, with the OS trust store.  Any failure      *)
(* moves on to the insecure request.                                      *)
GetCACertsDefault ==
  /\ pc = "ca1"
  /\ netUsed' = TRUE
  /\ \E r \in Responders, st \in Statuses :
       IF Authenticates(DefaultTrust, r) /\ st = "200"
       THEN TokenValidated(NoCA)
       ELSE pc' = "ca2" /\ UNCHANGED <<info, shouldBootstrap, joining>>
  /\ UNCHANGED <<disk, cfg, managedDB, httpBootstrap, cacerts, poll, ready,
                 credsTo, loaded, tested>>

(* getCACerts, second request, without certificate verification.         *)
GetCACertsInsecure ==
  /\ pc = "ca2"
  /\ \E r \in Responders, st \in Statuses :
       \/ /\ st = "200"
          /\ \E b \in BodyOf[r] : cacerts' = b
          /\ pc' = "ca3"
          /\ UNCHANGED shouldBootstrap
       \/ /\ st # "200"
          /\ TokenError(st = "503")
          /\ UNCHANGED cacerts
  /\ UNCHANGED <<disk, cfg, managedDB, httpBootstrap, joining, info, poll,
                 ready, credsTo, loaded, tested, netUsed>>

(* getCACerts, third request, trusting only the bundle just obtained.    *)
(* A 503 is wrapped, and errors.Is still sees ErrServiceUnavailable.      *)
GetCACertsVerify ==
  /\ pc = "ca3"
  /\ \E r \in Responders, st \in Statuses :
       IF Authenticates(GetHTTPClient(cacerts), r)
       THEN IF st = "200"
            THEN TokenValidated(cacerts)
            ELSE TokenError(st = "503") /\ UNCHANGED <<info, joining>>
       ELSE TokenError(FALSE) /\ UNCHANGED <<info, joining>>
  /\ UNCHANGED <<disk, cfg, managedDB, httpBootstrap, cacerts, poll, ready,
                 credsTo, loaded, tested, netUsed>>

(* bootstrap() on the HTTP path: httpBootstrap GETs server-bootstrap with *)
(* basic auth, trusting info.CACerts.  The password goes out as soon as  *)
(* the handshake succeeds, whatever the status.                           *)
HttpBootstrap ==
  /\ pc = "fetch"
  /\ \E r \in Responders, st \in Statuses :
       IF Authenticates(GetHTTPClient(info), r)
       THEN /\ credsTo' = credsTo \cup {<<cfg.token, r>>}
            /\ IF st = "200"
               THEN pc' = "start" /\ loaded' = loaded \cup {cfg.token}
               ELSE Fail /\ UNCHANGED loaded
       ELSE Fail /\ UNCHANGED <<credsTo, loaded>>
  /\ UNCHANGED <<disk, cfg, managedDB, httpBootstrap, shouldBootstrap, joining,
                 cacerts, info, poll, ready, tested, netUsed>>

(* bootstrap() on the storage path: storageBootstrap, an external call.   *)
StorageBootstrap ==
  /\ pc = "load"
  /\ \/ pc' = "start" /\ loaded' = loaded \cup {cfg.token}
     \/ Fail /\ UNCHANGED loaded
  /\ UNCHANGED <<disk, cfg, managedDB, httpBootstrap, shouldBootstrap, joining,
                 cacerts, info, poll, ready, credsTo, tested, netUsed>>

(* Mutant of ClusterStart: the stamp is written whether or not bootstrap  *)
(* ran.                                                                   *)
ClusterStartAlwaysStamp ==
  /\ pc = "start"
  /\ dbInit' = IF managedDB = None THEN dbInit ELSE dbInit \cup {managedDB}
  /\ poll' = IF managedDB = None THEN "done" ELSE "running"
  /\ ready' = (managedDB = None)
  /\ pc' = "stamp"
  /\ UNCHANGED <<stamps, cfg, managedDB, httpBootstrap, shouldBootstrap,
                 joining, cacerts, info, credsTo, loaded, tested, netUsed>>

(* Cluster.Start: start() runs Reset or Start of the managed datastore,  *)
(* either of which may fail and both leave it initialized; testClusterDB *)
(* closes the channel at once without a managed datastore and otherwise   *)
(* starts its goroutine; then the stamp is written if bootstrap ran.      *)
ClusterStart ==
  /\ pc = "start"
  /\ \/ /\ managedDB # None
        /\ Fail
        /\ UNCHANGED <<dbInit, poll, ready>>
     \/ /\ dbInit' = IF managedDB = None THEN dbInit ELSE dbInit \cup {managedDB}
        /\ poll' = IF managedDB = None THEN "done" ELSE "running"
        /\ ready' = (managedDB = None)
        /\ pc' = IF shouldBootstrap THEN "stamp" ELSE "running"
  /\ UNCHANGED <<stamps, cfg, managedDB, httpBootstrap, shouldBootstrap,
                 joining, cacerts, info, credsTo, loaded, tested, netUsed>>

(* bootstrapped: MkdirAll, return if the stamp exists, else os.Create and *)
(* f.Close.  MkdirAll or Create may fail with no file made; Close may     *)
(* fail after Create made it, and the error is fatal all the same.        *)
Bootstrapped ==
  /\ pc = "stamp"
  /\ \/ /\ DiskFaults
        /\ Fail
        /\ UNCHANGED stamps
     \/ /\ DiskFaults
        /\ stamps' = stamps \cup {cfg.token}
        /\ Fail
     \/ /\ stamps' = stamps \cup {cfg.token}
        /\ pc' = "running"
  /\ UNCHANGED <<dbInit, cfg, managedDB, httpBootstrap, shouldBootstrap,
                 joining, cacerts, info, poll, ready, credsTo, loaded, tested, netUsed>>

(* The testClusterDB goroutine: managedDB.Test, on success log and       *)
(* return (closing the channel), on failure wait 5s and retry.            *)
TestClusterDB ==
  /\ poll = "running"
  /\ \/ /\ poll' = "done"
        /\ ready' = TRUE
        /\ tested' = TRUE
     \/ UNCHANGED <<poll, ready, tested>>   \* Test failed; retried later
  /\ UNCHANGED <<disk, cfg, pc, managedDB, httpBootstrap, shouldBootstrap,
                 joining, cacerts, info, credsTo, loaded, netUsed>>

(* The goroutine sees ctx.Done() while waiting and returns; its deferred *)
(* close(result) runs on this path too.                                   *)
CancelTestClusterDB ==
  /\ poll = "running"
  /\ poll' = "done"
  /\ ready' = TRUE
  /\ UNCHANGED <<disk, cfg, pc, managedDB, httpBootstrap, shouldBootstrap,
                 joining, cacerts, info, credsTo, loaded, tested, netUsed>>

(* The process exits, after a fatal error or killed at any point.        *)
Stop ==
  /\ pc # "down"
  /\ pc' = "down"
  /\ managedDB' = None
  /\ httpBootstrap' = FALSE
  /\ shouldBootstrap' = FALSE
  /\ joining' = FALSE
  /\ cacerts' = NoCA
  /\ info' = None
  /\ poll' = "off"
  /\ ready' = FALSE
  /\ tested' = FALSE
  /\ netUsed' = FALSE
  /\ UNCHANGED <<disk, cfg, credsTo, loaded>>

(* The server is started again, possibly with another config.            *)
Restart ==
  /\ pc = "down"
  /\ cfg' \in Configs
  /\ pc' = "assign"
  /\ UNCHANGED <<disk, managedDB, httpBootstrap, shouldBootstrap, joining,
                 cacerts, info, poll, ready, credsTo, loaded, tested, netUsed>>

Next ==
  \/ AssignManagedDriver
  \/ ShouldBootstrapLoad
  \/ GetCACertsDefault
  \/ GetCACertsInsecure
  \/ GetCACertsVerify
  \/ HttpBootstrap
  \/ StorageBootstrap
  \/ ClusterStart
  \/ Bootstrapped
  \/ TestClusterDB
  \/ CancelTestClusterDB
  \/ Stop
  \/ Restart

Spec == Init /\ [][Next]_vars

-----------------------------------------------------------------------------
TypeOK ==
  /\ dbInit \subseteq Drivers
  /\ stamps \subseteq TokenVals
  /\ cfg \in Configs
  /\ pc \in PCs
  /\ managedDB \in Drivers \cup {None}
  /\ httpBootstrap \in BOOLEAN
  /\ shouldBootstrap \in BOOLEAN
  /\ joining \in BOOLEAN
  /\ cacerts \in CAValues
  /\ info \in CAValues \cup {None}
  /\ poll \in {"off", "running", "done"}
  /\ ready \in BOOLEAN
  /\ credsTo \subseteq TokenVals \X Responders
  /\ loaded \subseteq TokenVals
  /\ tested \in BOOLEAN
  /\ netUsed \in BOOLEAN

-----------------------------------------------------------------------------
(* Safety.                                                                *)

(* A token that declares a CA hash protects its password: whatever       *)
(* answers the join URL, across any number of restarts and config         *)
(* changes, httpBootstrap only ever sends the password to a server that   *)
(* the pinned CA bundle authenticates (the OS trust store when the pinned *)
(* bundle is the empty one).  This is what getCACerts together with       *)
(* validateCAHash must achieve before Get runs.                           *)
PinnedCredentials ==
  \A p \in credsTo :
    PinOf[p[1]] # NoHash => Authenticates(GetHTTPClient(PinOf[p[1]]), p[2])

(* assignManagedDriver never switches drivers: across restarts with any   *)
(* change of endpoint, cluster-init, token or join URL, at most one      *)
(* managed datastore is ever initialized on disk.                         *)
SingleManagedDriver == \A d1, d2 \in dbInit : d1 = d2

(* The stamp only records a bootstrap that happened: db/joined-<hash(t)>  *)
(* exists only if bootstrap() once succeeded with the raw token t.  A    *)
(* stamp written after the quorum-loss bypass or a founder start would    *)
(* make every later start with t skip fetching the bootstrap data.        *)
StampMeansLoaded == stamps \subseteq loaded

(* httpBootstrap never runs with a nil clientAccessInfo: whatever path    *)
(* shouldBootstrapLoad took, with any answers of the join URL and after  *)
(* any restarts, a process that fetches the bootstrap data holds a CA     *)
(* bundle that getCACerts obtained and validateCAHash accepted in this    *)
(* run.  The bypass of a 503 and the unmanaged path never set it.         *)
FetchHasCA == pc = "fetch" => info \in CAValues

(* Spec section 8: Bootstrap called when the stamp for the raw token      *)
(* already exists skips network activity entirely.                        *)
NoNetworkWhenStamped ==
  (pc \in {"decide", "ca1", "ca2", "ca3", "start"} /\ cfg.token \in stamps)
    => ~netUsed

(* Spec sections 4.4 and 7, MissingTokenError: a server with a managed    *)
(* datastore and a join URL but no token never gets past Bootstrap; the   *)
(* check at the end of shouldBootstrapLoad is meant to make it fatal.     *)
TokenRequired ==
  (pc \in {"start", "stamp", "running"} /\ managedDB # None
     /\ cfg.joinURL # NoURL)
    => cfg.token # NoToken

(* Spec section 4.5: the readiness signal of testClusterDB fires only     *)
(* after managedDB.Test succeeded (or at once when there is no managed    *)
(* datastore); a cancelled context stops it without signalling.           *)
ReadyMeansTested == (ready /\ managedDB # None) => tested

-----------------------------------------------------------------------------
(* Refinement: the process implements the orchestrator of spec section   *)
(* 4.4.  Its phase is read off the program counter, its decision off     *)
(* shouldBootstrap and HTTPBootstrap once the decision is carried out.    *)
AbsPhase ==
  CASE pc = "down" -> "down"
    [] pc = "assign" -> "init"
    [] pc \in {"decide", "ca1", "ca2", "ca3"} -> "assigned"
    [] pc \in {"fetch", "load"} -> "decided"
    [] pc \in {"start", "stamp", "running"} -> "complete"
    [] pc = "failed" -> "failed"

AbsDecision ==
  CASE pc = "fetch" -> "fetch"
    [] pc = "load" -> "load"
    [] pc \in {"start", "stamp", "running"} ->
         IF ~shouldBootstrap THEN "skip"
         ELSE IF httpBootstrap THEN "fetch" ELSE "load"
    [] OTHER -> "none"

Abs == INSTANCE BootstrapAbstract
         WITH phase <- AbsPhase, decision <- AbsDecision,
              started <- pc \in {"stamp", "running"}

(* Every behaviour of the process, with crashes, restarts, disk faults   *)
(* and any answers from the join URL, is one the orchestrator of section *)
(* 4.4 allows: the driver on disk is kept, bootstrap is skipped only with *)
(* a stamp, as a founder or after the bypass on an initialized datastore, *)
(* and the stamp follows a load of this run.                              *)
ImplementsAbstract == Abs!ASpec

=============================================================================
