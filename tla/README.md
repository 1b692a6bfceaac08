# Formal models of the k3s cluster bootstrap (`pkg/cluster`, `pkg/clientaccess`)

These are TLA+ models of the code in `src/pkg/cluster/https.go`. That file
concatenates several Go files of k3s:

| Lines   | Go file and content |
|---------|---------------------|
| 1-95    | `cluster/https.go`: the HTTPS listener, the supervisor server, and TLS storage |
| 96-220  | an earlier revision of `cluster/bootstrap.go`, without the quorum-loss bypass |
| 221-364 | `cluster/bootstrap.go`: `Bootstrap`, `shouldBootstrapLoad`, `bootstrapped`, `httpBootstrap`, `bootstrap`, `bootstrapStamp` |
| 365-471 | `cluster/managed.go`: `testClusterDB`, `start`, `initClusterDB`, `assignManagedDriver` |
| 472-784 | `clientaccess/token.go`: the join-token codec, `getCACerts`, `GetHTTPClient`, `get` |

## 1. Inventory

### Parts and how they interact

* **Join-token codec** (`parseToken`, `Info.String`, `tokenFormat`,
  `ParseUsernamePassword`). A token is `K10<caHash>::<user>:<password>`. A
  string without the prefix is treated as a bare password.
* **CA trust establisher** (`ParseAndValidateTokenForUser`, `setServer`,
  `getCACerts`, `validateCACerts`, `GetHTTPClient`, `get`). `getCACerts` makes
  up to three requests to `/cacerts`:
  1. with the OS trust store; success returns an empty bundle;
  2. insecurely, to download the bundle;
  3. trusting only the downloaded bundle.

  A 503 answer becomes `ErrServiceUnavailable`, and the wrapping keeps it
  visible to `errors.Is`. If the token declares a CA hash, the bundle must
  match it.
* **Driver selector** (`assignManagedDriver`). It chooses, in this order:
  1. a registered driver that is initialized on disk;
  2. the driver named by the endpoint scheme;
  3. the default driver, when a cluster is to be created or joined.
* **Bootstrap orchestrator** (`Bootstrap`, `shouldBootstrapLoad`,
  `bootstrap`, `httpBootstrap`, `storageBootstrap`, `bootstrapped`).
  * With a managed datastore and a join URL, it validates the token over the
    network.
  * On a 503 it skips bootstrap if the datastore is already initialized. This
    is the quorum-loss bypass.
  * It then checks the stamp file `db/joined-<hash(raw token)>`.
  * If bootstrap is needed, it fetches the bootstrap data over HTTP with the
    server password, or loads it from storage.
  * After the datastore has started, `bootstrapped` writes the stamp.
* **Readiness poller** (`testClusterDB`). A goroutine retries
  `managedDB.Test` every 5 s and closes a channel when done. Because the
  close is deferred, it also runs on cancellation.
* Not modelled:
  * the HTTPS listener, `tlsStorage` and `initClusterDB`: wiring and
    delegation;
  * `WriteClientKubeConfig`: pure I/O.
* **Cluster of servers** (several processes of the orchestrator). After a
  total outage every server of an embedded-etcd cluster restarts, and each
  joiner asks its join URL's peer for `/cacerts`. A peer:
  * refuses connections until it reaches `Cluster.Start`;
  * answers 503 until `testClusterDB` sees etcd quorum;
  * answers 200 after that.

  The earlier revision of `shouldBootstrapLoad` (lines 134-164) has no
  bypass, and a rolling upgrade mixes the two revisions.

### The hard behaviours

* A process can crash at any point and restart with a different
  configuration. The disk survives: the initialized datastore and the stamps.
* An attacker can answer any request to the join URL. Only the trust
  configured in each client decides which answers are accepted.
* The bypass interacts with IsInitialized failures and with stamps, across
  restarts.
* The poller's cancellation races its success.
* On the codec side, the separators `::` and `:` can also appear inside
  usernames and passwords.

## 2. Plan and status

1. `JoinToken` (done): the codec, over all strings of up to 7 characters.
   It is checked against a decoder written from the spec's words, and for
   print-then-parse.
2. `Bootstrap` (done): one server process with a persistent disk, crashes and
   config changes, and responders that may be attackers.
3. `BootstrapProofs` (done): TLAPS proofs of type correctness and of
   PinnedCredentials.
4. `Cluster` (done): three servers recovering from quorum loss, with a
   liveness property under weak fairness, on both revisions of the code.
5. `BootstrapAbstract` (done): the orchestrator's promise of spec section
   4.4. `Bootstrap` refines it as long as `os.Stat` of the stamp does not
   fail, which TLC checks and TLAPS proves. When it fails, TLC shows that
   the refinement breaks (run stamp_stat).
6. `BootstrapRefinement` (done): SingleManagedDriver and StampMeansLoaded
   proved through one inductive invariant `JInv`, which also carries the
   refinement proof.
7. `BootstrapSafety` (done): FetchHasCA proved through `KInv`, which
   strengthens `JInv`.
8. `JoinTokenProofs` (done): both codec invariants proved for strings of
   every length.

Possible next steps: `Cluster` runs with four or five servers, and a
composition in which each cluster server runs the full `Bootstrap` process.

## 3. Modules

### `Bootstrap.tla`

**Constants**
* the registered drivers, as a sequence, and the default driver;
* the tokens, including a malformed subset and the absent token `NoToken`;
* `PinOf`: the CA each token declares, or `NoHash`;
* the responders, and for each one:
  * the CA that signs its certificate (`CertCA`);
  * whether the OS trusts it (`PublicCert`);
  * the bundles it may serve (`BodyOf`);
* `DiskFaults`: whether IsInitialized, MkdirAll, Create and Close may fail.
  A failed Close leaves the stamp file on disk, and the error is fatal.
* `StatFaults`: whether `os.Stat` of the stamp may fail with an error other
  than "does not exist". Line 298 takes any such error for a missing stamp,
  so `StampCheck` then goes on to bootstrap even when the stamp is there.

Hashing is abstracted: a pin is the bundle it hashes, and `validateCACerts`
compares bundles.

**State**
* The disk survives restarts:
  * `dbInit`: the initialized datastores;
  * `stamps`: the raw tokens with a stamp file.
* The process variables: `cfg`, `pc` (the point reached in `Bootstrap` and
  `Start`), `managedDB`, `httpBootstrap`, `shouldBootstrap`, `joining`,
  `cacerts`, `info` (`clientAccessInfo`), and `poll`/`ready`/`tested` for the
  poller.
* Ghost history:
  * `credsTo`: which token's password went to which responder;
  * `loaded`: the tokens whose bootstrap loaded data;
  * `netUsed`: whether this run of the process has contacted the join URL.

**Actions.** There is one action per step of the code:

| Action | Code |
|--------|------|
| `AssignManagedDriver` | `assignManagedDriver` |
| `ShouldBootstrapLoad` | up to the first request |
| `GetCACertsDefault`, `GetCACertsInsecure`, `GetCACertsVerify` | the three requests; they end in `TokenValidated` or `TokenError`, then `StampCheck` |
| `HttpBootstrap`, `StorageBootstrap` | `bootstrap()` |
| `ClusterStart` | `start` and the launch of the poller |
| `Bootstrapped` | `bootstrapped` |
| `TestClusterDB`, `CancelTestClusterDB` | the poller |
| `Stop`, `Restart` | the environment |

Every error return is `Fail`, which sets `pc` to `"failed"`; `Stop` then models
the exit.

### `BootstrapAbstract.tla`

This module states what the orchestrator promises, as the state machine of
spec section 4.4. It shares the disk (`dbInit`, `stamps`), the history
(`loaded`), `cfg` and `managedDB` with `Bootstrap`. Its own variables are:
* `phase`: init, assigned, decided, complete, failed or down;
* `decision`: skip, fetch or load;
* `started`.

The guards carry the promises:
* a driver initialized on disk is kept;
* bootstrap is skipped only in three cases: with a stamp, as the founder of a
  managed cluster, or with an initialized managed datastore;
* fetch is for a managed datastore, load for the others;
* a stamp follows a start of this run that bootstrapped. Writing it may end
  in a fatal StampIOError (spec section 7) with the file already made.

`Bootstrap.tla` ends with the refinement mapping:
* `AbsPhase` maps `pc` to a phase: `assign` is init; `decide`, `ca1`-`ca3`
  are assigned; `fetch` and `load` are decided; `start`, `stamp` and
  `running` are complete.
* `AbsDecision` is read from `pc` and, after the decision, from
  `shouldBootstrap` and `httpBootstrap`.
* `started` is `pc \in {"stamp", "running"}`.

`ImplementsAbstract == Abs!ASpec` is the abstract specification under that
mapping.

### `Cluster.tla`

Servers of one embedded-etcd cluster, each with an initialized member on
disk. `JoinOf` gives each server's join peer (or `NoJoin` for the founder),
and `RevisionOf` gives each server's code revision.

**State:**
* `pc` per server: down, validate, fetch, start, started or running;
* `stamped`: the stamp files;
* `shouldBootstrap` per server;
* a crash counter.

**Actions:**

| Action | Code |
|--------|------|
| `Answer(p)` | what peer `p`'s handlers answer. They are not in this file, so this is modelled from the spec and the comment at lines 277-282 |
| `Launch` | `assignManagedDriver` and the start of `shouldBootstrapLoad` |
| `ValidateToken` | current revision: 200 goes to `Validated` (the stamp check), 503 is bypassed, anything else is `Fail` |
| `ValidateTokenEarlier` | every error is fatal |
| `HttpBootstrap` | fetches from the peer |
| `ClusterStart` | starts listening and writes the stamp if bootstrap ran |
| `TestClusterDB` | completes once a majority of members are started |
| `Crash` | kills a started server, at most `MaxCrashes` times |

### `JoinToken.tla`

Strings are sequences of characters. The model contains:
* `SplitN2`, which is `strings.SplitN(s, sep, 2)` and uses
  `IndexFirstSubSeq` from SequencesExt;
* `ParseToken`, `TokenFormat`, `InfoString` and `ParseUsernamePassword`;
* `SpecDecode`, a declarative decoder written from spec section 4.1.

The actions are `Parse`, which parses the current token, and `PrintInfo`,
which prints the token of an Info, starting from every string of up to
`MaxLen` characters.

### MC modules

* `MCBootstrap.tla` sets up:
  * two drivers;
  * three tokens: T1 pinned to the genuine CA, T2 unpinned, T3 malformed;
  * a genuine responder, with a publicly trusted certificate signed by
    GenuineCA;
  * an attacker, whose certificate is signed by AttackerCA and who serves
    either bundle.
* `MCCluster.tla` sets up servers S1-S3 and three configurations:
  * `FounderJoins`: S1 has no join URL and S2 and S3 join it;
  * `RingJoins`: S1 joins S2, S2 joins S3 and S3 joins S1;
  * revision assignments `MixedRevisions` (S2 earlier), `AllCurrent` and
    `FounderUpgraded` (only S1 current).
* `MCJoinToken.tla` uses:
  * the alphabet `K 1 : a` and prefix `K1`;
  * strings of up to 7 characters;
  * two bundles;
  * usernames and passwords chosen to contain separators.

## 4. Runs

| Run | Expect | Checks | Shows |
|-----|--------|--------|-------|
| bootstrap_safety | pass | TypeOK, PinnedCredentials, SingleManagedDriver, StampMeansLoaded, FetchHasCA | 2,217,456 states in about 20 s, with every filesystem fault, `os.Stat` included. No password of a pinned token reaches a server that the pin does not authenticate, at most one datastore is ever initialized, and every stamp records a load. `httpBootstrap` never runs without the CA bundle validated in the same run. |
| bootstrap_refinement | pass | ImplementsAbstract | 2,123,280 states in about 40 s. `StatFaults` is FALSE; every other filesystem fault is on. Every step is a step of `BootstrapAbstract` or a stutter. |
| stamp_stat | violation | ImplementsAbstract | With `StatFaults` on, a stamped server whose `os.Stat` fails is bootstrapped again at its next start (line 298). Spec section 7 makes a stamp IO error fatal, and section 4.4 bootstraps only without a stamp. |
| token_required | violation | TokenRequired | A managed joiner without a token reaches `Cluster.Start` through the bypass (line 288) or the stamp (line 300). Both return before the missing-token check at line 303, contrary to spec section 7. |
| cluster_recovery | pass | Recovers | With a founder, two joiners (one on the earlier revision) and up to two crashes, every server eventually runs. |
| cluster_earlier | violation | Recovers | With only the founder upgraded, the joiners on the earlier revision treat 503 as fatal and never start. This is the deadlock the comment at lines 277-282 describes. |
| cluster_ring | violation | Recovers | With join URLs in a ring, nobody listens, so every joiner gets a refused connection rather than a 503. The bypass does not apply, and the cluster never recovers, though spec section 4.4 says the bypass breaks the deadlock. |
| stamp_network | violation | NoNetworkWhenStamped | A stamped server contacts the join URL before it checks the stamp, contrary to spec section 8. |
| ready_cancel | violation | ReadyMeansTested | Cancellation closes the readiness channel through the deferred close, contrary to spec section 4.5. |
| token_codec | pass | DecodeAsSpecified, PrintParsesBack | 43,850 states. `parseToken` matches the spec's decoding on every string of up to 7 characters and reads back what `Info.String` prints when the username has no `:`. |
| token_roundtrip | violation | RoundTrip | `Info.String` prints the bundle's hash even when the token declared none. |

**Bounds.**
* Two drivers are enough to show a switch of datastore.
* Three tokens cover pinned, unpinned and malformed.
* Two responders cover honest and hostile.
* Every config field takes all of its values at every restart.
* Three servers are the smallest cluster in which quorum needs a server
  other than the founder. Two crashes let a server that has already started
  die again while the others wait.

The search is exhaustive; the longest behaviours go through several
restarts. Strings of up to 7 characters hold the prefix, both separators and
a character on each side.

**Mutants.** Each property is broken by a plausible code bug:

| Mutant | Breaks |
|--------|--------|
| endpoint checked before the on-disk drivers | SingleManagedDriver |
| endpoint scheme taken without matching a driver | TypeOK |
| CA hash not validated | PinnedCredentials |
| stamp written whether bootstrap ran or not | StampMeansLoaded |
| single colon in `tokenFormat` | DecodeAsSpecified |
| `String` printing the declared hash | PrintParsesBack |
| bypass on 503 without asking IsInitialized (on bootstrap_refinement) | ImplementsAbstract |
| bypass on 503 that goes on to fetch the bootstrap data (`TokenErrorBootstrapOnBypass`) | FetchHasCA |
| 503 fatal as in any other error (`ValidateTokenNoBypass`) | Recovers |

**Fairness.** `Bootstrap` checks no liveness property, and keeps
`CHECK_DEADLOCK` on because a stopped process can always restart.

`Cluster` assumes `WF_vars(Step(s))` for every server `s`. This is justified
for three reasons:
* each server is its own process;
* every request it blocks on returns (refused, 503 or 200);
* the service manager restarts a process that exited with an error.

`Crash` is not fair: the environment may stop crashing, and `MaxCrashes`
bounds it. The cluster cfgs set `CHECK_DEADLOCK FALSE`, because the state in
which all servers run has no further step.

## 5. Proofs (TLAPS)

Every theorem holds for every value of the constants that satisfies the
module's assumption: `BootstrapAssumption` for the Bootstrap proofs,
`JoinTokenAssumption` for the codec. The assumptions only say what the code
guarantees: the separator is a character, the prefix and the CA hashes hold
no `:` (the prefix is `K10` and a hash is hex), and usernames and passwords
are strings.

**`BootstrapProofs.tla`**

* `TypeCorrect`: `Spec => []TypeOK`. It rests on the step lemma `TypeOKStep`,
  which has one case per action, and on `FirstRegisteredIn`.
* `PinnedCredentialsInvariant`: `Spec => []PinnedCredentials`.
  `PinnedCredentials` is not inductive by itself: a fetch step adds a pair
  whose safety depends on the `info` that was accepted earlier. The inductive
  invariant `IInv` adds:
  * `FetchPinned`: a process about to fetch with a pinned token holds exactly
    the pinned bundle, because `TokenValidated` rejected anything else
    (`ValidatedIsPinned`);
  * `DecideNotHttp`: `httpBootstrap` is unset until `shouldBootstrapLoad`
    runs, so the unmanaged branch goes to storage and never to a fetch.

**`BootstrapRefinement.tla`**

* `SingleManagedDriverInvariant` and `StampMeansLoadedInvariant`. Neither
  invariant is inductive alone. The inductive invariant `JInv` adds facts
  about the current run:
  * `IdleUnmanaged`: no driver is chosen before `assignManagedDriver`;
  * `ManagedOnDisk`: a managed driver is the one on disk, if there is one;
  * `HttpPhase` and `LoadPhase`: the requests and the fetch happen only on
    the managed HTTP path, and the load only on the other;
  * `BootstrapPhase`: a bootstrap path has `shouldBootstrap` set;
  * `LoadedBeforeStart`: a start with `shouldBootstrap` follows a load.
* `Refinement`: `ASSUME ~StatFaults PROVE Spec => ImplementsAbstract`.
  `RefInit` maps initial states, and `RefStep` shows that, under `JInv`, each
  of the thirteen actions maps to an abstract step or a stutter. Those two
  combine by PTL with `JInvariant`. The hypothesis is needed, and is exactly
  where the code departs from the spec. With `StatFaults`, the
  `StampCheck` branch that bootstraps a stamped token has no abstract step,
  since `Decide` requires no stamp; run stamp_stat shows it. Every other
  fault stays in the theorem. That includes a failing Close: the stamp
  exists and the process fails, which maps to the failing branch of
  `MarkBootstrapped`.

**`BootstrapSafety.tla`**

* `FetchHasCAInvariant`: `Spec => []FetchHasCA`. A process at the fetch
  holds a CA bundle. The inductive invariant `KInv` is `JInv` plus
  `FetchHasCA`. The only step that enters the fetch is `GetCACertsVerify`,
  after `TokenValidated` stored the fetched bundle. `DecideNotHttp`, part of
  `JInv`, shuts out the unmanaged path.

**`JoinTokenProofs.tla`**

Both theorems hold for strings of every length. The TLC run tries strings of
up to 7 characters only.
* `DecodeAsSpecifiedInvariant`: `Spec => []DecodeAsSpecified`.
* `PrintParsesBackInvariant`: `Spec => []PrintParsesBack`.

The inductive invariant `TInv` says three things:
* the token is a string;
* a printed Info is in `Infos`, and the token is its `InfoString`;
* a parse result is `ParseToken` of the token.

The lemmas describe the operators:
* `SplitFirst` and `SplitNone` say that `SplitN2` splits at the first
  occurrence of the separator, or returns the string whole. They rest on
  `OccursInPrefix`, which relates `SubSeqs` of a prefix to occurrences, and
  on `MinNat`, the least element from `WFMin`, which is what
  `IndexFirstSubSeq` chooses.
* `PrintedBody` takes `tokenFormat` apart.
* `ParsePrinted` says that `parseToken` inverts `tokenFormat` when the hash
  and the username have no `:`.
* `CutIsFirst`, `UserEndIsFirst` and `RestAgree` match the declarative
  `SpecDecode` to that first occurrence.
* `DecodeAgrees` proves `ParseToken(s) = SpecDecode(s)` for every string
  `s`. An untagged string is handled through `ParsePrinted`, since
  `parseToken` wraps it with `tokenFormat`.

No recursion over data is needed. `IndexFirstSubSeq` is defined with
`CHOOSE`, and the least-number principle comes from `WFMin`. `WFMin` takes
sets, not operators, so the provers can instantiate it.

Only model-checked:
* `Recovers`, a liveness property under fairness. TLAPS's provers do not
  handle liveness or `ENABLED`.
* The violated properties of the violation runs. TLC shows a counterexample
  for each.

## 6. Not modelled

* The HTTPS listener, `tlsStorage` and `initClusterDB` (lines 1-95 and
  426-438): wiring of external libraries, with no decision that depends on
  state.
* `WriteClientKubeConfig`: file I/O.
* `ParseAndValidateToken` without a user override: the bootstrap path does
  not call it.
* Of the earlier revision, only `shouldBootstrapLoad`, `httpBootstrap`
  and `bootstrapped` are modelled, in `Cluster`. Its `Bootstrap`,
  `bootstrap` and `bootstrapStamp` are the same as the current ones.
* In `Cluster`, the attacker, the three requests of `getCACerts` and disk
  faults are abstracted away. `Bootstrap` covers them for one process.
* The content of the bootstrap data and of the certificates: abstracted to
  model values.
