--------------------------- MODULE BootstrapAbstract ---------------------------
(***************************************************************************)
(* What the bootstrap orchestrator of a server promises, as the state      *)
(* machine of spec section 4.4: Init -> DriverAssigned -> a decision to    *)
(* skip, fetch over HTTP or load from storage -> Complete, with Failed      *)
(* reachable from every state, across restarts that keep the disk.         *)
(*                                                                         *)
(* The promises are in the guards: a driver initialized on disk is kept;   *)
(* bootstrap is skipped only with a stamp for the raw token, as the         *)
(* founder of a managed cluster, or with an initialized managed datastore; *)
(* HTTP fetch is for managed datastores, storage load for the others; the  *)
(* stamp is written after the datastore started, and only if bootstrap     *)
(* data was loaded in this run.                                            *)
(***************************************************************************)
CONSTANTS Drivers, Configs, NoURL, None

VARIABLES
  dbInit,     \* disk: initialized managed datastores
  stamps,     \* disk: raw tokens with a stamp
  loaded,     \* history: raw tokens with which bootstrap data was loaded
  cfg,        \* the configuration of the current run
  managedDB,  \* the driver chosen in this run, or None
  phase,      \* the state of section 4.4
  decision,   \* what DecisionMade chose
  started     \* the datastore of this run was started
avars == <<dbInit, stamps, loaded, cfg, managedDB, phase, decision, started>>

AInit ==
  /\ dbInit = {} /\ stamps = {} /\ loaded = {}
  /\ cfg \in Configs
  /\ managedDB = None
  /\ phase = "init"
  /\ decision = "none"
  /\ started = FALSE

(* DriverAssigned: a driver initialized on disk takes priority.           *)
AssignDriver ==
  /\ phase = "init"
  /\ managedDB' \in IF Drivers \cap dbInit # {} THEN Drivers \cap dbInit
                    ELSE Drivers \cup {None}
  /\ phase' = "assigned"
  /\ UNCHANGED <<dbInit, stamps, loaded, cfg, decision, started>>

(* DecisionMade: skip, only when it is justified.                         *)
Skip ==
  /\ phase = "assigned"
  /\ \/ cfg.token \in stamps
     \/ managedDB # None /\ cfg.joinURL = NoURL
     \/ managedDB \in dbInit
  /\ phase' = "complete"
  /\ decision' = "skip"
  /\ UNCHANGED <<dbInit, stamps, loaded, cfg, managedDB, started>>

(* DecisionMade: bootstrap, over HTTP for a managed datastore and from    *)
(* storage otherwise, only without a stamp for the token.                 *)
Decide ==
  /\ phase = "assigned"
  /\ cfg.token \notin stamps
  /\ decision' = IF managedDB # None THEN "fetch" ELSE "load"
  /\ phase' = "decided"
  /\ UNCHANGED <<dbInit, stamps, loaded, cfg, managedDB, started>>

(* The bootstrap data is loaded.                                          *)
Load ==
  /\ phase = "decided"
  /\ loaded' = loaded \cup {cfg.token}
  /\ phase' = "complete"
  /\ UNCHANGED <<dbInit, stamps, cfg, managedDB, decision, started>>

(* The datastore is started; a managed one is initialized from now on.    *)
StartDatastore ==
  /\ phase = "complete"
  /\ ~started
  /\ started' = TRUE
  /\ dbInit' = IF managedDB = None THEN dbInit ELSE dbInit \cup {managedDB}
  /\ UNCHANGED <<stamps, loaded, cfg, managedDB, phase, decision>>

(* MarkBootstrapped: the stamp records a bootstrap of this run.  Its     *)
(* creation may still end in a StampIOError (section 7), which is fatal;  *)
(* the marker's content is irrelevant, so it may exist all the same.      *)
MarkBootstrapped ==
  /\ started
  /\ decision \in {"fetch", "load"}
  /\ stamps' = stamps \cup {cfg.token}
  /\ \/ UNCHANGED <<phase, decision, started>>
     \/ phase' = "failed" /\ decision' = "none" /\ started' = FALSE
  /\ UNCHANGED <<dbInit, loaded, cfg, managedDB>>

AFail ==
  /\ phase \notin {"down", "failed"}
  /\ phase' = "failed"
  /\ decision' = "none"
  /\ started' = FALSE
  /\ UNCHANGED <<dbInit, stamps, loaded, cfg, managedDB>>

AStop ==
  /\ phase # "down"
  /\ phase' = "down"
  /\ managedDB' = None
  /\ decision' = "none"
  /\ started' = FALSE
  /\ UNCHANGED <<dbInit, stamps, loaded, cfg>>

ARestart ==
  /\ phase = "down"
  /\ cfg' \in Configs
  /\ phase' = "init"
  /\ UNCHANGED <<dbInit, stamps, loaded, managedDB, decision, started>>

ANext ==
  \/ AssignDriver \/ Skip \/ Decide \/ Load \/ StartDatastore
  \/ MarkBootstrapped \/ AFail \/ AStop \/ ARestart

ASpec == AInit /\ [][ANext]_avars

=============================================================================
