---------------------------- MODULE ConfigWatcher ----------------------------
(***************************************************************************)
(* The config watcher (internal/reload/watcher.go).  checkAndReload runs   *)
(* on every tick and on every SIGHUP.  A file that cannot be read, parsed  *)
(* or validated ends it before anything is touched (a stuttering step).    *)
(* Somebody may write the file at any time, so that each reload finds any  *)
(* one of the valid configurations in it.                                  *)
(***************************************************************************)
EXTENDS PoolSnapshots, Sequences

CONSTANTS
  Reloads,      \* whether ticks and SIGHUPs happen at all (a bound)
  TLSListeners  \* the TLS-terminate listeners, in the order of the file

(* Every TLS-terminate listener got its CertStore at start-up.             *)
ASSUME TLSAssumption ==
  /\ StartCfg.certs = [l \in DOMAIN StartCfg.certs |-> StartCfg.certs[l]]
  /\ TLSListeners \in Seq(DOMAIN StartCfg.certs)

VARIABLES
  certs,     \* per TLS listener: the certificates its CertStore serves
  reading,   \* the configuration the watcher is applying
  certsLeft  \* the TLS listeners whose certificates are still to be loaded

watcherVars == <<certs, reading, certsLeft>>

WatcherTypeOK == reading \in Configs

WatcherInit ==
  /\ certs = StartCfg.certs
  /\ reading = StartCfg
  /\ certsLeft = <<>>

(* DiffListeners over two fingerprint sets: the same number, every new one *)
(* known by name and with the same address, protocol and TLS mode.         *)
DiffListeners(old, new) ==
  /\ Cardinality(old) = Cardinality(new)
  /\ \A nf \in new : \E of \in old : of.name = nf.name
  /\ \A nf \in new : \A of \in old :
       of.name = nf.name => /\ of.address = nf.address
                            /\ of.protocol = nf.protocol
                            /\ of.tlsMode = nf.tlsMode
  /\ \A of \in old : \E nf \in new : nf.name = of.name

(* A plausible slip: the listeners are not compared.                       *)
ReadConfigNoDiff ==
  /\ job[Watcher].stage = "idle"
  /\ job' = [job EXCEPT ![Watcher].stage = "loaded", ![Watcher].old = snap]
  /\ reading' \in Configs
  /\ certsLeft' = TLSListeners
  /\ UNCHANGED <<snap, held, ctxs, cancel, populated, kept, draining, series, started, certs>>

(* checkAndReload up to the comparison of the listeners: what the file     *)
(* holds at this moment is any valid configuration.                        *)
ReadConfig ==
  /\ job[Watcher].stage = "idle"
  /\ job' = [job EXCEPT ![Watcher].stage = "loaded", ![Watcher].old = snap]
  /\ reading' \in Configs
  /\ DiffListeners(snap.listeners, reading'.listeners)
  /\ certsLeft' = TLSListeners
  /\ UNCHANGED <<snap, held, ctxs, cancel, populated, kept, draining, series, started, certs>>

(* The next TLS listener's certificates are loaded and put in its store.   *)
ReplaceCerts ==
  /\ job[Watcher].stage = "loaded" /\ certsLeft # <<>>
  /\ certs' = [certs EXCEPT ![Head(certsLeft)] = reading.certs[Head(certsLeft)]]
  /\ certsLeft' = Tail(certsLeft)
  /\ UNCHANGED <<store, reading>>

Abandon ==
  /\ Finish(Watcher)
  /\ certsLeft' = <<>> /\ reading' = StartCfg
  /\ UNCHANGED <<snap, held, ctxs, cancel, populated, kept, draining, series, started, certs>>

(* A plausible slip: a listener whose certificates cannot be loaded is     *)
(* passed over.                                                            *)
CertsPassedOver ==
  /\ job[Watcher].stage = "loaded" /\ certsLeft # <<>>
  /\ certsLeft' = Tail(certsLeft)
  /\ UNCHANGED <<store, certs, reading>>

(* A certificate file cannot be loaded: the reload ends here.              *)
CertsUnreadable ==
  /\ job[Watcher].stage = "loaded" /\ certsLeft # <<>>
  /\ Abandon

(* BuildSnapshot makes an adapter for each discovery-driven pool and loads *)
(* the certificates once more, and fails if it cannot.                     *)
BuildFails ==
  /\ job[Watcher].stage = "loaded" /\ certsLeft = <<>>
  /\ \/ TLSListeners # <<>>
     \/ \E p \in DOMAIN reading.pools : reading.pools[p].discovery
  /\ Abandon

(* BuildSnapshot with what discovery resolves to now, and the metric       *)
(* cleanup.  The checkers of all the pools are in the reload's scope.      *)
BuildNew(resolved) ==
  LET new == BuildSnapshot(reading, resolved, [p \in DOMAIN reading.pools |-> NewGen(p)]) IN
  /\ job[Watcher].stage = "loaded" /\ certsLeft = <<>>
  /\ Create(new, DOMAIN reading.pools)
  /\ job' = [job EXCEPT ![Watcher] = [stage |-> "built", old |-> @.old, new |-> new,
                                      scope |-> Pools]]
  /\ series' = CleanupRemovedBackends(job[Watcher].old, new)
  /\ UNCHANGED <<snap, held, ctxs, cancel, watcherVars>>

StartCheckersOfReload == StartNew(Watcher) /\ UNCHANGED watcherVars

Swap == SwapIn(Watcher) /\ UNCHANGED watcherVars

StopCheckersOfReload ==
  /\ StopOld(Watcher)
  /\ IF job'[Watcher] = NoJob
       THEN reading' = StartCfg
       ELSE UNCHANGED reading
  /\ UNCHANGED <<certs, certsLeft>>

WatcherStep ==
  \/ ReplaceCerts \/ CertsUnreadable \/ BuildFails
  \/ StartCheckersOfReload \/ Swap \/ StopCheckersOfReload

=============================================================================
