------------------------- MODULE ControlPlaneSafety -------------------------
(***************************************************************************)
(* Further safety theorems of the control plane.  They rest on the type    *)
(* invariant of ControlPlaneProofs and on the six kinds of steps there.    *)
(* The last two are about a process in which one updater is alone: without *)
(* that hypothesis the property is not true of the code.                   *)
(***************************************************************************)
EXTENDS ControlPlaneProofs

-----------------------------------------------------------------------------
(* Certificates before the configuration.  While the certificates are      *)
(* being replaced, a TLS listener that is not left to do has the new ones. *)
CertNames == DOMAIN StartCfg.certs
Left == {certsLeft[i] : i \in DOMAIN certsLeft}
Renewed(l) == certs[l] = reading.certs[l]

CertsInv ==
  /\ certs = [l \in CertNames |-> certs[l]] /\ certsLeft \in Seq(CertNames)
  /\ job[Watcher].stage = "loaded" =>
       \A i \in DOMAIN TLSListeners : TLSListeners[i] \in Left \/ Renewed(TLSListeners[i])
  /\ job[Watcher].stage \in {"built", "started", "swapped"} =>
       \A i \in DOMAIN TLSListeners : Renewed(TLSListeners[i])

LEMMA ReplaceStep ==
  ASSUME CertsInv, ReplaceCerts
  PROVE  CertsInv'
<1> DEFINE h == Head(certsLeft)
<1>1. /\ certsLeft \in Seq(CertNames) /\ certsLeft # <<>> /\ job[Watcher].stage = "loaded"
      /\ certs = [l \in CertNames |-> certs[l]]
      /\ certs' = [certs EXCEPT ![h] = reading.certs[h]] /\ certsLeft' = Tail(certsLeft)
      /\ reading' = reading /\ job' = job
  BY DEF CertsInv, ReplaceCerts, store
<1>2. h \in CertNames /\ certsLeft' \in Seq(CertNames) /\ Left = {h} \cup Left'
  <2>1. h = certsLeft[1] /\ Len(certsLeft) \in Nat \ {0} /\ DOMAIN certsLeft = 1 .. Len(certsLeft)
    BY <1>1
  <2>2. certsLeft' \in Seq(CertNames) /\ DOMAIN certsLeft' = 1 .. Len(certsLeft) - 1
        /\ \A i \in 1 .. Len(certsLeft) - 1 : certsLeft'[i] = certsLeft[i + 1]
    BY <1>1
  <2>3. Left \subseteq {h} \cup Left'
    <3> SUFFICES ASSUME NEW i \in 1 .. Len(certsLeft), i # 1 PROVE certsLeft[i] \in Left'
      BY <2>1 DEF Left
    <3>1. i - 1 \in 1 .. Len(certsLeft) - 1 /\ certsLeft'[i - 1] = certsLeft[i]
      BY <2>1, <2>2
    <3> QED BY <2>2, <3>1 DEF Left
  <2>4. {h} \cup Left' \subseteq Left
    BY <2>1, <2>2 DEF Left
  <2>5. h \in CertNames
    BY <1>1, <2>1
  <2> QED BY <2>2, <2>3, <2>4, <2>5
<1> HIDE DEF h
<1>3. certs' = [l \in CertNames |-> certs'[l]] /\ certs'[h] = reading.certs[h]
      /\ \A l \in CertNames \ {h} : certs'[l] = certs[l]
  BY <1>1, <1>2
<1>4. ASSUME NEW i \in DOMAIN TLSListeners
      PROVE  TLSListeners[i] \in Left' \/ Renewed(TLSListeners[i])'
  <2>1. TLSListeners[i] \in CertNames
    BY TLSAssumption DEF CertNames
  <2>2. TLSListeners[i] \in Left \/ Renewed(TLSListeners[i])
    BY <1>1 DEF CertsInv
  <2> QED BY <1>1, <1>2, <1>3, <2>1, <2>2 DEF Renewed
<1> QED BY <1>1, <1>2, <1>3, <1>4 DEF CertsInv

LEMMA StepCerts ==
  ASSUME TypeInv, CertsInv, [Next]_vars
  PROVE  CertsInv'
<1>1. StoreInv /\ Watcher \in Updaters /\ job \in [Updaters -> Job]
  BY UpdaterTypes DEF TypeInv, StoreInv, StoreTypeOK
<1>2. CASE UNCHANGED watcherVars /\ job'[Watcher] = job[Watcher]
  BY <1>2 DEF watcherVars, CertsInv, Left, Renewed
<1>3. CASE Reload
  <2>1. CASE ReadConfig
    <3>1. certs' = certs /\ certsLeft' = TLSListeners /\ job'[Watcher].stage = "loaded"
      BY <1>1, <2>1 DEF ReadConfig, Job
    <3>2. \A i \in DOMAIN TLSListeners : TLSListeners[i] \in Left'
      BY <3>1 DEF Left
    <3> QED BY <3>1, <3>2, TLSAssumption DEF CertsInv, CertNames
  <2>2. CASE ReplaceCerts
    BY <2>2, ReplaceStep
  <2>3. CASE CertsUnreadable \/ BuildFails
    <3>1. Finish(Watcher) /\ certs' = certs /\ certsLeft' = <<>>
      BY <2>3 DEF CertsUnreadable, BuildFails, Abandon
    <3>2. job'[Watcher].stage = "idle"
      BY <1>1, <3>1 DEF Finish, NoJob
    <3> QED BY <3>1, <3>2 DEF CertsInv
  <2>4. CASE \E resolved \in Resolutions(reading) : BuildNew(resolved)
    <3>1. job[Watcher].stage = "loaded" /\ certsLeft = <<>> /\ UNCHANGED watcherVars
          /\ job'[Watcher].stage = "built"
      BY <1>1, <2>4, BuildNewStep, Zenon DEF BuildNew, TypeInv
    <3>2. Left = {}
      BY <3>1 DEF Left
    <3> QED BY <3>1, <3>2 DEF CertsInv, Renewed, watcherVars
  <2>5. CASE StartCheckersOfReload \/ Swap
    <3>1. UNCHANGED watcherVars /\ job[Watcher].stage \in {"built", "started"}
          /\ job'[Watcher].stage \in {"started", "swapped"}
      BY <1>1, <2>5, StartNewStep, SwapInStep DEF StartCheckersOfReload, Swap
    <3> QED BY <3>1 DEF CertsInv, Renewed, watcherVars
  <2>6. CASE StopCheckersOfReload
    <3>1. UNCHANGED <<certs, certsLeft>> /\ job[Watcher].stage = "swapped"
          /\ job'[Watcher].stage \in {"idle", "hung", "swapped"}
          /\ (job'[Watcher].stage = "swapped" => reading' = reading)
      <4>1. StopOld(Watcher) /\ UNCHANGED <<certs, certsLeft>>
            /\ (job'[Watcher] = NoJob \/ reading' = reading)
        BY <2>6 DEF StopCheckersOfReload
      <4>2. job[Watcher].stage = "swapped"
        BY <4>1 DEF StopOld
      <4>3. job'[Watcher].stage \in {"idle", "hung", "swapped"}
        BY <1>1, <4>1, StopOldStep
      <4>4. NoJob.stage = "idle"
        BY DEF NoJob
      <4> QED BY <4>1, <4>2, <4>3, <4>4
    <3> QED BY <3>1 DEF CertsInv, Renewed
  <2> QED BY <1>3, <2>1, <2>2, <2>3, <2>4, <2>5, <2>6 DEF Reload, WatcherStep
<1> QED BY <1>2, <1>3, WatcherAlone

LEMMA InitCerts == Init => CertsInv
<1> SUFFICES ASSUME Init PROVE CertsInv
  OBVIOUS
<1>1. certs = StartCfg.certs /\ certsLeft = <<>>
  BY DEF Init, WatcherInit
<1>2. job[Watcher].stage = "idle"
  BY UpdaterTypes DEF Init, NoJob
<1> QED BY <1>1, <1>2, TLSAssumption DEF CertsInv, CertNames

(* A reload builds and publishes a configuration only when every TLS       *)
(* listener already serves its certificates, although the certificates are *)
(* replaced one listener after the other and the loop may end early.       *)
THEOREM CertificatesFirst == Spec => []CertsBeforePublish
<1>1. CertsInv => CertsBeforePublish
  BY Zenon DEF CertsInv, CertsBeforePublish, Renewed
<1>2. TypeInv /\ CertsInv /\ [Next]_vars => CertsInv'
  BY StepCerts
<1> QED BY AlwaysTypeInv, InitCerts, <1>1, <1>2, PTL DEF Spec

-----------------------------------------------------------------------------
(* Checker.Stop never waits for a goroutine it has not cancelled, as long  *)
(* as no partial update has carried a checker over.  Start is then called  *)
(* once on every checker: what an updater has built and what main has      *)
(* still to start are not running yet, and no two of them have built the   *)
(* same checker.                                                           *)
Fresh(u) == CheckersOf(job[u].new, job[u].scope)

FirstCheckers == IF main = "starting" THEN CheckersOf(held, Pools) ELSE {}

StartedOnce == \A o \in Objects : ctxs[o] > 0 => ctxs[o] = 1 /\ cancel[o]

HangInv ==
  /\ StartedOnce
  /\ \A o \in FirstCheckers : ctxs[o] = 0
  /\ \A u \in Updaters : job[u].stage = "built" =>
       /\ \A o \in Fresh(u) : ctxs[o] = 0 /\ o \notin FirstCheckers
       /\ \A v \in Updaters \ {u} : job[v].stage = "built" => Fresh(u) \cap Fresh(v) = {}
  /\ NobodyHangs

(* A checker that was started once does not hang, and is at rest when Stop *)
(* returns.                                                                *)
LEMMA StopsOnce ==
  ASSUME StoreInv, StartedOnce, NEW o \in Objects
  PROVE  /\ ~Hangs(o)
         /\ StopChecker(o) => /\ StartedOnce' /\ ctxs'[o] = 0
                              /\ \A x \in Objects : ctxs'[x] > 0 => ctxs[x] > 0
                              /\ \A x \in Objects : ctxs[x] = 0 => ctxs'[x] = 0
<1>1. ctxs \in [Objects -> Nat] /\ cancel \in [Objects -> BOOLEAN] /\ (cancel[o] => ctxs[o] > 0)
  BY DEF StoreInv, StoreTypeOK
<1>2. \/ ctxs[o] = 0 /\ ~cancel[o]
      \/ ctxs[o] = 1 /\ cancel[o]
  BY <1>1 DEF StartedOnce
<1>3. ~Hangs(o)
  BY <1>2 DEF Hangs
<1>4. ASSUME StopChecker(o)
      PROVE  /\ ctxs'[o] = 0
             /\ \A x \in Objects \ {o} : ctxs'[x] = ctxs[x] /\ cancel'[x] = cancel[x]
  BY <1>1, <1>2, <1>4 DEF StopChecker
<1>5. ASSUME StopChecker(o) PROVE StartedOnce'
  BY <1>4, <1>5 DEF StartedOnce
<1> QED BY <1>1, <1>3, <1>4, <1>5

(* Starting what is not running.                                           *)
LEMMA StartsOnce ==
  ASSUME StoreInv, StartedOnce, NEW objs \in SUBSET Objects, StartCheckers(objs),
         \A o \in objs : ctxs[o] = 0
  PROVE  /\ StartedOnce'
         /\ \A o \in Objects \ objs : ctxs'[o] = ctxs[o]
<1>1. ctxs \in [Objects -> Nat] /\ cancel \in [Objects -> BOOLEAN]
  BY DEF StoreInv, StoreTypeOK
<1>2. \A o \in Objects : ctxs'[o] = IF o \in objs THEN 1 ELSE ctxs[o]
  BY <1>1 DEF StartCheckers
<1>3. \A o \in Objects : cancel[o] \/ o \in objs => cancel'[o]
  BY Zenon DEF StartCheckers
<1> QED BY <1>2, <1>3 DEF StartedOnce

(* What is built is new: nobody has started it, nobody else refers to it.  *)
LEMMA BuildsFresh ==
  ASSUME TypeInv, TypeInv', HangInv, NEW u \in Updaters, job'[u].stage = "built",
         \A v \in Updaters \ {u} : job'[v] = job[v],
         UNCHANGED <<ctxs, cancel, held, main>>,
         \A p \in job'[u].scope : job'[u].new.checkers[p] # 0 =>
           Unused(p) # {} /\ job'[u].new.checkers[p] = NewGen(p)
  PROVE  HangInv'
<1>1. /\ job[u] \in Job /\ job'[u] \in Job /\ held \in Snapshot
      /\ \A v \in Updaters : job[v] \in Job
  BY Zenon DEF TypeInv, StoreInv, StoreTypeOK
<1>2. ASSUME NEW o \in Fresh(u)'
      PROVE  o[1] \in Pools /\ o = <<o[1], o[2]>> /\ o \in Objects /\ ~InUse(o[1], o[2])
  <2>1. PICK p \in job'[u].scope : job'[u].new.checkers[p] # 0 /\ o = <<p, job'[u].new.checkers[p]>>
    BY <1>2, Zenon DEF Fresh, CheckersOf
  <2>2. p \in Pools
    BY <1>1 DEF Job
  <2>3. NewGen(p) \in Gens /\ ~InUse(p, NewGen(p)) /\ o = <<p, NewGen(p)>>
    BY <2>1, <2>2, NewGenUnused, Zenon
  <2> QED BY <2>2, <2>3 DEF Objects
<1>3. \A o \in Fresh(u)' : ctxs[o] = 0
  <2>1. \A o \in Fresh(u)' : ctxs[o] \in Nat /\ ~(ctxs[o] > 0)
    BY <1>2, Zenon DEF InUse, TypeInv, StoreInv, StoreTypeOK
  <2> QED BY <2>1
<1>4. \A o \in Fresh(u)' : o \notin CheckersOf(held, Pools)
  <2>1. \A o \in Fresh(u)' : o = <<o[1], o[2]>> /\ held.checkers[o[1]] # o[2]
    BY <1>2, Zenon DEF InUse, Refers
  <2>2. \A o \in CheckersOf(held, Pools) : o[2] = held.checkers[o[1]]
    BY DEF CheckersOf
  <2> QED BY <2>1, <2>2, Zenon
<1>5. \A v \in Updaters, o \in Fresh(u)' : o \notin Fresh(v)
  <2>1. \A v \in Updaters, o \in Fresh(u)' : o = <<o[1], o[2]>> /\ job[v].new.checkers[o[1]] # o[2]
    BY <1>2, Zenon DEF InUse, Refers
  <2>2. \A v \in Updaters : \A o \in Fresh(v) : o[2] = job[v].new.checkers[o[1]]
    BY DEF Fresh, CheckersOf
  <2> QED BY <2>1, <2>2, Zenon
<1>6. FirstCheckers' = FirstCheckers
  BY DEF FirstCheckers, CheckersOf
<1>7. \A v \in Updaters \ {u} : Fresh(v)' = Fresh(v)
  BY Zenon DEF Fresh
<1>8. FirstCheckers \subseteq CheckersOf(held, Pools)
  BY DEF FirstCheckers
<1>9. StartedOnce' /\ NobodyHangs'
  BY Zenon DEF HangInv, StartedOnce, NobodyHangs
<1>10. \A v \in Updaters \ {u} : job'[v].stage = "built" =>
         \A o \in Fresh(v)' : ctxs'[o] = 0 /\ o \notin FirstCheckers'
  BY <1>6, <1>7, Zenon DEF HangInv
<1>11. ASSUME NEW v \in Updaters, NEW w \in Updaters \ {v},
              job'[v].stage = "built", job'[w].stage = "built"
       PROVE  Fresh(v)' \cap Fresh(w)' = {}
  <2>1. CASE v = u
    BY <1>5, <1>7, <2>1, Zenon
  <2>2. CASE w = u
    BY <1>5, <1>7, <2>2, Zenon
  <2>3. CASE v # u /\ w # u
    BY <1>7, <1>11, <2>3, Zenon DEF HangInv
  <2> QED BY <2>1, <2>2, <2>3, Zenon
<1>12. \A o \in FirstCheckers' : ctxs'[o] = 0
  BY <1>6 DEF HangInv
<1> QED BY <1>3, <1>4, <1>6, <1>8, <1>9, <1>10, <1>11, <1>12, Zenon DEF HangInv

(* Every step keeps the invariant.                                         *)
LEMMA StepHang ==
  ASSUME TypeInv, TypeInv', HangInv, Kind, kept' = {}
  PROVE  HangInv'
<1>1. /\ StoreInv /\ job \in [Updaters -> Job] /\ \A u \in Updaters : job[u] \in Job
      /\ held \in Snapshot /\ snap \in Snapshot /\ StartedOnce
  BY Zenon DEF TypeInv, StoreInv, StoreTypeOK, HangInv
<1>2. CASE Quiet
  <2>1. /\ StartedOnce' /\ \A x \in Objects : ctxs[x] = 0 => ctxs'[x] = 0
    <3>1. CASE UNCHANGED <<ctxs, cancel>>
      BY <1>1, <3>1, Zenon DEF StartedOnce
    <3>2. CASE \E o \in Objects : StopChecker(o)
      BY <1>1, <3>2, StopsOnce, Zenon
    <3> QED BY <1>2, <3>1, <3>2, Zenon DEF Quiet
  <2>2. NobodyHangs'
    BY <1>1, <1>2, StopsOnce DEF Quiet, HangInv
  <2>3. FirstCheckers' \subseteq FirstCheckers /\ FirstCheckers \subseteq Objects
    <3>1. FirstCheckers \subseteq Objects
      BY <1>1, CheckersAreObjects, Zenon DEF FirstCheckers
    <3>2. main = "starting" => FirstCheckers' = FirstCheckers
      BY <1>2, Zenon DEF Quiet, FirstCheckers, CheckersOf
    <3>3. main # "starting" => FirstCheckers' = {}
      BY <1>2, Zenon DEF Quiet, FirstCheckers
    <3> QED BY <3>1, <3>2, <3>3
  <2>4. \A u \in Updaters : job'[u].stage = "built" =>
          job[u].stage = "built" /\ Fresh(u)' = Fresh(u) /\ Fresh(u) \subseteq Objects
    <3>1. \A u \in Updaters : Fresh(u) \subseteq Objects
      BY <1>1, CheckersAreObjects, Zenon DEF Fresh, Job
    <3>2. \A u \in Updaters : job'[u].stage = "built" => job'[u] = job[u]
      BY <1>2, Zenon DEF Quiet, Holding
    <3> QED BY <3>1, <3>2 DEF Fresh
  <2>5. \A o \in FirstCheckers' : ctxs'[o] = 0
    BY <2>1, <2>3, Zenon DEF HangInv
  <2>6. \A u \in Updaters : job'[u].stage = "built" =>
          \A o \in Fresh(u)' : ctxs'[o] = 0 /\ o \notin FirstCheckers'
    BY <2>1, <2>3, <2>4, Zenon DEF HangInv
  <2>7. \A u \in Updaters : job'[u].stage = "built" =>
          \A v \in Updaters \ {u} : job'[v].stage = "built" => Fresh(u)' \cap Fresh(v)' = {}
    BY <2>4, Zenon DEF HangInv
  <2> QED BY <2>1, <2>2, <2>5, <2>6, <2>7, Zenon DEF HangInv
<1>3. CASE StartUp
  <2>1. /\ main = "starting" /\ main' = "running" /\ job' = job
        /\ StartCheckers(CheckersOf(held, Pools))
    BY <1>3, Zenon DEF StartUp
  <2>2. FirstCheckers = CheckersOf(held, Pools) /\ FirstCheckers' = {} /\ FirstCheckers \subseteq Objects
    BY <1>1, <2>1, CheckersAreObjects, Zenon DEF FirstCheckers
  <2>3. StartedOnce' /\ \A o \in Objects \ FirstCheckers : ctxs'[o] = ctxs[o]
    BY <1>1, <2>1, <2>2, StartsOnce, Zenon DEF HangInv
  <2>4. \A u \in Updaters : Fresh(u)' = Fresh(u) /\ Fresh(u) \subseteq Objects
    BY <1>1, <2>1, CheckersAreObjects, Zenon DEF Fresh, Job
  <2>5. NobodyHangs'
    BY <2>1, Zenon DEF HangInv, NobodyHangs
  <2>6. \A u \in Updaters : job'[u].stage = "built" =>
          \A o \in Fresh(u)' : ctxs'[o] = 0 /\ o \notin FirstCheckers'
    BY <2>1, <2>2, <2>3, <2>4, Zenon DEF HangInv
  <2>7. \A u \in Updaters : job'[u].stage = "built" =>
          \A v \in Updaters \ {u} : job'[v].stage = "built" => Fresh(u)' \cap Fresh(v)' = {}
    BY <2>1, <2>4, Zenon DEF HangInv
  <2> QED BY <2>2, <2>3, <2>5, <2>6, <2>7 DEF HangInv
<1>4. ASSUME NEW u \in Updaters, StartNew(u), UNCHANGED main PROVE HangInv'
  <2>1. /\ job[u].stage = "built" /\ job'[u].stage = "started"
        /\ \A v \in Updaters \ {u} : job'[v] = job[v]
    BY <1>1, <1>4, StartNewStep
  <2>2. StartCheckers(Fresh(u)) /\ UNCHANGED held
    BY <1>4 DEF StartNew, Fresh
  <2>3. \A v \in Updaters : Fresh(v) \subseteq Objects
    BY <1>1, CheckersAreObjects, Zenon DEF Fresh, Job
  <2>4. \A o \in Fresh(u) : ctxs[o] = 0 /\ o \notin FirstCheckers
    BY <2>1, Zenon DEF HangInv
  <2>5. StartedOnce' /\ \A o \in Objects \ Fresh(u) : ctxs'[o] = ctxs[o]
    BY <1>1, <2>2, <2>3, <2>4, StartsOnce, Zenon
  <2>6. FirstCheckers' = FirstCheckers /\ FirstCheckers \subseteq Objects
    BY <1>1, <1>4, <2>2, CheckersAreObjects, Zenon DEF FirstCheckers, CheckersOf
  <2>7. \A v \in Updaters : job'[v].stage = "built" => v # u /\ job[v].stage = "built" /\ Fresh(v)' = Fresh(v)
    BY <2>1, Zenon DEF Fresh
  <2>8. NobodyHangs'
    BY <1>4, <2>1, Zenon DEF HangInv, NobodyHangs
  <2>9. \A v \in Updaters : job'[v].stage = "built" =>
          \A o \in Fresh(v)' : ctxs'[o] = 0 /\ o \notin FirstCheckers'
    <3> SUFFICES ASSUME NEW v \in Updaters, job'[v].stage = "built", NEW o \in Fresh(v)'
                 PROVE  ctxs'[o] = 0 /\ o \notin FirstCheckers'
      BY Zenon
    <3>1. v # u /\ job[v].stage = "built" /\ o \in Fresh(v) /\ o \in Objects
      BY <2>3, <2>7, Zenon
    <3>2. o \notin Fresh(u) /\ ctxs[o] = 0 /\ o \notin FirstCheckers
      BY <2>1, <3>1, Zenon DEF HangInv
    <3> QED BY <2>5, <2>6, <3>1, <3>2, Zenon
  <2>10. \A v \in Updaters : job'[v].stage = "built" =>
           \A w \in Updaters \ {v} : job'[w].stage = "built" => Fresh(v)' \cap Fresh(w)' = {}
    BY <2>7, Zenon DEF HangInv
  <2>11. \A o \in FirstCheckers' : ctxs'[o] = 0
    BY <2>4, <2>5, <2>6, Zenon DEF HangInv
  <2> QED BY <2>5, <2>8, <2>9, <2>10, <2>11, Zenon DEF HangInv
<1>5. ASSUME NEW u \in Updaters, SwapIn(u), UNCHANGED main PROVE HangInv'
  <2>1. job'[u].stage = "swapped" /\ \A v \in Updaters \ {u} : job'[v] = job[v]
    BY <1>1, <1>5, SwapInStep
  <2>2. UNCHANGED <<ctxs, cancel, held>>
    BY <1>5, Zenon DEF SwapIn
  <2>3. FirstCheckers' = FirstCheckers /\ StartedOnce'
    BY <1>1, <1>5, <2>2, Zenon DEF FirstCheckers, CheckersOf, StartedOnce
  <2>4. \A v \in Updaters : job'[v].stage = "built" => job[v].stage = "built" /\ Fresh(v)' = Fresh(v)
    BY <2>1, Zenon DEF Fresh
  <2>5. NobodyHangs'
    BY <1>5, <2>1, Zenon DEF HangInv, NobodyHangs
  <2> QED BY <2>2, <2>3, <2>4, <2>5, Zenon DEF HangInv
<1>6. ASSUME NEW u \in DiscPools \cup Admins, NEW p \in DOMAIN StartCfg.pools, NEW servers \in SUBSET Addrs,
             PartialBuild(u, p, servers), UNCHANGED main
      PROVE  HangInv'
  <2> DEFINE new == UpdatePoolBackends(snap, p, servers, StartCfg.pools[p])
             j == [stage |-> "built", old |-> snap, new |-> new, scope |-> {p}]
  <2>1. /\ u \in Updaters /\ p \in Pools /\ Unused(p) # {} /\ job' = [job EXCEPT ![u] = j]
        /\ UNCHANGED <<ctxs, cancel, held>> /\ WellNamed(snap)
    BY <1>1, <1>6, UpdaterTypes, Zenon DEF PartialBuild, Create, StoreInv
  <2>2. new.checkers[p] \in {0, NewGen(p)}
    BY <1>6, Zenon DEF PartialBuild, Create
  <2> HIDE DEF new
  <2>4. job'[u] = j /\ \A v \in Updaters \ {u} : job'[v] = job[v]
    BY <1>1, <2>1, Zenon
  <2>5. \A q \in job'[u].scope : job'[u].new.checkers[q] # 0 =>
          Unused(q) # {} /\ job'[u].new.checkers[q] = NewGen(q)
    <3>1. job'[u].new = new /\ job'[u].scope = {p}
      BY <2>4
    <3>2. new.checkers[p] # 0 => new.checkers[p] = NewGen(p)
      BY <2>2, Zenon
    <3> QED BY <2>1, <3>1, <3>2, Zenon
  <2> QED BY <1>6, <2>1, <2>4, <2>5, BuildsFresh
<1>7. ASSUME NEW resolved \in Resolutions(reading), BuildNew(resolved), UNCHANGED main
      PROVE  HangInv'
  <2> DEFINE new == BuildSnapshot(reading, resolved, [p \in DOMAIN reading.pools |-> NewGen(p)])
  <2>1. /\ job'[Watcher].stage = "built" /\ job'[Watcher].scope = Pools /\ job'[Watcher].new = new
        /\ \A p \in DOMAIN reading.pools : p \in Pools /\ Unused(p) # {}
        /\ \A v \in Updaters \ {Watcher} : job'[v] = job[v]
    BY <1>1, <1>7, BuildNewStep, Zenon DEF TypeInv
  <2>2. UNCHANGED <<ctxs, cancel, held>>
    BY <1>7, Zenon DEF BuildNew
  <2>3. \A p \in Pools : new.checkers[p] # 0 => p \in DOMAIN reading.pools /\ new.checkers[p] = NewGen(p)
    BY Zenon DEF BuildSnapshot, NewChecker
  <2> HIDE DEF new
  <2> QED BY <1>7, <2>1, <2>2, <2>3, BuildsFresh, UpdaterTypes, Zenon
<1> QED BY <1>2, <1>3, <1>4, <1>5, <1>6, <1>7, Zenon DEF Kind

(* The invariant at the start.                                             *)
LEMMA InitHang == Init => HangInv
<1> SUFFICES ASSUME Init PROVE HangInv
  OBVIOUS
<1>1. /\ ctxs = [o \in Objects |-> 0] /\ main = "starting" /\ job = [u \in Updaters |-> NoJob]
  BY DEF Init
<1>2. TypeInv
  BY InitTypeInv
<1>3. FirstCheckers \subseteq Objects
  BY <1>2, CheckersAreObjects, Zenon DEF FirstCheckers, TypeInv, TypeOK, StoreTypeOK
<1>4. \A u \in Updaters : job[u].stage = "idle"
  BY <1>1 DEF NoJob
<1> QED BY <1>1, <1>3, <1>4 DEF HangInv, StartedOnce, NobodyHangs

(* What has been carried over is not forgotten.                            *)
LEMMA KeptGrows ==
  ASSUME Kind
  PROVE  kept \subseteq kept'
<1>1. ASSUME NEW new, NEW ps, Create(new, ps) PROVE kept \subseteq kept'
  BY <1>1, Zenon DEF Create
<1> QED BY <1>1, Zenon DEF Kind, Quiet, StartUp, StartNew, SwapIn, PartialBuild, BuildNew

(* No call of Checker.Stop waits for ever, whatever updates, reloads and   *)
(* shutdown race, until a partial update of a pool that was started        *)
(* without health checks carries over the checker a reload has given it:   *)
(* nobody calls Start twice on one checker before that, so the cancel      *)
(* function Stop calls is that of the only context the checker has.        *)
THEOREM StopsNeverHang == Spec => []StopNeverHangs
<1> DEFINE Inv == kept = {} => HangInv
<1>1. TypeInv /\ TypeInv' /\ Inv /\ [Next]_vars => Inv'
  <2> SUFFICES ASSUME TypeInv, TypeInv', Inv, [Next]_vars, kept' = {} PROVE HangInv'
    BY Zenon
  <2>1. Kind
    BY StepTypeInv, Zenon
  <2>2. kept = {}
    BY <2>1, KeptGrows, Zenon
  <2> QED BY <2>1, <2>2, StepHang, Zenon
<1>2. Inv => StopNeverHangs
  BY Zenon DEF HangInv, StopNeverHangs
<1>3. Init => Inv
  BY InitHang, Zenon
<1> HIDE DEF Inv
<1> QED BY AlwaysTypeInv, <1>1, <1>2, <1>3, PTL DEF Spec

-----------------------------------------------------------------------------
(* No monitoring gap and no leaked checker, if one updater is alone: the   *)
(* watcher in a process without discovery, or one poller in a process that *)
(* is never reloaded.  It then still holds the published snapshot as its   *)
(* old one when it swaps, the checkers it stops are not the ones it has    *)
(* published, and they are all that were published and are not any more.   *)
LoneUpdater(u) ==
  /\ u \in Updaters
  /\ Admins = {} /\ DiscPools \subseteq {u} /\ (Reloads => u = Watcher)

(* No checker for a pool that was started without health checks: a lone    *)
(* poller gives it none.                                                   *)
Bare(s) == \A p \in DOMAIN StartCfg.pools : ~StartCfg.pools[p].healthCheck => s.checkers[p] = 0

BareInv == Bare(snap) /\ \A u \in Updaters : Holding(u) => Bare(job[u].new)

LEMMA StepBare ==
  ASSUME TypeInv, BareInv, Kind, job[Watcher].stage # "loaded"
  PROVE  BareInv'
<1>1. StoreInv /\ job \in [Updaters -> Job] /\ snap \in Snapshot
  BY Zenon DEF TypeInv, StoreInv, StoreTypeOK
<1>2. CASE Quiet
  BY <1>2, Zenon DEF Quiet, BareInv, Holding, Bare
<1>3. CASE StartUp
  BY <1>3, Zenon DEF StartUp, BareInv, Holding, Bare
<1>4. ASSUME NEW u \in Updaters, StartNew(u) PROVE BareInv'
  <2>1. snap' = snap
    BY <1>4, Zenon DEF StartNew
  <2>2. \A v \in Updaters : job'[v].new = job[v].new /\ (Holding(v)' => Holding(v))
    BY <1>1, <1>4, StartNewStep, Zenon DEF Holding
  <2> QED BY <2>1, <2>2, Zenon DEF BareInv, Bare
<1>5. ASSUME NEW u \in Updaters, SwapIn(u) PROVE BareInv'
  <2>1. snap' = job[u].new /\ Holding(u)
    BY <1>5, Zenon DEF SwapIn, Holding
  <2>2. \A v \in Updaters : Holding(v)' => job'[v].new = job[v].new /\ Holding(v)
    BY <1>1, <1>5, SwapInStep DEF Holding
  <2> QED BY <2>1, <2>2, Zenon DEF BareInv, Bare
<1>6. ASSUME NEW u \in Updaters, NEW p \in DOMAIN StartCfg.pools, NEW servers \in SUBSET Addrs,
             PartialBuild(u, p, servers)
      PROVE  BareInv'
  <2> DEFINE new == UpdatePoolBackends(snap, p, servers, StartCfg.pools[p])
             j == [stage |-> "built", old |-> snap, new |-> new, scope |-> {p}]
  <2>1. p \in Pools /\ job' = [job EXCEPT ![u] = j] /\ UNCHANGED snap
    BY <1>6, UpdaterTypes, Zenon DEF PartialBuild
  <2>2. /\ new.checkers[p] = IF StartCfg.pools[p].healthCheck THEN NewGen(p) ELSE snap.checkers[p]
        /\ \A q \in Pools \ {p} : new.checkers[q] = snap.checkers[q]
    BY <1>1, <2>1, UpdatedCheckers
  <2> HIDE DEF new
  <2>3. Bare(new)
    BY <2>1, <2>2, UpdaterTypes, Zenon DEF BareInv, Bare
  <2>4. job'[u] = j /\ \A v \in Updaters \ {u} : job'[v] = job[v]
    BY <1>1, <2>1, Zenon
  <2>5. job'[u].new = new
    BY <2>4
  <2> HIDE DEF j
  <2>6. Bare(snap)'
    BY <2>1, Zenon DEF BareInv, Bare
  <2>7. ASSUME NEW v \in Updaters, Holding(v)' PROVE Bare(job[v].new)'
    BY <2>3, <2>4, <2>5, <2>7, Zenon DEF BareInv, Bare, Holding
  <2> QED BY <2>6, <2>7, Zenon DEF BareInv
<1> QED BY <1>2, <1>3, <1>4, <1>5, <1>6, UpdaterTypes, Zenon DEF Kind, BuildNew

LEMMA InitBare == Init => BareInv
<1> SUFFICES ASSUME Init PROVE BareInv
  BY Zenon
<1>1. PICK resolved \in Resolutions(StartCfg) :
        snap = BuildSnapshot(StartCfg, resolved, [p \in Pools |-> FirstGen])
  BY Zenon DEF Init
<1>2. Bare(snap)
  BY <1>1, UpdaterTypes, Zenon DEF Bare, BuildSnapshot, NewChecker
<1> QED BY <1>2, Zenon DEF Init, BareInv, Holding, NoJob

(* Then no checker is carried over; nor is one if there are no partial     *)
(* updates at all.                                                         *)
LEMMA NoneKept ==
  ASSUME TypeInv, Kind, kept = {}, BareInv \/ DiscPools \cup Admins = {}
  PROVE  kept' = {}
<1>1. snap \in Snapshot
  BY Zenon DEF TypeInv, StoreInv, StoreTypeOK
<1>2. ASSUME NEW u \in DiscPools \cup Admins, NEW p \in DOMAIN StartCfg.pools, NEW servers,
             PartialBuild(u, p, servers)
      PROVE  kept' = {}
  <2> DEFINE new == UpdatePoolBackends(snap, p, servers, StartCfg.pools[p])
  <2>1. new.checkers[p] = IF StartCfg.pools[p].healthCheck THEN NewGen(p) ELSE snap.checkers[p]
    BY <1>1, UpdaterTypes, UpdatedCheckers
  <2>2. Create(new, {p})
    BY <1>2, Zenon DEF PartialBuild
  <2> HIDE DEF new
  <2>3. new.checkers[p] \in {0, NewGen(p)}
    BY <1>2, <2>1, Zenon DEF BareInv, Bare
  <2> QED BY <2>2, <2>3, Zenon DEF Create
<1>3. ASSUME NEW resolved, BuildNew(resolved) PROVE kept' = {}
  <2> DEFINE new == BuildSnapshot(reading, resolved, [p \in DOMAIN reading.pools |-> NewGen(p)])
  <2>1. Create(new, DOMAIN reading.pools)
    BY <1>3, Zenon DEF BuildNew
  <2>2. \A p \in DOMAIN reading.pools : new.checkers[p] \in {0, NewGen(p)}
    <3>1. DOMAIN reading.pools \subseteq Pools
      BY SnapshotAssumption, Zenon DEF TypeInv, TypeOK, WatcherTypeOK
    <3> QED BY <3>1, Zenon DEF BuildSnapshot, NewChecker
  <2> HIDE DEF new
  <2> QED BY <2>1, <2>2, Zenon DEF Create
<1> QED BY <1>2, <1>3, Zenon DEF Kind, Quiet, StartUp, StartNew, SwapIn

Probing(s) == \A p \in Pools : s.checkers[p] # 0 => ctxs[<<p, s.checkers[p]>>] > 0

Apart(s, t, ps) == \A p \in ps : s.checkers[p] # 0 => s.checkers[p] # t.checkers[p]

(* Where a checker that is probing can be found.                           *)
Known(u, o) ==
  \/ o \in CheckersOf(snap, Pools)
  \/ job[u].stage = "started" /\ o \in CheckersOf(job[u].new, job[u].scope)
  \/ job[u].stage = "swapped" /\ o \in CheckersOf(job[u].old, job[u].scope)

LoneInv(u) ==
  /\ \A v \in Updaters \ {u} : job[v].stage = "idle"
  /\ main = "starting" => job[u].stage = "idle" /\ held = snap
  /\ main = "running" => Probing(snap)
  /\ u = Watcher /\ job[u].stage = "loaded" => job[u].old = snap
  /\ Holding(u) => /\ job[u].old = snap /\ Apart(job[u].new, job[u].old, job[u].scope)
                   /\ \A p \in Pools \ job[u].scope : job[u].new.checkers[p] = job[u].old.checkers[p]
  /\ main = "running" /\ job[u].stage = "started" => Probing(job[u].new)
  /\ job[u].stage = "swapped" => Apart(snap, job[u].old, job[u].scope)
  /\ \A o \in Objects : ctxs[o] > 0 => main # "starting" /\ Known(u, o)

(* The types the following lemmas use.                                     *)
LEMMA LoneTypes ==
  ASSUME TypeInv, NEW u \in Updaters
  PROVE  /\ StoreInv /\ job \in [Updaters -> Job] /\ job[u] \in Job /\ job[u].scope \subseteq Pools
         /\ snap \in Snapshot /\ held \in Snapshot /\ ctxs \in [Objects -> Nat]
         /\ CheckersOf(snap, Pools) \subseteq Objects
         /\ CheckersOf(job[u].new, Pools) \subseteq Objects
         /\ CheckersOf(job[u].new, job[u].scope) \subseteq Objects
         /\ CheckersOf(job[u].old, job[u].scope) \subseteq Objects
<1>1. /\ StoreInv /\ job \in [Updaters -> Job] /\ job[u] \in Job
      /\ snap \in Snapshot /\ held \in Snapshot /\ ctxs \in [Objects -> Nat]
  BY DEF TypeInv, StoreInv, StoreTypeOK
<1>2. job[u].new \in Snapshot /\ job[u].old \in Snapshot /\ job[u].scope \subseteq Pools
  BY <1>1, Zenon DEF Job
<1> QED BY <1>1, <1>2, CheckersAreObjects, Zenon

(* main starts the first checkers.                                         *)
LEMMA LoneStartUp ==
  ASSUME NEW u \in Updaters, TypeInv, LoneInv(u), StartUp
  PROVE  LoneInv(u)'
<1>1. /\ job' = job /\ snap' = snap /\ main = "starting" /\ main' = "running"
      /\ held = snap /\ job[u].stage = "idle"
  BY Zenon DEF StartUp, LoneInv
<1>2. CheckersOf(snap, Pools) \subseteq Objects /\ ctxs \in [Objects -> Nat]
  BY LoneTypes, Zenon
<1>3. \A o \in Objects : /\ o \in CheckersOf(snap, Pools) => ctxs'[o] > 0
                         /\ ctxs'[o] > 0 /\ o \notin CheckersOf(snap, Pools) => ctxs[o] > 0
  <2>1. StartCheckers(CheckersOf(snap, Pools))
    BY <1>1, Zenon DEF StartUp
  <2> QED BY <1>2, <2>1 DEF StartCheckers
<1>4. Probing(snap)'
  BY <1>1, <1>2, <1>3, Zenon DEF Probing, CheckersOf
<1>5. \A o \in Objects : ctxs'[o] > 0 => Known(u, o)'
  BY <1>1, <1>3, Zenon DEF LoneInv, Known
<1> QED BY <1>1, <1>4, <1>5 DEF LoneInv, Holding

(* Steps that leave the snapshots alone and start nothing.                 *)
LEMMA LoneAside ==
  ASSUME NEW u \in Updaters, TypeInv, LoneInv(u), UNCHANGED <<snap, job>>,
         \/ UNCHANGED <<ctxs, held, main>>
         \/ /\ main # "starting" /\ main' \notin {"starting", "running"}
            /\ \A o \in Objects : ctxs'[o] > 0 => ctxs[o] > 0
  PROVE  LoneInv(u)'
<1>1. \A o \in Objects : Known(u, o)' <=> Known(u, o)
  BY Zenon DEF Known
<1>2. \A o \in Objects : ctxs'[o] > 0 => main' # "starting" /\ Known(u, o)'
  BY <1>1 DEF LoneInv
<1>3. main' = "running" => main = "running" /\ ctxs' = ctxs
  OBVIOUS
<1>4. main' = "starting" => main = "starting" /\ held' = held
  BY Zenon
<1> QED BY <1>2, <1>3, <1>4, Zenon DEF LoneInv, Holding, Probing, Apart

(* The updater begins an update, or gives it up before anything is built.  *)
LEMMA LoneLoads ==
  ASSUME NEW u \in Updaters, TypeInv, LoneInv(u), UNCHANGED <<snap, ctxs, main>>,
         main # "starting",
         job[u].stage \in {"idle", "loaded"}, job'[u].stage \in {"idle", "loaded"},
         u = Watcher /\ job'[u].stage = "loaded" => job'[u].old = snap,
         \A v \in Updaters \ {u} : job'[v] = job[v]
  PROVE  LoneInv(u)'
<1>1. \A o \in Objects : ctxs'[o] > 0 => Known(u, o)'
  BY Zenon DEF LoneInv, Known
<1>2. Probing(snap)' <=> Probing(snap)
  BY Zenon DEF Probing
<1> QED BY <1>1, <1>2, Zenon DEF LoneInv, Holding

(* It builds the new snapshot.                                             *)
LEMMA LoneBuilds ==
  ASSUME NEW u \in Updaters, TypeInv, LoneInv(u), UNCHANGED <<snap, ctxs, main>>,
         job[u].stage = "loaded", job'[u].stage = "built", job'[u].old = snap,
         \A p \in job'[u].scope : job'[u].new.checkers[p] # 0 => job'[u].new.checkers[p] # snap.checkers[p],
         \A p \in Pools \ job'[u].scope : job'[u].new.checkers[p] = snap.checkers[p],
         \A v \in Updaters \ {u} : job'[v] = job[v]
  PROVE  LoneInv(u)'
<1>1. \A o \in Objects : ctxs'[o] > 0 => main' # "starting" /\ Known(u, o)'
  BY Zenon DEF LoneInv, Known
<1>2. Probing(snap)' <=> Probing(snap)
  BY Zenon DEF Probing
<1>3. Apart(job[u].new, job[u].old, job[u].scope)'
  BY Zenon DEF Apart
<1>4. main' # "starting"
  BY DEF LoneInv
<1> QED BY <1>1, <1>2, <1>3, <1>4, Zenon DEF LoneInv

(* It starts the new checkers.                                             *)
LEMMA LoneStarts ==
  ASSUME NEW u \in Updaters, TypeInv, LoneInv(u), StartNew(u), UNCHANGED main
  PROVE  LoneInv(u)'
<1> DEFINE j == job[u]
<1>1. /\ j.stage = "built" /\ job'[u].stage = "started"
      /\ job'[u].old = j.old /\ job'[u].new = j.new /\ job'[u].scope = j.scope
      /\ \A v \in Updaters \ {u} : job'[v] = job[v]
  BY LoneTypes, StartNewStep
<1>2. StartCheckers(CheckersOf(j.new, j.scope)) /\ UNCHANGED <<snap, held>>
  BY Zenon DEF StartNew
<1>3. \A o \in Objects : /\ ctxs[o] > 0 => ctxs'[o] > 0
                         /\ o \in CheckersOf(j.new, j.scope) => ctxs'[o] > 0
                         /\ ctxs'[o] > 0 => ctxs[o] > 0 \/ o \in CheckersOf(j.new, j.scope)
  BY <1>2, LoneTypes DEF StartCheckers
<1>4. /\ j.old = snap /\ Apart(j.new, j.old, j.scope) /\ main # "starting"
      /\ \A p \in Pools \ j.scope : j.new.checkers[p] = snap.checkers[p]
  BY <1>1, Zenon DEF LoneInv, Holding
<1>5. \A p \in Pools : /\ snap.checkers[p] # 0 => <<p, snap.checkers[p]>> \in Objects
                       /\ j.new.checkers[p] # 0 => <<p, j.new.checkers[p]>> \in Objects
  BY LoneTypes, Zenon DEF CheckersOf
<1>6. Probing(snap) => Probing(snap)'
  BY <1>2, <1>3, <1>5, Zenon DEF Probing
<1>7. Probing(snap) => Probing(job[u].new)'
  <2> SUFFICES ASSUME Probing(snap), NEW p \in Pools, j.new.checkers[p] # 0
               PROVE  ctxs'[<<p, j.new.checkers[p]>>] > 0
    BY <1>1, Zenon DEF Probing
  <2>1. CASE p \in j.scope
    <3>1. <<p, j.new.checkers[p]>> \in CheckersOf(j.new, j.scope)
      BY <2>1, Zenon DEF CheckersOf
    <3> QED BY <1>3, <1>5, <3>1, Zenon
  <2>2. CASE p \notin j.scope
    BY <1>3, <1>4, <1>5, <2>2 DEF Probing
  <2> QED BY <2>1, <2>2, Zenon
<1>8. \A o \in Objects : ctxs'[o] > 0 => Known(u, o)'
  <2> SUFFICES ASSUME NEW o \in Objects, ctxs'[o] > 0 PROVE Known(u, o)'
    BY Zenon
  <2>1. CASE o \in CheckersOf(j.new, j.scope)
    BY <1>1, <2>1, Zenon DEF Known
  <2>2. CASE ctxs[o] > 0
    BY <1>1, <1>2, <2>2, Zenon DEF Known, LoneInv
  <2> QED BY <1>3, <2>1, <2>2
<1>9. Apart(job[u].new, job[u].old, job[u].scope)'
  BY <1>1, <1>4, Zenon DEF Apart
<1> QED BY <1>1, <1>2, <1>4, <1>6, <1>7, <1>8, <1>9, Zenon DEF LoneInv

(* It publishes.                                                           *)
LEMMA LoneSwaps ==
  ASSUME NEW u \in Updaters, TypeInv, LoneInv(u), SwapIn(u), UNCHANGED main
  PROVE  LoneInv(u)'
<1> DEFINE j == job[u]
<1>1. /\ j.stage = "started" /\ job'[u].stage = "swapped"
      /\ job'[u].old = j.old /\ job'[u].scope = j.scope
      /\ \A v \in Updaters \ {u} : job'[v] = job[v]
  BY LoneTypes, SwapInStep
<1>2. snap' = j.new /\ UNCHANGED <<ctxs, held>>
  BY Zenon DEF SwapIn
<1>3. /\ j.old = snap /\ Apart(j.new, j.old, j.scope) /\ main # "starting"
      /\ \A p \in Pools \ j.scope : j.new.checkers[p] = j.old.checkers[p]
  BY <1>1, Zenon DEF LoneInv, Holding
<1>4. main = "running" => Probing(snap)'
  BY <1>1, <1>2, Zenon DEF LoneInv, Probing
<1>5. Apart(snap, job[u].old, job[u].scope)'
  BY <1>1, <1>2, <1>3, Zenon DEF Apart
<1>6. ASSUME NEW o \in Objects, ctxs'[o] > 0 PROVE Known(u, o)'
  <2>1. o \in CheckersOf(snap, Pools) \/ o \in CheckersOf(j.new, j.scope)
    BY <1>1, <1>2, <1>6, Zenon DEF LoneInv, Known
  <2>2. CASE o \in CheckersOf(j.new, j.scope)
    <3>1. o \in CheckersOf(j.new, Pools)
      BY <2>2, LoneTypes, Zenon DEF CheckersOf
    <3> QED BY <1>2, <3>1, Zenon DEF Known, CheckersOf
  <2>3. ASSUME NEW p \in Pools, snap.checkers[p] # 0, o = <<p, snap.checkers[p]>>
        PROVE  Known(u, o)'
    <3>1. CASE p \in j.scope
      <4>1. o \in CheckersOf(j.old, j.scope)
        BY <1>3, <2>3, <3>1, Zenon DEF CheckersOf
      <4> QED BY <1>1, <4>1, Zenon DEF Known
    <3>2. CASE p \notin j.scope
      <4>1. o \in CheckersOf(j.new, Pools)
        BY <1>3, <2>3, <3>2 DEF CheckersOf
      <4> QED BY <1>2, <4>1, Zenon DEF Known, CheckersOf
    <3> QED BY <3>1, <3>2, Zenon
  <2> QED BY <2>1, <2>2, <2>3, Zenon DEF CheckersOf
<1> QED BY <1>1, <1>3, <1>4, <1>5, <1>6, Zenon DEF LoneInv, Holding

(* It stops the old checkers.                                              *)
LEMMA LoneStops ==
  ASSUME NEW u \in Updaters, TypeInv, HangInv, LoneInv(u), StopOld(u), UNCHANGED main
  PROVE  LoneInv(u)'
<1> DEFINE j == job[u]
           olds == CheckersOf(j.old, j.scope)
<1>1. /\ j.stage = "swapped" /\ UNCHANGED <<snap, held>> /\ main # "starting"
      /\ Apart(snap, j.old, j.scope)
  BY Zenon DEF StopOld, LoneInv
<1>2. /\ job'[u].stage \in {"idle", "hung", "swapped"}
      /\ job'[u].old \in {NoSnap, j.old} /\ job'[u].scope \subseteq j.scope
      /\ \A v \in Updaters \ {u} : job'[v] = job[v]
  BY LoneTypes, StopOldStep, Zenon
<1>3. Apart(snap, job[u].old, job[u].scope)'
  <2>1. \A p \in Pools : NoSnap.checkers[p] = 0
    BY Zenon DEF NoSnap
  <2> QED BY <1>1, <1>2, <2>1, LoneTypes, Zenon DEF Apart
<1>4. \A p \in Pools : snap.checkers[p] # 0 => <<p, snap.checkers[p]>> \in Objects \ olds
  <2>1. \A p \in Pools : snap.checkers[p] # 0 => <<p, snap.checkers[p]>> \in Objects
    BY LoneTypes, Zenon DEF CheckersOf
  <2> QED BY <1>1, <2>1, Zenon DEF Apart, CheckersOf
<1>5. StartedOnce
  BY Zenon DEF HangInv
<1>6. CASE olds = {} /\ Finish(u) /\ UNCHANGED <<ctxs, cancel>>
  <2>1. Probing(snap) => Probing(snap)'
    BY <1>1, <1>6 DEF Probing
  <2>2. \A o \in Objects : ctxs'[o] > 0 => Known(u, o)'
    BY <1>1, <1>6, Zenon DEF Known, LoneInv
  <2> QED BY <1>1, <1>2, <1>3, <2>1, <2>2, Zenon DEF LoneInv, Holding
<1>7. ASSUME NEW o \in olds, StopChecker(o),
             IF Hangs(o) THEN job' = [job EXCEPT ![u].stage = "hung"]
             ELSE IF olds = {o} THEN Finish(u)
             ELSE job' = [job EXCEPT ![u].scope = @ \ {o[1]}]
      PROVE  LoneInv(u)'
  <2>1. o \in Objects
    BY LoneTypes
  <2>2. /\ ~Hangs(o) /\ ctxs'[o] = 0
        /\ \A x \in Objects : ctxs'[x] > 0 => ctxs[x] > 0
    BY <1>5, <1>7, <2>1, StopsOnce, LoneTypes
  <2>3. \A x \in Objects \ {o} : ctxs'[x] = ctxs[x]
    BY <1>7, <2>1, StopCheckerType, LoneTypes, Zenon
  <2>4. Probing(snap) => Probing(snap)'
    BY <1>1, <1>4, <2>3, Zenon DEF Probing
  <2>5. ASSUME NEW x \in Objects, ctxs'[x] > 0 PROVE Known(u, x)'
    <3>1. x # o /\ (x \in CheckersOf(snap, Pools) \/ x \in olds)
      <4>1. x # o /\ ctxs[x] > 0
        BY <2>2, <2>5
      <4>2. Known(u, x)
        BY <4>1, Zenon DEF LoneInv
      <4> QED BY <1>1, <4>1, <4>2, Zenon DEF Known
    <3>2. CASE x \in CheckersOf(snap, Pools)
      BY <1>1, <3>2, Zenon DEF Known
    <3>3. CASE x \in olds
      <4>1. job' = [job EXCEPT ![u].scope = @ \ {o[1]}]
        BY <1>7, <2>2, <3>1, <3>3
      <4> DEFINE k == [j EXCEPT !.scope = @ \ {o[1]}]
      <4>2. job' = [job EXCEPT ![u] = k]
        BY <4>1
      <4>3. k.stage = "swapped" /\ k.old = j.old /\ k.scope = j.scope \ {o[1]}
        BY <1>1, LoneTypes, Zenon DEF Job
      <4> HIDE DEF k
      <4>4. job'[u] = k
        BY <4>2, LoneTypes, Zenon
      <4>5. x \in CheckersOf(j.old, j.scope \ {o[1]})
        BY <3>1, <3>3 DEF CheckersOf
      <4> QED BY <4>3, <4>4, <4>5 DEF Known
    <3> QED BY <3>1, <3>2, <3>3, Zenon
  <2> QED BY <1>1, <1>2, <1>3, <2>4, <2>5, Zenon DEF LoneInv, Holding
<1> QED BY <1>6, <1>7, Zenon DEF StopOld

(* Who can move: main and the environment, which touch no snapshot, and    *)
(* the one updater.                                                        *)
LEMMA LoneMoves ==
  ASSUME NEW u, LoneUpdater(u), TypeInv, HangInv, LoneInv(u), [Next]_vars
  PROVE  \/ StartUp
         \/ /\ UNCHANGED <<snap, job, found>>
            /\ \/ UNCHANGED <<ctxs, held, main>>
               \/ /\ main # "starting" /\ main' \notin {"starting", "running"}
                  /\ \A o \in Objects : ctxs'[o] > 0 => ctxs[o] > 0
         \/ u = Watcher /\ Reload
         \/ u \in DiscPools /\ Polling(u)
<1>1. CASE waitForSignal \/ WatcherStopped \/ AdminClosed \/ PollersStopped
           \/ \E p \in pollersLeft : StopPoller(p)
  BY <1>1, Zenon
     DEF waitForSignal, WatcherStopped, AdminClosed, PollersStopped, StopPoller, store, pollerVars
<1>2. CASE StopLiveCheckers
  <2>1. /\ UNCHANGED <<snap, job, found>> /\ main = "stopCheckers"
        /\ main' \in {"stopCheckers", "closeProxies", "hung"}
    BY <1>2 DEF StopLiveCheckers, pollerVars
  <2>2. UNCHANGED ctxs \/ \E o \in CheckersOf(held, Pools) : StopChecker(o)
    BY <1>2, Zenon DEF StopLiveCheckers
  <2>3. \A o \in CheckersOf(held, Pools) : o \in Objects
    BY CheckersAreObjects DEF TypeInv, StoreInv, StoreTypeOK
  <2>4. \A o \in Objects : ctxs'[o] > 0 => ctxs[o] > 0
    BY <2>2, <2>3, StopsOnce, Zenon DEF HangInv, TypeInv
  <2> QED BY <2>1, <2>4
<1>3. CASE Environment \/ UNCHANGED vars
  BY <1>3, Zenon DEF Environment, SourceChanges, Traffic, vars, store, pollerVars, mainVars
<1>4. CASE Reload
  <2> SUFFICES ASSUME u # Watcher PROVE FALSE
    BY <1>4, Zenon
  <2>1. ~Reloads /\ job[Watcher].stage = "idle"
    BY UpdaterTypes DEF LoneUpdater, LoneInv
  <2> QED BY <1>4, <2>1, Zenon
      DEF Reload, BuildNew, WatcherStep, ReplaceCerts, CertsUnreadable, BuildFails,
          StartCheckersOfReload, StartNew, Swap, SwapIn, StopCheckersOfReload, StopOld
<1>5. CASE \E p \in DiscPools : Polling(p)
  BY <1>5, Zenon DEF LoneUpdater
<1> QED BY <1>1, <1>2, <1>3, <1>4, <1>5, Zenon DEF Next, ShutDown, LoneUpdater

(* Every step of a process with one updater keeps the invariant.           *)
LEMMA StepLone ==
  ASSUME NEW u, LoneUpdater(u), TypeInv, HangInv, LoneInv(u), u = Watcher \/ BareInv, [Next]_vars
  PROVE  LoneInv(u)'
<1>1. u \in Updaters /\ StoreInv /\ job \in [Updaters -> Job] /\ job[u] \in Job
      /\ snap \in Snapshot /\ WellNamed(snap)
  BY LoneTypes, Zenon DEF LoneUpdater, StoreInv
<1>2. ASSUME u = Watcher, Reload PROVE LoneInv(u)'
  <2>1. UNCHANGED main
    BY <1>2, Zenon DEF Reload, mainVars
  <2>2. CASE Reloads /\ main = "running" /\ ReadConfig
    <3> DEFINE j == [job[u] EXCEPT !.stage = "loaded", !.old = snap]
    <3>1. job' = [job EXCEPT ![u] = j] /\ UNCHANGED <<snap, ctxs>> /\ job[u].stage = "idle"
      BY <1>1, <1>2, <2>2, Zenon DEF ReadConfig
    <3>2. j.stage = "loaded" /\ j.old = snap
      BY <1>1 DEF Job
    <3> HIDE DEF j
    <3>3. job'[u] = j /\ \A v \in Updaters \ {u} : job'[v] = job[v]
      BY <1>1, <3>1, Zenon
    <3> QED BY <1>1, <2>1, <2>2, <3>1, <3>2, <3>3, LoneLoads
  <2>3. ASSUME NEW resolved \in Resolutions(reading), BuildNew(resolved) PROVE LoneInv(u)'
    <3> DEFINE new == BuildSnapshot(reading, resolved, [p \in DOMAIN reading.pools |-> NewGen(p)])
    <3>1. /\ job'[u].stage = "built" /\ job'[u].scope = Pools
          /\ job'[u].old = job[u].old /\ job'[u].new = new
          /\ \A p \in DOMAIN reading.pools : p \in Pools /\ Unused(p) # {}
          /\ \A v \in Updaters \ {u} : job'[v] = job[v]
      BY <1>1, <1>2, <2>3, BuildNewStep, Zenon DEF TypeInv
    <3>2. job[u].stage = "loaded" /\ UNCHANGED <<snap, ctxs>>
      BY <1>2, <2>3, Zenon DEF BuildNew
    <3>3. job[u].old = snap
      BY <1>2, <3>2, Zenon DEF LoneInv
    <3>4. \A p \in Pools : new.checkers[p] # 0 => p \in DOMAIN reading.pools /\ new.checkers[p] = NewGen(p)
      BY DEF BuildSnapshot, NewChecker
    <3>5. \A p \in Pools : InUse(p, snap.checkers[p])
      BY Zenon DEF InUse, Refers
    <3> HIDE DEF new
    <3>6. \A p \in Pools : new.checkers[p] # 0 => new.checkers[p] # snap.checkers[p]
      BY <3>1, <3>4, <3>5, NewGenUnused, Zenon
    <3> QED BY <1>1, <2>1, <3>1, <3>2, <3>3, <3>6, LoneBuilds
  <2>4. CASE ReplaceCerts
    BY <1>1, <2>1, <2>4, LoneAside, Zenon DEF ReplaceCerts, store
  <2>5. CASE CertsUnreadable \/ BuildFails
    <3>1. Finish(u) /\ UNCHANGED <<snap, ctxs>> /\ job[u].stage = "loaded"
      BY <1>2, <2>5, Zenon DEF CertsUnreadable, BuildFails, Abandon
    <3>2. job'[u].stage = "idle" /\ \A v \in Updaters \ {u} : job'[v] = job[v]
      BY <1>1, <3>1, FinishStep DEF NoJob
    <3>3. main # "starting"
      BY <3>1, Zenon DEF LoneInv
    <3> QED BY <1>1, <2>1, <3>1, <3>2, <3>3, LoneLoads
  <2>6. CASE StartNew(Watcher)
    BY <1>1, <1>2, <2>1, <2>6, LoneStarts
  <2>7. CASE SwapIn(Watcher)
    BY <1>1, <1>2, <2>1, <2>7, LoneSwaps, Zenon
  <2>8. CASE StopOld(Watcher)
    BY <1>1, <1>2, <2>1, <2>8, LoneStops, Zenon
  <2> QED BY <1>2, <2>2, <2>3, <2>4, <2>5, <2>6, <2>7, <2>8, Zenon
      DEF Reload, WatcherStep, StartCheckersOfReload, Swap, StopCheckersOfReload
<1>3. ASSUME u \in DiscPools, Polling(u) PROVE LoneInv(u)'
  <2>1. UNCHANGED main /\ u # Watcher /\ u \in Pools
    BY <1>3, UpdaterTypes, Zenon DEF Polling, mainVars
  <2>2. CASE main # "starting" /\ Poll(u)
    <3> DEFINE j == [job[u] EXCEPT !.stage = "loaded"]
    <3>1. job' = [job EXCEPT ![u] = j] /\ UNCHANGED <<snap, ctxs>> /\ job[u].stage = "idle"
      BY <2>2 DEF Poll
    <3>2. j.stage = "loaded"
      BY <1>1, Zenon DEF Job
    <3> HIDE DEF j
    <3>3. job'[u] = j /\ \A v \in Updaters \ {u} : job'[v] = job[v]
      BY <1>1, <3>1
    <3> QED BY <1>1, <2>1, <2>2, <3>1, <3>2, <3>3, LoneLoads
  <2>3. CASE Update(u)
    <3> DEFINE new == UpdatePoolBackends(snap, u, found[u], StartCfg.pools[u])
               j == [stage |-> "built", old |-> snap, new |-> new, scope |-> {u}]
    <3>1. /\ job[u].stage = "loaded" /\ Unused(u) # {} /\ job' = [job EXCEPT ![u] = j]
          /\ UNCHANGED <<snap, ctxs>>
      BY <2>3, Zenon DEF Update, Create
    <3>3. /\ new.checkers[u] = IF StartCfg.pools[u].healthCheck THEN NewGen(u) ELSE snap.checkers[u]
          /\ \A q \in Pools \ {u} : new.checkers[q] = snap.checkers[q]
      BY <1>1, <2>1, UpdatedCheckers
    <3>4. ~StartCfg.pools[u].healthCheck => snap.checkers[u] = 0
      BY <1>3, <2>1, UpdaterTypes, Zenon DEF BareInv, Bare
    <3>5. InUse(u, snap.checkers[u])
      BY Zenon DEF InUse, Refers
    <3> HIDE DEF new
    <3>6. new.checkers[u] # 0 => new.checkers[u] # snap.checkers[u]
      BY <2>1, <3>1, <3>3, <3>4, <3>5, NewGenUnused, Zenon
    <3>7. job'[u] = j /\ \A v \in Updaters \ {u} : job'[v] = job[v]
      BY <1>1, <3>1, Zenon
    <3> QED BY <1>1, <2>1, <3>1, <3>3, <3>6, <3>7, LoneBuilds
  <2>4. CASE StartNew(u)
    BY <1>1, <2>1, <2>4, LoneStarts, Zenon
  <2>5. CASE SwapIn(u)
    BY <1>1, <2>1, <2>5, LoneSwaps, Zenon
  <2>6. CASE StopOld(u)
    BY <1>1, <2>1, <2>6, LoneStops, Zenon
  <2> QED BY <1>3, <2>2, <2>3, <2>4, <2>5, <2>6, Zenon DEF Polling, PollerStep
<1> QED BY <1>1, <1>2, <1>3, LoneMoves, LoneStartUp, LoneAside, Zenon

(* The invariant at the start.                                             *)
LEMMA InitLone ==
  ASSUME NEW u \in Updaters, Init
  PROVE  LoneInv(u)
<1>1. /\ job = [v \in Updaters |-> NoJob] /\ main = "starting" /\ held = snap
      /\ ctxs = [o \in Objects |-> 0]
  BY Zenon DEF Init
<1>2. \A v \in Updaters : job[v].stage = "idle"
  BY <1>1 DEF NoJob
<1> QED BY <1>1, <1>2 DEF LoneInv, Holding

(* All the invariants that hold with a lone updater.                       *)
AllLone(u) == kept = {} /\ HangInv /\ LoneInv(u) /\ (u = Watcher \/ BareInv)

(* They hold in every reachable state.                                     *)
LEMMA AlwaysLone ==
  ASSUME NEW CONSTANT u, LoneUpdater(u)
  PROVE  Spec => []AllLone(u)
<1>1. Init => AllLone(u)
  BY InitHang, InitLone, InitBare, Zenon DEF AllLone, LoneUpdater, Init
<1>2. TypeInv /\ AllLone(u) /\ [Next]_vars => AllLone(u)'
  <2> SUFFICES ASSUME TypeInv, AllLone(u), [Next]_vars PROVE AllLone(u)'
    OBVIOUS
  <2>1. TypeInv' /\ Kind
    BY StepTypeInv, Zenon
  <2>2. LoneInv(u)'
    BY StepLone, Zenon DEF AllLone
  <2>3. u = Watcher => DiscPools \cup Admins = {}
    BY UpdaterTypes, Zenon DEF LoneUpdater
  <2>4. kept' = {}
    BY <2>1, <2>3, NoneKept, Zenon DEF AllLone
  <2>5. HangInv'
    BY <2>1, <2>4, StepHang, Zenon DEF AllLone
  <2>6. u = Watcher \/ BareInv'
    <3>1. u # Watcher => job[Watcher].stage # "loaded"
      BY UpdaterTypes, Zenon DEF AllLone, LoneInv
    <3> QED BY <2>1, <3>1, StepBare, Zenon DEF AllLone
  <2> QED BY <2>2, <2>4, <2>5, <2>6, Zenon DEF AllLone
<1> QED BY AlwaysTypeInv, <1>1, <1>2, PTL DEF Spec

(* With one updater, every published checker is probing while the process  *)
(* runs, whatever reloads, failed reloads, polls and edits happen: the new *)
(* checkers are started before the swap and only checkers that are no      *)
(* longer published are stopped.                                           *)
THEOREM LoneUpdaterLeavesNoGap == \A u : LoneUpdater(u) => (Spec => []NoMonitoringGap)
<1> SUFFICES ASSUME NEW CONSTANT u, LoneUpdater(u) PROVE Spec => []NoMonitoringGap
  BY Zenon
<1>1. AllLone(u) => NoMonitoringGap
  BY Zenon DEF AllLone, LoneInv, Probing, NoMonitoringGap, CheckersOf
<1> QED BY AlwaysLone, <1>1, PTL

(* With one updater, every checker that is probing is published, or about  *)
(* to be published, or about to be stopped: each update stops all the      *)
(* checkers it has replaced, and those it has not replaced it publishes    *)
(* again.                                                                  *)
THEOREM LoneUpdaterLeaksNothing == \A u : LoneUpdater(u) => (Spec => []NoLeakedChecker)
<1> SUFFICES ASSUME NEW CONSTANT u, LoneUpdater(u) PROVE Spec => []NoLeakedChecker
  OBVIOUS
<1>1. AllLone(u) => NoLeakedChecker
  BY DEF AllLone, LoneInv, Known, NoLeakedChecker, LoneUpdater
<1> QED BY AlwaysLone, <1>1, PTL

=============================================================================
