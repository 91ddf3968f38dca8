--------------------------- MODULE EcosystemProofs ---------------------------
(* A dogu is started only with its mandatory dependencies, direct or not, for *)
(* any number of dogus and versions, any dependencies, edits and faults.      *)
EXTENDS Ecosystem, FiniteSetTheorems, TLAPS

USE DEF user, cluster, status, process, Environment

\* The mandatory dependencies of d are installed in versions d allows, and what
\* they depend on is installed.
DependenciesMet(d) ==
    /\ \A e \in sc.mandatory[d] \ Skipped :
           registered[e] # 0 /\ registered[e] \in sc.allows[d][e]
    /\ \A e \in Closure(sc, d) \ {d} : registered[e] # 0

\* The steps behind the validation up to the last write of the deployment
Validated == {"register", "deployment", "startStop", "updateVersion",
              "upgradeRegister", "regenerate"}

\* What ValidationStep has found still holds: only the dogu of the pass is
\* registered meanwhile, and it does not depend on itself.
EcosystemInv ==
    /\ TypeOK
    /\ worker.at \in Validated /\ ~spec[worker.dogu].stopped =>
           DependenciesMet(worker.dogu)

\* The worker is idle at the start: only the shape of the state is to show.
LEMMA EcosystemInit == Init => EcosystemInv
<1> SUFFICES ASSUME Init PROVE EcosystemInv
  OBVIOUS
<1> USE EcosystemAssumption DEF Init
<1>1. sc \in Scenarios /\ sc \in ScenarioType
  OBVIOUS
<1>2. worker.at = "idle" /\ worker \in [at : Steps \cup Outcomes \cup {"idle"}, dogu : Dogus]
  BY DEF Idle
<1>3. /\ spec \in [Dogus -> [version : Versions \cup {0}, stopped : BOOLEAN]]
      /\ edits \in [spec : Nat, config : Nat]
      /\ registered \in [Dogus -> Versions \cup {0}]
  BY <1>1 DEF NoSpec, ScenarioType
<1>4. /\ deployment \in [Dogus -> [label : Versions \cup {0},
                                   restarted : BOOLEAN, replicas : {0, 1}]]
      /\ pod \in [Dogus -> Pods]
  BY Zenon DEF NoDeployment, NoPod, Pods
<1>5. /\ health \in [Dogus -> {"none", "available", "unavailable", "unknown"}]
      /\ entry \in [Dogus -> {"none", "empty", "ready"}]
      /\ ready \in [Dogus -> {"true", "false", "unknown"}]
  OBVIOUS
<1>6. queue \subseteq Dogus /\ faults \in 0..sc.faults
  BY <1>1 DEF ScenarioType
<1> QED BY <1>1, <1>2, <1>3, <1>4, <1>5, <1>6, Zenon DEF EcosystemInv, TypeOK, Validated

Deployments == [label : Versions \cup {0}, restarted : BOOLEAN, replicas : {0, 1}]

\* A deployment that a step generates has its shape.
LEMMA GeneratedDeployment ==
    ASSUME TypeOK
    PROVE  /\ worker.dogu \in Dogus
           /\ ReplicasFor(worker.dogu) \in {0, 1}
           /\ [label |-> spec[worker.dogu].version, restarted |-> FALSE,
               replicas |-> ReplicasFor(worker.dogu)] \in Deployments
BY DEF TypeOK, ReplicasFor, Deployments

\* Writing a deployment of the right shape keeps the shape.
LEMMA WrittenDeployment ==
    ASSUME TypeOK, NEW d \in Dogus, NEW new \in Deployments, WriteDeployment(d, new)
    PROVE  deployment' \in [Dogus -> Deployments] /\ queue' \subseteq Dogus
BY DEF TypeOK, WriteDeployment, Deployments

\* Writing a config makes a pod of a pod.
LEMMA WrittenConfig ==
    ASSUME NEW p \in Pods, NEW q \in ConfigWritten(p)
    PROVE  q \in Pods
<1>1. PICK later \in BOOLEAN : q = [p EXCEPT !.current = FALSE, !.outdated = later]
  <2>1. p.outdated \in BOOLEAN
    BY DEF Pods
  <2> QED BY <2>1, Zenon DEF ConfigWritten
<1> QED BY <1>1, Zenon DEF Pods

\* A pod stays one when a field changes.
LEMMA PodChanged ==
    ASSUME NEW p \in Pods
    PROVE  /\ [p EXCEPT !.phase = "terminating"] \in Pods
           /\ [p EXCEPT !.phase = "running", !.current = TRUE] \in Pods
           /\ [p EXCEPT !.restarted = IF @ = "yes" THEN "earlier" ELSE @] \in Pods
BY Zenon DEF Pods

\* A deployment stays one when a restart annotates it.
LEMMA DeploymentChanged ==
    ASSUME NEW p \in Deployments
    PROVE  [p EXCEPT !.restarted = TRUE] \in Deployments
BY Zenon DEF Deployments

\* A deployment stays one when it is scaled.
LEMMA DeploymentScaled ==
    ASSUME NEW p \in Deployments, NEW n \in {0, 1}
    PROVE  [p EXCEPT !.replicas = n] \in Deployments
BY DEF Deployments

\* Counting an edit down keeps the counters natural numbers.
LEMMA EditCounted ==
    ASSUME NEW e \in [spec : Nat, config : Nat]
    PROVE  /\ e.config > 0 =>
                 [e EXCEPT !.config = @ - 1] \in [spec : Nat, config : Nat]
           /\ e.spec > 0 =>
                 [e EXCEPT !.spec = @ - 1] \in [spec : Nat, config : Nat]
OBVIOUS

\* A function keeps its range when one value is replaced by another of it.
LEMMA ReplacedValue ==
    ASSUME NEW S, NEW T, NEW f \in [S -> T], NEW x \in S, NEW v \in T
    PROVE  [f EXCEPT ![x] = v] \in [S -> T]
OBVIOUS

\* Every step keeps the shape of the state.
LEMMA EcosystemTypeStep ==
    ASSUME TypeOK, [Next]_vars
    PROVE  TypeOK'
<1> USE EcosystemAssumption DEF TypeOK, Steps, Outcomes, At, Goto
<1> USE DEF Deployments
<1>0. sc.faults \in Nat /\ (faults < sc.faults => faults + 1 \in 0..sc.faults)
  BY DEF ScenarioType
<1>1. CASE UNCHANGED vars
  BY <1>1 DEF vars
<1>2. ASSUME NEW d \in Dogus, StartPass(d) PROVE TypeOK'
  BY <1>2 DEF StartPass
<1>3. CASE HealthCheck
  <2>1. /\ health' \in [Dogus -> {"none", "available", "unavailable", "unknown"}]
        /\ worker' \in [at : Steps \cup Outcomes \cup {"idle"}, dogu : Dogus]
    BY <1>3, Zenon DEF HealthCheck
  <2>2. UpdateHealthConfigMap(worker.dogu) \subseteq {"none", "empty", "ready"}
    BY DEF UpdateHealthConfigMap, Pods
  <2>3. entry' \in [Dogus -> {"none", "empty", "ready"}]
    <3>1. \/ entry' = entry
          \/ \E state \in UpdateHealthConfigMap(worker.dogu) :
                 entry' = [entry EXCEPT ![worker.dogu] = state]
      BY <1>3, Zenon DEF HealthCheck
    <3>2. entry \in [Dogus -> {"none", "empty", "ready"}] /\ worker.dogu \in Dogus
      OBVIOUS
    <3>3. ASSUME NEW state \in {"none", "empty", "ready"}
          PROVE  [entry EXCEPT ![worker.dogu] = state]
                     \in [Dogus -> {"none", "empty", "ready"}]
      BY <3>2, ReplacedValue, Zenon
    <3>4. ASSUME NEW state \in UpdateHealthConfigMap(worker.dogu),
                 entry' = [entry EXCEPT ![worker.dogu] = state]
          PROVE  entry' \in [Dogus -> {"none", "empty", "ready"}]
      <4>1. state \in {"none", "empty", "ready"}
        BY <2>2, Zenon
      <4> QED BY <3>3, <3>4, <4>1, Zenon
    <3> QED BY <3>1, <3>2, <3>4, Zenon
  <2> QED BY <1>3, <2>1, <2>3 DEF HealthCheck
<1>4. CASE Validation
  BY <1>4, Zenon DEF Validation
<1>5. CASE RegisterDoguVersion
  BY <1>5, Zenon DEF RegisterDoguVersion
<1>6. CASE CreateDeployment
  <2>1. deployment' \in [Dogus -> Deployments] /\ queue' \subseteq Dogus
    BY <1>6, GeneratedDeployment, WrittenDeployment, Zenon DEF CreateDeployment
  <2>2. worker' \in [at : Steps \cup Outcomes \cup {"idle"}, dogu : Dogus]
    BY <1>6, Zenon DEF CreateDeployment
  <2> QED BY <1>6, <2>1, <2>2 DEF CreateDeployment
<1>7. CASE StartStop
  <2>1. deployment' \in [Dogus -> Deployments] /\ queue' \subseteq Dogus
    <3> DEFINE new == [deployment[worker.dogu] EXCEPT !.replicas =
                           ReplicasFor(worker.dogu)]
    <3>1. new \in Deployments
      <4>1. deployment[worker.dogu] \in Deployments
        OBVIOUS
      <4> QED BY <4>1, GeneratedDeployment, DeploymentScaled, Zenon
    <3>2. UNCHANGED <<deployment, queue>> \/ WriteDeployment(worker.dogu, new)
      BY <1>7, Zenon DEF StartStop
    <3> HIDE DEF new
    <3>3. CASE WriteDeployment(worker.dogu, new)
      BY <3>1, <3>3, GeneratedDeployment, WrittenDeployment, Zenon
    <3> QED BY <3>2, <3>3
  <2>2. worker' \in [at : Steps \cup Outcomes \cup {"idle"}, dogu : Dogus]
    BY <1>7, Zenon DEF StartStop
  <2> QED BY <1>7, <2>1, <2>2 DEF StartStop
<1>8. CASE UpdateDeploymentVersion
  <2>1. deployment' \in [Dogus -> Deployments] /\ queue' \subseteq Dogus
    BY <1>8, GeneratedDeployment, WrittenDeployment, Zenon DEF UpdateDeploymentVersion
  <2>2. worker' \in [at : Steps \cup Outcomes \cup {"idle"}, dogu : Dogus]
    BY <1>8, Zenon DEF UpdateDeploymentVersion
  <2> QED BY <1>8, <2>1, <2>2 DEF UpdateDeploymentVersion
<1>9. CASE UpgradeRegisterDoguVersion
  BY <1>9, Zenon DEF UpgradeRegisterDoguVersion
<1>10. CASE RegenerateDeployment
  <2>1. deployment' \in [Dogus -> Deployments] /\ queue' \subseteq Dogus
    BY <1>10, GeneratedDeployment, WrittenDeployment, Zenon DEF RegenerateDeployment
  <2>2. worker' \in [at : Steps \cup Outcomes \cup {"idle"}, dogu : Dogus]
    BY <1>10, Zenon DEF RegenerateDeployment
  <2> QED BY <1>10, <2>1, <2>2 DEF RegenerateDeployment
<1>11. CASE UpdateStartedAt
  BY <1>11, Zenon DEF UpdateStartedAt
<1>12. CASE RestartAfterConfigChange
  <2>1. [deployment[worker.dogu] EXCEPT !.restarted = TRUE] \in Deployments
    <3>1. deployment[worker.dogu] \in Deployments
      OBVIOUS
    <3> QED BY <3>1, DeploymentChanged
  <2>2. deployment' \in [Dogus -> Deployments] /\ queue' \subseteq Dogus
    BY <1>12, <2>1, WrittenDeployment DEF RestartAfterConfigChange
  <2>3. pod' \in [Dogus -> Pods]
    <3>1. pod[worker.dogu] \in Pods
      OBVIOUS
    <3>2. CASE UNCHANGED pod
      BY <3>2
    <3>3. CASE pod' = [pod EXCEPT ![worker.dogu].restarted =
                           IF @ = "yes" THEN "earlier" ELSE @]
      <4> DEFINE new == [pod[worker.dogu] EXCEPT !.restarted =
                             IF @ = "yes" THEN "earlier" ELSE @]
      <4>1. new \in Pods
        BY <3>1, PodChanged, Zenon
      <4>2. pod' = [pod EXCEPT ![worker.dogu] = new]
        BY <3>3, Zenon
      <4> HIDE DEF new
      <4> QED BY <4>1, <4>2
    <3> QED BY <1>12, <3>2, <3>3, Zenon DEF RestartAfterConfigChange
  <2>4. worker' \in [at : Steps \cup Outcomes \cup {"idle"}, dogu : Dogus]
    BY <1>12 DEF RestartAfterConfigChange
  <2> QED BY <1>12, <2>2, <2>3, <2>4 DEF RestartAfterConfigChange
<1>13. CASE ReportRestart
  BY <1>13, Zenon DEF ReportRestart
<1>14. CASE FinishPass
  BY <1>14 DEF FinishPass, Idle
<1>15. CASE GlobalConfigReconcile
  BY <1>15, Zenon DEF GlobalConfigReconcile
<1>16. ASSUME NEW d \in Dogus, SendDoguEvent(d) PROVE TypeOK'
  BY <1>16 DEF SendDoguEvent
<1>17. CASE Shutdown
  BY <1>0, <1>17 DEF Shutdown
<1>18. ASSUME NEW d \in Dogus, MarkUnknown(d) PROVE TypeOK'
  <2>1. /\ health' \in [Dogus -> {"none", "available", "unavailable", "unknown"}]
        /\ ready' \in [Dogus -> {"true", "false", "unknown"}]
        /\ faults' \in 0..sc.faults /\ marking' \subseteq Dogus
    BY <1>0, <1>18, Zenon DEF MarkUnknown
  <2> QED BY <1>18, <2>1 DEF MarkUnknown
<1>19. CASE Stop
  BY <1>19, Zenon DEF Stop, Idle
<1>20. CASE Crash
  BY <1>0, <1>20, Zenon DEF Crash, Idle
<1>21. CASE StartUp
  BY <1>21 DEF StartUp
<1>22. CASE StepFails
  BY <1>0, <1>22, Zenon DEF StepFails
<1>23. ASSUME NEW d \in Dogus, Cluster(d) PROVE TypeOK'
  <2>1. ASSUME NEW new \in Pods, PodChanges(d, new) PROVE TypeOK'
    BY <2>1 DEF PodChanges
  <2>2. CASE PodTerminates(d)
    <3>1. [pod[d] EXCEPT !.phase = "terminating"] \in Pods
      BY PodChanged, Zenon
    <3> QED BY <2>1, <2>2, <3>1 DEF PodTerminates
  <2>3. CASE PodGone(d)
    <3>1. NoPod \in Pods
      BY DEF Pods, NoPod
    <3> QED BY <2>1, <2>3, <3>1 DEF PodGone
  <2>4. CASE PodStarted(d)
    <3> DEFINE new == [NoPod EXCEPT !.phase = "started",
                          !.label = deployment[d].label,
                          !.restarted = IF deployment[d].restarted
                                        THEN "yes" ELSE "no"]
    <3>1. new \in Pods
      BY Zenon DEF Pods, NoPod
    <3> HIDE DEF new
    <3>2. PodChanges(d, new)
      BY <2>4 DEF PodStarted, new
    <3> QED BY <2>1, <3>1, <3>2
  <2>5. CASE PodRunning(d)
    <3>1. [pod[d] EXCEPT !.phase = "running", !.current = TRUE] \in Pods
      BY PodChanged, Zenon
    <3> QED BY <2>1, <2>5, <3>1 DEF PodRunning
  <2> QED BY <1>23, <2>2, <2>3, <2>4, <2>5, Zenon DEF Cluster
<1>24. ASSUME NEW d \in Dogus, EditDoguConfig(d) PROVE TypeOK'
  <2>1. pod' \in [Dogus -> Pods]
    BY <1>24, WrittenConfig DEF EditDoguConfig
  <2>2. edits' \in [spec : Nat, config : Nat] /\ queue' \subseteq Dogus
    <3>1. edits.config > 0 /\ edits' = [edits EXCEPT !.config = @ - 1]
      BY <1>24, Zenon DEF EditDoguConfig
    <3>2. edits' \in [spec : Nat, config : Nat]
      BY <3>1, EditCounted, Zenon
    <3> QED BY <1>24, <3>2 DEF EditDoguConfig
  <2> QED BY <1>24, <2>1, <2>2 DEF EditDoguConfig
<1>25. CASE EditGlobalConfig
  <2>1. pod' \in [Dogus -> Pods]
    <3>1. \A d \in Dogus : pod'[d] \in Pods
      BY <1>25, WrittenConfig DEF EditGlobalConfig
    <3> QED BY <1>25, <3>1 DEF EditGlobalConfig
  <2>2. edits' \in [spec : Nat, config : Nat]
    <3>1. edits.config > 0 /\ edits' = [edits EXCEPT !.config = @ - 1]
      BY <1>25, Zenon DEF EditGlobalConfig
    <3> QED BY <3>1, EditCounted, Zenon
  <2>3. globalQueued' \in BOOLEAN
    BY <1>25, Zenon DEF EditGlobalConfig
  <2> QED BY <1>25, <2>1, <2>2, <2>3 DEF EditGlobalConfig
<1>26. ASSUME NEW d \in Dogus, EditSpec(d) PROVE TypeOK'
  <2>1. edits.spec > 0 /\ edits' = [edits EXCEPT !.spec = @ - 1]
    BY <1>26, Zenon DEF EditSpec
  <2>2. edits' \in [spec : Nat, config : Nat]
    BY <2>1, EditCounted, Zenon
  <2>3. PICK new \in [version : Versions, stopped : BOOLEAN] :
          spec' = [spec EXCEPT ![d] = new]
    BY <1>26, Zenon DEF EditSpec
  <2>4. spec' \in [Dogus -> [version : Versions \cup {0}, stopped : BOOLEAN]]
    <3>1. new \in [version : Versions \cup {0}, stopped : BOOLEAN]
      OBVIOUS
    <3> QED BY <2>3, <3>1, ReplacedValue, Zenon
  <2> QED BY <1>26, <2>2, <2>4 DEF EditSpec
<1> QED
  BY <1>1, <1>2, <1>3, <1>4, <1>5, <1>6, <1>7, <1>8, <1>9, <1>10, <1>11, <1>12,
     <1>13, <1>14, <1>15, <1>16, <1>17, <1>18, <1>19, <1>20, <1>21, <1>22, <1>23,
     <1>24, <1>25, <1>26, Zenon DEF Next, Pass

\* Registering the dogu of the pass does not concern its dependencies.
LEMMA OwnRegistration ==
    ASSUME TypeOK, DependenciesMet(worker.dogu), UNCHANGED sc, NEW v,
           registered' = [registered EXCEPT ![worker.dogu] = v]
    PROVE  /\ \A e \in sc.mandatory[worker.dogu] \ Skipped :
                  registered'[e] # 0 /\ registered'[e] \in sc.allows[worker.dogu][e]
           /\ \A e \in Closure(sc, worker.dogu) \ {worker.dogu} : registered'[e] # 0
<1>1. ASSUME NEW e \in Dogus, e # worker.dogu
      PROVE  registered'[e] = registered[e]
  BY <1>1 DEF TypeOK
<1>2. \A e \in sc.mandatory[worker.dogu] \ Skipped : e \in Dogus /\ e # worker.dogu
  BY EcosystemAssumption DEF TypeOK, ScenarioType
<1>3. Closure(sc, worker.dogu) \subseteq Dogus
  BY DEF Closure, Reach
<1> QED BY <1>1, <1>2, <1>3 DEF DependenciesMet

\* A non-empty set of numbers has a least one.
LEMMA LeastNumber ==
    ASSUME NEW T \in SUBSET Nat, T # {}
    PROVE  \E x \in T : \A y \in T : x <= y
<1> DEFINE R == {p \in Nat \X Nat : p[1] < p[2]}
<1>1. IsWellFoundedOn(R, Nat)
  BY NatLessThanWellFounded DEF OpToRel
<1> HIDE DEF R
<1>2. PICK x \in T : \A y \in T : <<y, x>> \notin R
  BY <1>1, WFMin, Zenon
<1>3. \A y \in T : x <= y
  <2> TAKE y \in T
  <2>1. <<y, x>> \notin R
    BY <1>2
  <2>2. ~(y < x)
    BY <2>1 DEF R
  <2> QED BY <2>2
<1> QED BY <1>3

\* CheckDependenciesRecursive has a result on each level: otherwise there were
\* a least one without, and the result of the one below it gives its own.
LEMMA ResultOnLevels ==
    ASSUME NEW d \in Dogus
    PROVE  \E r : /\ r[0] = [e \in Dogus |-> "overflow"]
                  /\ \A n \in 1..Levels : r[n] = CheckLevel(r[n - 1])
                  /\ CheckDependenciesRecursive(d) = r[Levels][d]
<1> DEFINE base == [e \in Dogus |-> "overflow"]
           Rec(f, m) == f = [n \in 0..m |-> IF n = 0 THEN base ELSE CheckLevel(f[n - 1])]
           Bad == {m \in Nat : ~\E f : Rec(f, m)}
<1>1. Levels \in Nat /\ Levels > 0
  BY EcosystemAssumption, FS_CardinalityType DEF Levels
<1> HIDE DEF base
<1>2. Bad = {}
  <2> SUFFICES ASSUME Bad # {} PROVE FALSE
    OBVIOUS
  <2>1. PICK m \in Bad : \A k \in Bad : m <= k
    <3>1. Bad \in SUBSET Nat
      OBVIOUS
    <3> HIDE DEF Bad
    <3> QED BY <3>1, LeastNumber
  <2>2. m # 0
    <3> DEFINE f == [n \in 0..0 |-> base]
    <3>1. Rec(f, 0)
      OBVIOUS
    <3> QED BY <3>1, Zenon
  <2>3. m \in Nat /\ m - 1 \in Nat /\ m - 1 \notin Bad
    <3>1. m \in Nat
      BY <2>1
    <3> HIDE DEF Bad
    <3> QED BY <2>1, <2>2, <3>1
  <2>4. PICK g : Rec(g, m - 1)
    BY <2>3
  <2> DEFINE f == [n \in 0..m |-> IF n = m THEN CheckLevel(g[m - 1]) ELSE g[n]]
             h == [n \in 0..m |-> IF n = 0 THEN base ELSE CheckLevel(f[n - 1])]
  <2>5. \A n \in 0..(m - 1) : g[n] = IF n = 0 THEN base ELSE CheckLevel(g[n - 1])
    BY <2>3, <2>4
  <2>6. ASSUME NEW n \in 0..m PROVE f[n] = h[n]
    <3>1. CASE n = 0
      <4>1. 0 \in 0..(m - 1) /\ 0 # m
        BY <2>2, <2>3
      <4> QED BY <3>1, <4>1, <2>5
    <3>2. CASE n # 0
      <4>1. n - 1 \in 0..m /\ n - 1 # m /\ (n # m => n \in 0..(m - 1))
        BY <3>2, <2>3
      <4>2. f[n - 1] = g[n - 1]
        BY <4>1
      <4>3. f[n] = CheckLevel(g[n - 1])
        BY <3>2, <4>1, <2>5
      <4>4. h[n] = CheckLevel(f[n - 1])
        BY <3>2
      <4> HIDE DEF f, h
      <4> QED BY <4>2, <4>3, <4>4
    <3> QED BY <3>1, <3>2
  <2>7. f = h
    BY <2>6
  <2>8. Rec(f, m)
    BY <2>7
  <2> QED BY <2>1, <2>8, Zenon
<1>3. \E f : Rec(f, Levels)
  BY <1>1, <1>2, Zenon
<1> DEFINE r == CHOOSE f : Rec(f, Levels)
<1>4. Rec(r, Levels)
  BY <1>3, Zenon
<1>5. CheckDependenciesRecursive(d) = r[Levels][d]
  BY DEF CheckDependenciesRecursive, base
<1> HIDE DEF r
<1>6. \A n \in 0..Levels : r[n] = IF n = 0 THEN base ELSE CheckLevel(r[n - 1])
  BY <1>4, Zenon
<1>7. r[0] = base
  BY <1>1, <1>6
<1>8. ASSUME NEW n \in 1..Levels PROVE r[n] = CheckLevel(r[n - 1])
  <2>1. n \in 0..Levels /\ n # 0
    BY <1>1
  <2> QED BY <1>6, <2>1
<1> QED BY <1>5, <1>7, <1>8 DEF base

\* If CheckDependenciesRecursive returns without a problem, all mandatory
\* dependencies are installed, direct or not: those that are healthy on some
\* level have dependencies that are healthy on the level below.
LEMMA HealthyIsInstalled ==
    ASSUME TypeOK, NEW d \in Dogus, CheckDependenciesRecursive(d) = "healthy"
    PROVE  \A e \in Closure(sc, d) : registered[e] # 0
<1>1. PICK r : /\ r[0] = [e \in Dogus |-> "overflow"]
               /\ \A n \in 1..Levels : r[n] = CheckLevel(r[n - 1])
               /\ CheckDependenciesRecursive(d) = r[Levels][d]
  BY ResultOnLevels
<1>2. Levels \in Nat
  BY EcosystemAssumption, FS_CardinalityType DEF Levels
<1> DEFINE S == {f \in Dogus : /\ registered[f] # 0
                               /\ \E n \in 0..Levels : r[n][f] = "healthy"}
<1>3. ASSUME NEW f \in Dogus, NEW n \in 0..Levels, r[n][f] = "healthy"
      PROVE  sc.mandatory[f] \ Skipped \subseteq S
  <2>1. n # 0
    BY <1>1, <1>3
  <2>2. n \in 1..Levels /\ n - 1 \in 0..Levels
    BY <1>2, <2>1
  <2>3. CheckLevel(r[n - 1])[f] = "healthy"
    BY <1>1, <1>3, <2>2
  <2>4. \A g \in Checked(f) : registered[g] # 0 /\ r[n - 1][g] = "healthy"
    BY <2>3 DEF CheckLevel
  <2>5. sc.mandatory[f] \ Skipped \subseteq Checked(f)
    BY DEF Checked
  <2>6. sc.mandatory[f] \ Skipped \subseteq Dogus
    BY EcosystemAssumption DEF TypeOK, ScenarioType
  <2> QED BY <2>2, <2>4, <2>5, <2>6
<1>4. \A f \in S \cup {d} : sc.mandatory[f] \ Skipped \subseteq S
  <2>1. Levels \in 0..Levels
    BY <1>2
  <2>2. sc.mandatory[d] \ Skipped \subseteq S
    BY <1>1, <1>3, <2>1
  <2>3. ASSUME NEW f \in S PROVE sc.mandatory[f] \ Skipped \subseteq S
    BY <1>3
  <2> HIDE DEF S
  <2> QED BY <2>2, <2>3
<1>5. S \in SUBSET Dogus /\ \A f \in S : registered[f] # 0
  OBVIOUS
<1> HIDE DEF S
<1>6. Closure(sc, d) \subseteq S
  BY <1>4, <1>5 DEF Closure, Reach
<1> QED BY <1>5, <1>6

\* ValidationStep lets a dogu that is to run pass only with its dependencies.
LEMMA ValidationChecks ==
    ASSUME TypeOK, Validation, worker'.at \in Validated,
           ~spec[worker.dogu].stopped
    PROVE  DependenciesMet(worker.dogu)
<1>1. worker'.at = "register"
  BY DEF Validation, Goto, Validated, TypeOK
<1>2. ValidateDependencies(worker.dogu)
  BY <1>1 DEF Validation, Goto, TypeOK
<1>3. CheckDependenciesRecursive(worker.dogu) = "healthy"
  BY <1>1 DEF Validation, Goto, TypeOK
<1>4. \A e \in Closure(sc, worker.dogu) : registered[e] # 0
  <2>1. worker.dogu \in Dogus
    BY DEF TypeOK
  <2> QED BY <1>3, <2>1, HealthyIsInstalled
<1> QED BY <1>2, <1>4 DEF ValidateDependencies, CheckDoguDependency, DependenciesMet

\* Every step keeps what the validation has found.
LEMMA EcosystemStep ==
    ASSUME EcosystemInv, [Next]_vars
    PROVE  EcosystemInv'
<1>0. TypeOK'
  BY EcosystemTypeStep DEF EcosystemInv
<1> SUFFICES ASSUME worker'.at \in Validated, ~spec'[worker'.dogu].stopped
             PROVE  DependenciesMet(worker.dogu)'
  BY <1>0 DEF EcosystemInv
<1> USE DEF EcosystemInv
\* A step of the pass that changes neither spec nor registry
<1>1. ASSUME worker.at \in Validated, worker'.dogu = worker.dogu,
             UNCHANGED <<sc, spec, registered>>
      PROVE  DependenciesMet(worker.dogu)'
  BY <1>1 DEF DependenciesMet
<1>2. ASSUME worker.at \in Validated, worker'.dogu = worker.dogu,
             UNCHANGED <<sc, spec>>,
             NEW v, registered' = [registered EXCEPT ![worker.dogu] = v]
      PROVE  DependenciesMet(worker.dogu)'
  BY <1>2, OwnRegistration, Zenon DEF DependenciesMet
<1> USE DEF At, Goto, Steps, Outcomes
<1>3. CASE Pass
  <2>1. CASE HealthCheck
    BY <2>1 DEF HealthCheck, TypeOK, Validated
  <2>2. CASE Validation
    <3>1. worker'.dogu = worker.dogu /\ UNCHANGED <<sc, spec, registered>>
      BY <2>2 DEF Validation, TypeOK
    <3> QED BY <2>2, <3>1, ValidationChecks DEF DependenciesMet
  <2>3. CASE RegisterDoguVersion
    BY <1>2, <2>3, Zenon DEF RegisterDoguVersion, TypeOK, Validated
  <2>4. CASE CreateDeployment
    BY <1>1, <2>4 DEF CreateDeployment, TypeOK, Validated
  <2>5. CASE StartStop
    BY <1>1, <2>5 DEF StartStop, TypeOK, Validated
  <2>6. CASE UpdateDeploymentVersion
    BY <1>1, <2>6 DEF UpdateDeploymentVersion, TypeOK, Validated
  <2>7. CASE UpgradeRegisterDoguVersion
    BY <1>2, <2>7, Zenon DEF UpgradeRegisterDoguVersion, TypeOK, Validated
  <2>8. CASE RegenerateDeployment
    BY <2>8 DEF RegenerateDeployment, TypeOK, Validated
  <2>9. CASE UpdateStartedAt
    BY <2>9 DEF UpdateStartedAt, TypeOK, Validated
  <2>10. CASE RestartAfterConfigChange
    BY <2>10 DEF RestartAfterConfigChange, TypeOK, Validated
  <2>11. CASE ReportRestart
    BY <2>11 DEF ReportRestart, TypeOK, Validated
  <2>12. CASE FinishPass
    BY <2>12 DEF FinishPass, Idle, Validated
  <2> QED BY <1>3, <2>1, <2>2, <2>3, <2>4, <2>5, <2>6, <2>7, <2>8, <2>9, <2>10,
             <2>11, <2>12 DEF Pass
\* Nothing else touches the registry, and what ends the pass ends the claim.
<1>4. CASE UNCHANGED vars
  BY <1>1, <1>4 DEF vars
<1>5. CASE GlobalConfigReconcile \/ Shutdown \/ StartUp \/ EditGlobalConfig
  BY <1>1, <1>5 DEF GlobalConfigReconcile, Shutdown, StartUp, EditGlobalConfig
<1>6. CASE Stop \/ Crash \/ StepFails
  BY <1>6 DEF Stop, Crash, StepFails, Idle, Validated, TypeOK
<1>7. ASSUME NEW d \in Dogus, StartPass(d) PROVE DependenciesMet(worker.dogu)'
  BY <1>7 DEF StartPass, Validated
<1>8. ASSUME NEW d \in Dogus,
             SendDoguEvent(d) \/ MarkUnknown(d) \/ Cluster(d) \/ EditDoguConfig(d)
      PROVE  DependenciesMet(worker.dogu)'
  BY <1>1, <1>8 DEF SendDoguEvent, MarkUnknown, Cluster, EditDoguConfig, PodTerminates,
                    PodGone, PodStarted, PodRunning, PodChanges
<1>9. ASSUME NEW d \in Dogus, EditSpec(d) PROVE DependenciesMet(worker.dogu)'
  <2>1. UNCHANGED <<sc, registered, worker>> /\ worker.dogu # d
    BY <1>9 DEF EditSpec, Validated
  <2>2. spec'[worker.dogu] = spec[worker.dogu]
    BY <1>9, <2>1 DEF EditSpec, TypeOK
  <2> QED BY <2>1, <2>2 DEF DependenciesMet
<1> QED BY <1>3, <1>4, <1>5, <1>6, <1>7, <1>8, <1>9 DEF Next

\* A dogu is started by the deployment a step of its own pass generates.
LEMMA StartedByPass ==
    ASSUME EcosystemInv, [Next]_vars, NEW d \in Dogus, Starts(d)
    PROVE  DependenciesMet(d)
<1> USE DEF EcosystemInv, TypeOK, Starts
<1>1. CASE UNCHANGED deployment
  BY <1>1
<1>2. ASSUME worker.at \in Validated, NEW new \in Deployments,
             WriteDeployment(worker.dogu, new), new.replicas = ReplicasFor(worker.dogu)
      PROVE  DependenciesMet(d)
  <2>1. d = worker.dogu /\ deployment'[d] = new
    BY <1>2 DEF WriteDeployment
  <2>2. ~spec[d].stopped
    BY <1>2, <2>1 DEF ReplicasFor
  <2> QED BY <1>2, <2>1, <2>2
<1>3. CASE CreateDeployment
  BY <1>1, <1>2, <1>3, GeneratedDeployment DEF CreateDeployment, At, Validated
<1>4. CASE StartStop
  <2>1. CASE UNCHANGED deployment
    BY <1>1, <2>1
  <2>2. CASE WriteDeployment(worker.dogu, [deployment[worker.dogu] EXCEPT
                                             !.replicas = ReplicasFor(worker.dogu)])
    <3>1. ReplicasFor(worker.dogu) \in {0, 1}
      BY GeneratedDeployment
    <3> QED BY <1>2, <1>4, <2>2, <3>1 DEF StartStop, At, Validated, Deployments
  <2> QED BY <1>4, <2>1, <2>2 DEF StartStop
<1>5. CASE UpdateDeploymentVersion
  BY <1>1, <1>2, <1>5, GeneratedDeployment DEF UpdateDeploymentVersion, At, Validated
<1>6. CASE RegenerateDeployment
  BY <1>1, <1>2, <1>6, GeneratedDeployment DEF RegenerateDeployment, At, Validated
<1>7. CASE RestartAfterConfigChange
  <2>1. CASE UNCHANGED deployment
    BY <1>1, <2>1
  <2>2. CASE deployment' = [deployment EXCEPT ![worker.dogu] =
                                [deployment[worker.dogu] EXCEPT !.restarted = TRUE]]
    <3>1. /\ deployment'[d].replicas = deployment[d].replicas
          /\ deployment'[d].label = deployment[d].label
      BY <2>2
    <3> QED BY <3>1
  <2> QED BY <1>7, <2>1, <2>2 DEF RestartAfterConfigChange, WriteDeployment
<1>8. CASE HealthCheck \/ Validation \/ RegisterDoguVersion
           \/ UpgradeRegisterDoguVersion \/ UpdateStartedAt \/ ReportRestart
           \/ FinishPass
  BY <1>1, <1>8, Zenon DEF HealthCheck, Validation, RegisterDoguVersion, FinishPass,
                    UpgradeRegisterDoguVersion, UpdateStartedAt, ReportRestart
<1>9. CASE GlobalConfigReconcile \/ Shutdown \/ Stop \/ Crash \/ StartUp
           \/ StepFails \/ EditGlobalConfig
  BY <1>1, <1>9 DEF GlobalConfigReconcile, Shutdown, Stop, Crash, StartUp,
                    StepFails, EditGlobalConfig
<1>10. ASSUME NEW f \in Dogus,
              \/ StartPass(f) \/ SendDoguEvent(f) \/ MarkUnknown(f) \/ Cluster(f)
              \/ EditDoguConfig(f) \/ EditSpec(f)
       PROVE  DependenciesMet(d)
  BY <1>1, <1>10 DEF StartPass, SendDoguEvent, MarkUnknown, Cluster, PodTerminates,
       PodGone, PodStarted, PodRunning, PodChanges, EditDoguConfig, EditSpec
<1> QED
  BY <1>1, <1>3, <1>4, <1>5, <1>6, <1>7, <1>8, <1>9, <1>10 DEF Next, Pass, vars

\* The shape of the state is kept: a deployment never asks for more than one
\* replica, and the worker's pass is over a dogu.
THEOREM EcosystemTypes == Spec => []TypeOK
<1>1. EcosystemInv => TypeOK
  BY DEF EcosystemInv
<1> QED BY <1>1, EcosystemInit, EcosystemStep, PTL DEF Spec

\* Whatever is created, upgraded, stopped or fails in between, a dogu is started
\* only while its mandatory dependencies are installed in versions it allows
\* (ValidationStep, and the steps that write the deployment), if its spec is not
\* edited during its pass (EditSpec).
THEOREM StartedWithDependencies == Spec => StartsWithDependencies
<1>1. EcosystemInv /\ [Next]_vars =>
          [\A d \in Dogus : Starts(d) =>
              \A e \in sc.mandatory[d] \ Skipped :
                  registered[e] # 0 /\ registered[e] \in sc.allows[d][e]]_vars
  BY StartedByPass DEF DependenciesMet
<1> QED BY <1>1, EcosystemInit, EcosystemStep, PTL DEF Spec, StartsWithDependencies

\* A dogu is started only while all it depends on, directly or not, is installed,
\* although a dependency may have been installed stopped and without its own
\* (CheckDependenciesRecursive).  Its spec is not edited during its pass (EditSpec).
THEOREM StartedWithClosure == Spec => StartsWithClosure
<1>1. EcosystemInv /\ [Next]_vars =>
          [\A d \in Dogus : Starts(d) =>
              \A e \in Closure(sc, d) \ {d} : registered[e] # 0]_vars
  BY StartedByPass DEF DependenciesMet
<1> QED BY <1>1, EcosystemInit, EcosystemStep, PTL DEF Spec, StartsWithClosure
=============================================================================
