------------------------------ MODULE Ecosystem ------------------------------
(* Several dogus under one operator: they wait for their dependencies, are    *)
(* restarted when a config they read changes, and show their health, while    *)
(* the operator is stopped, killed and started again.                         *)
(*                                                                            *)
(* The one worker of the dogu controller runs one pass at a time over the     *)
(* steps that read or write what dogus share.  Times are compared only with   *)
(* the start time of a dogu's pod, in whole seconds: what matters is whether  *)
(* a config was updated in a later second than that (pod.outdated).           *)
EXTENDS Naturals, FiniteSets

CONSTANTS
    Dogus,       \* the names of the dogus
    Versions,    \* their versions, ordered like core.Version
    Skipped,     \* dependencies that are not checked: nginx and registrator,
                 \* cas and postfix if they are components
    Scenarios,   \* descriptors, specs to start with, edits and faults
    SlowStart    \* a dogu reads its config after the second of its pod's start

\* A scenario: dependencies with the versions they allow, whether the operator
\* has a version the descriptor accepts, the dogus that run at the start, the
\* ones that were just created and the ones whose spec is edited, and bounds on
\* the edits of specs and of configs, and on failed steps, crashes and
\* shutdowns.
ScenarioType ==
    [mandatory : [Dogus -> SUBSET (Dogus \cup Skipped)],
     optional  : [Dogus -> SUBSET (Dogus \cup Skipped)],
     allows    : [Dogus -> [Dogus -> SUBSET Versions]],
     client    : [Dogus -> BOOLEAN],
     running   : SUBSET Dogus,
     created   : SUBSET Dogus,
     edited    : SUBSET Dogus,
     specEdits : Nat, configEdits : Nat, faults : Nat]

ASSUME EcosystemAssumption ==
    /\ IsFiniteSet(Dogus) /\ Dogus # {}
    /\ Versions \subseteq Nat \ {0} /\ 1 \in Versions
    /\ Scenarios \subseteq ScenarioType
    /\ \A s \in Scenarios : \A d \in Dogus : d \notin s.mandatory[d]
    /\ SlowStart \in BOOLEAN

VARIABLES
    sc,           \* the scenario
    spec,         \* the spec of each dogu resource, NoSpec if there is none
    edits,        \* edits left, of specs and of configs
    registered,   \* the version enabled in the local registry, 0 if none
    deployment,   \* version label, restartedAt annotation and replicas
    pod,          \* the pod of each deployment
    health,       \* status.health
    entry,        \* the dogu's entry in the health config map
    ready,        \* the Ready condition
    operator,     \* "up", "stopping" (the shutdown handler runs) or "down"
    marking,      \* dogus the shutdown handler has still to mark
    worker,       \* the step the pass is at, and its dogu
    queue,        \* dogus in the work queue, now or by timer
    globalQueued, \* the global config is in its controller's work queue
    announce,     \* dogus GlobalConfigReconciler has still to send
    faults        \* number of faults so far

vars == <<sc, spec, edits, registered, deployment, pod, health, entry, ready,
          operator, marking, worker, queue, globalQueued, announce, faults>>

NoSpec == [version |-> 0, stopped |-> FALSE]

NoDeployment == [label |-> 0, restarted |-> FALSE, replicas |-> 0]

\* A pod has a start time in every phase but "none", in which it may not even
\* exist.  restarted tells whether it is from the plain template, from the one
\* with the current restartedAt annotation, or from one with an earlier
\* annotation; current, whether the dogu has read the configs as they are now.
Pods == [phase : {"none", "started", "running", "terminating"},
         label : Versions \cup {0}, restarted : {"no", "yes", "earlier"},
         current : BOOLEAN, outdated : BOOLEAN]

NoPod == [phase |-> "none", label |-> 0, restarted |-> "no",
          current |-> FALSE, outdated |-> FALSE]

Idle == [at |-> "idle", dogu |-> CHOOSE d \in Dogus : TRUE]

\* The order of NewDoguInstallOrChangeUseCase
Steps == {"healthCheck", "validation", "register", "deployment", "startStop",
          "updateVersion", "upgradeRegister", "regenerate", "startedAt",
          "configChange", "reportRestart"}

Outcomes == {"requeue", "error", "abort", "applied"}

-----------------------------------------------------------------------------
(* What the steps compute.                                                    *)

Exists(d) == spec[d] # NoSpec

HasStartTime(d) == pod[d].phase # "none"

\* The pod is from the deployment's template.
UpToDate(d) ==
    /\ pod[d].label = deployment[d].label
    /\ pod[d].restarted = IF deployment[d].restarted THEN "yes" ELSE "no"

\* AvailabilityChecker.IsAvailable.  The status of a deployment whose template
\* has just changed may still be that of the old one: its generation is not
\* compared.
IsAvailable(d) ==
    IF deployment[d].replicas = 1 /\ pod[d].phase = "running"
    THEN IF UpToDate(d) THEN {TRUE} ELSE BOOLEAN
    ELSE {FALSE}

\* UpdateHealthConfigMap, for a descriptor with a health check of type state:
\* without a pod the entry stays as it is.
UpdateHealthConfigMap(d) ==
    CASE pod[d].phase = "none" -> {entry[d], "empty"}
      [] pod[d].phase = "started" -> {"empty"}
      [] pod[d].phase \in {"running", "terminating"} -> {"ready"}

\* Mutated: the version is not compared.
AnyVersionWillDo(d, e, optional) ==
    e \notin Skipped => optional \/ registered[e] # 0

\* checkDoguDependency, for one dependency e of d
CheckDoguDependency(d, e, optional) ==
    e \notin Skipped =>
        IF registered[e] = 0 THEN optional
        ELSE registered[e] \in sc.allows[d][e]

\* operatorDependencyValidator.ValidateAllDependencies, over the client
\* dependencies of the descriptor: they accept the operator's version.
OperatorAccepted(d) == sc.client[d]

\* ValidateDependencies: the operator's version, and the dogus.
ValidateDependencies(d) ==
    /\ OperatorAccepted(d)
    /\ \A e \in sc.mandatory[d] : CheckDoguDependency(d, e, FALSE)
    /\ \A e \in sc.optional[d] : CheckDoguDependency(d, e, TRUE)

\* What checkMandatoryRecursive and checkOptionalRecursive look at for e:
\* mandatory dependencies, and optional ones that are installed.
Checked(e) ==
    (sc.mandatory[e] \cup {f \in sc.optional[e] \ Skipped : registered[f] # 0})
    \ Skipped

\* One level of the recursion: the result for each dogu, given the results for
\* the dogus it depends on.
CheckLevel(below) ==
    [e \in Dogus |->
        IF \E f \in Checked(e) : registered[f] # 0 /\ below[f] = "overflow"
        THEN "overflow"
        ELSE IF \A f \in Checked(e) :
                    /\ registered[f] # 0
                    /\ Exists(f) /\ health[f] = "available"
                    /\ below[f] = "healthy"
        THEN "healthy" ELSE "unhealthy"]

\* CheckDependenciesRecursive follows the dependencies of dependencies and
\* keeps no record of where it has been: past as many levels as there are
\* dogus it is on a cycle and does not return.
Levels == Cardinality(Dogus) + 1

CheckDependenciesRecursive(d) ==
    LET result[n \in 0..Levels] ==
            IF n = 0 THEN [e \in Dogus |-> "overflow"]
            ELSE CheckLevel(result[n - 1])
    IN  result[Levels][d]

\* Mutated: one replica too many.
OneReplicaTooMany(d) == IF spec[d].stopped THEN 0 ELSE 2

\* updateDeploymentSpec
ReplicasFor(d) == IF spec[d].stopped THEN 0 ELSE 1

-----------------------------------------------------------------------------
(* Frames                                                                     *)

user == <<sc, spec, edits>>
cluster == <<registered, deployment, pod>>
status == <<health, entry, ready>>
process == <<operator, marking, globalQueued, announce, faults>>

Init ==
    /\ sc \in Scenarios
    /\ spec = [d \in Dogus |-> IF d \in sc.running \cup sc.created
                               THEN [version |-> 1, stopped |-> FALSE]
                               ELSE NoSpec]
    /\ edits = [spec |-> sc.specEdits, config |-> sc.configEdits]
    /\ registered = [d \in Dogus |-> IF d \in sc.running THEN 1 ELSE 0]
    /\ deployment = [d \in Dogus |->
                        IF d \in sc.running
                        THEN [label |-> 1, restarted |-> FALSE, replicas |-> 1]
                        ELSE NoDeployment]
    /\ pod = [d \in Dogus |->
                 IF d \in sc.running
                 THEN [NoPod EXCEPT !.phase = "running", !.label = 1,
                                    !.current = TRUE]
                 ELSE NoPod]
    /\ health = [d \in Dogus |->
                    IF d \in sc.running THEN "available" ELSE "none"]
    /\ entry = [d \in Dogus |-> IF d \in sc.running THEN "ready" ELSE "none"]
    /\ ready = [d \in Dogus |->
                   IF d \in sc.running THEN "true" ELSE "unknown"]
    /\ operator = "up" /\ marking = {}
    /\ worker = Idle
    /\ queue = sc.created
    /\ globalQueued = FALSE /\ announce = {}
    /\ faults = 0

At(step) == worker.at = step

Goto(step) == worker' = [worker EXCEPT !.at = step]

\* A step that changes the deployment puts the dogu back into the queue.
WriteDeployment(d, new) ==
    /\ deployment' = [deployment EXCEPT ![d] = new]
    /\ queue' = IF new = deployment[d] THEN queue ELSE queue \cup {d}

-----------------------------------------------------------------------------
(* A pass over the dogu worker.dogu                                           *)

StartPass(d) ==
    /\ operator # "down" /\ At("idle") /\ d \in queue
    /\ worker' = [at |-> "healthCheck", dogu |-> d]
    /\ queue' = queue \ {d}
    /\ UNCHANGED <<user, cluster, status, process>>

\* HealthCheckStep: nothing is known of a dogu that has no deployment.
HealthCheck ==
    /\ At("healthCheck")
    /\ Goto("validation")
    /\ LET d == worker.dogu
       IN  IF deployment[d] = NoDeployment \/ registered[d] = 0
           THEN UNCHANGED status
           ELSE /\ \E available \in IsAvailable(d) :
                       health' = [health EXCEPT ![d] =
                           IF available THEN "available" ELSE "unavailable"]
                /\ \E state \in UpdateHealthConfigMap(d) :
                       entry' = [entry EXCEPT ![d] = state]
                /\ UNCHANGED ready
    /\ UNCHANGED <<user, cluster, process, queue>>

\* Mutated: the health of dependencies is not checked.
ValidatedWithoutHealth ==
    /\ At("validation")
    /\ LET d == worker.dogu
       IN  \/ /\ spec[d].version < registered[d]
              /\ Goto("abort")
           \/ /\ spec[d].version >= registered[d]
              /\ Goto(IF spec[d].stopped \/ ValidateDependencies(d)
                      THEN "register" ELSE "error")
    /\ UNCHANGED <<user, cluster, status, process, queue>>

\* ValidationStep.  The dependencies of a stopped dogu are not validated.  If
\* the check of their health does not return, neither does the step.
Validation ==
    /\ At("validation")
    /\ LET d == worker.dogu
       IN  \/ /\ spec[d].version < registered[d]
              /\ Goto("abort")
           \/ /\ spec[d].version >= registered[d]
              /\ spec[d].stopped
              /\ Goto("register")
           \/ /\ spec[d].version >= registered[d]
              /\ ~spec[d].stopped
              /\ ~ValidateDependencies(d)
              /\ Goto("error")
           \/ /\ spec[d].version >= registered[d]
              /\ ~spec[d].stopped
              /\ ValidateDependencies(d)
              /\ CheckDependenciesRecursive(d) # "overflow"
              /\ Goto(IF CheckDependenciesRecursive(d) = "healthy"
                      THEN "register" ELSE "error")
    /\ UNCHANGED <<user, cluster, status, process, queue>>

\* install.RegisterDoguVersionStep
RegisterDoguVersion ==
    /\ At("register")
    /\ Goto("deployment")
    /\ LET d == worker.dogu
       IN  registered' = [registered EXCEPT ![d] =
                              IF @ = 0 THEN spec[d].version ELSE @]
    /\ queue' = IF registered' = registered THEN queue
                ELSE queue \cup {worker.dogu}
    /\ UNCHANGED <<user, deployment, pod, status, process>>

\* CreateDeploymentStep
CreateDeployment ==
    /\ At("deployment")
    /\ Goto("startStop")
    /\ LET d == worker.dogu
       IN  IF deployment[d] = NoDeployment
           THEN WriteDeployment(d, [label |-> spec[d].version,
                                    restarted |-> FALSE,
                                    replicas |-> ReplicasFor(d)])
           ELSE UNCHANGED <<deployment, queue>>
    /\ UNCHANGED <<user, registered, pod, status, process>>

\* StartStopStep
StartStop ==
    /\ At("startStop")
    /\ LET d == worker.dogu
       IN  \/ /\ deployment[d].replicas = ReplicasFor(d)
              /\ Goto(IF spec[d].stopped THEN "abort" ELSE "updateVersion")
              /\ UNCHANGED <<deployment, queue>>
           \/ /\ deployment[d].replicas # ReplicasFor(d)
              /\ WriteDeployment(d, [deployment[d] EXCEPT !.replicas =
                                         ReplicasFor(d)])
              /\ Goto("requeue")
    /\ UNCHANGED <<user, registered, pod, status, process>>

\* UpdateDeploymentVersionStep: the generated template has no annotation.
UpdateDeploymentVersion ==
    /\ At("updateVersion")
    /\ LET d == worker.dogu
       IN  \/ /\ deployment[d].label = spec[d].version
              /\ Goto("upgradeRegister")
              /\ UNCHANGED <<deployment, queue>>
           \/ /\ deployment[d].label # spec[d].version
              /\ WriteDeployment(d, [label |-> spec[d].version,
                                     restarted |-> FALSE,
                                     replicas |-> ReplicasFor(d)])
              /\ Goto("requeue")
    /\ UNCHANGED <<user, registered, pod, status, process>>

\* upgrade.RegisterDoguVersionStep
UpgradeRegisterDoguVersion ==
    /\ At("upgradeRegister")
    /\ Goto("regenerate")
    /\ registered' = [registered EXCEPT ![worker.dogu] =
                          spec[worker.dogu].version]
    /\ queue' = IF registered' = registered THEN queue
                ELSE queue \cup {worker.dogu}
    /\ UNCHANGED <<user, deployment, pod, status, process>>

\* RegenerateDeploymentStep: the annotation of a restart is dropped.
RegenerateDeployment ==
    /\ At("regenerate")
    /\ Goto("startedAt")
    /\ LET d == worker.dogu
       IN  WriteDeployment(d, [label |-> spec[d].version, restarted |-> FALSE,
                               replicas |-> ReplicasFor(d)])
    /\ UNCHANGED <<user, registered, pod, status, process>>

\* UpdateStartedAtStep with GetLastStartingTime
UpdateStartedAt ==
    /\ At("startedAt")
    /\ Goto(IF HasStartTime(worker.dogu) THEN "configChange" ELSE "error")
    /\ UNCHANGED <<user, cluster, status, process, queue>>

\* Mutated: the annotation is not written.
RestartNotRequested ==
    /\ At("configChange")
    /\ Goto(IF HasStartTime(worker.dogu) THEN "applied" ELSE "error")
    /\ UNCHANGED <<user, cluster, status, process, queue>>

\* RestartAfterConfigChangeStep with RestartDogu, up to its write of the
\* deployment: every restart has an annotation of its own.
RestartAfterConfigChange ==
    /\ At("configChange")
    /\ LET d == worker.dogu
       IN  \/ /\ ~HasStartTime(d)
              /\ Goto("error")
              /\ UNCHANGED <<deployment, pod, queue>>
           \/ /\ HasStartTime(d) /\ ~pod[d].outdated
              /\ Goto("applied")
              /\ UNCHANGED <<deployment, pod, queue>>
           \/ /\ HasStartTime(d) /\ pod[d].outdated
              /\ WriteDeployment(d, [deployment[d] EXCEPT !.restarted = TRUE])
              /\ pod' = [pod EXCEPT ![d].restarted =
                             IF @ = "yes" THEN "earlier" ELSE @]
              /\ Goto("reportRestart")
    /\ UNCHANGED <<user, registered, status, process>>

\* RestartAfterConfigChangeStep, the write of the status
ReportRestart ==
    /\ At("reportRestart")
    /\ Goto("applied")
    /\ health' = [health EXCEPT ![worker.dogu] = "unavailable"]
    /\ ready' = [ready EXCEPT ![worker.dogu] = "false"]
    /\ UNCHANGED <<user, cluster, entry, process, queue>>

\* The end of Reconcile: ready condition and requeue.
FinishPass ==
    /\ worker.at \in Outcomes
    /\ worker' = Idle
    /\ ready' = [ready EXCEPT ![worker.dogu] =
                     IF At("applied") THEN "true" ELSE "false"]
    /\ queue' = IF worker.at \in {"requeue", "error"}
                THEN queue \cup {worker.dogu} ELSE queue
    /\ UNCHANGED <<user, cluster, health, entry, process>>

Pass ==
    \/ HealthCheck \/ Validation \/ RegisterDoguVersion \/ CreateDeployment
    \/ StartStop \/ UpdateDeploymentVersion \/ UpgradeRegisterDoguVersion
    \/ RegenerateDeployment \/ UpdateStartedAt \/ RestartAfterConfigChange
    \/ ReportRestart \/ FinishPass

-----------------------------------------------------------------------------
(* The controller of the global config, and the life of the operator          *)

\* GlobalConfigReconciler.Reconcile lists the dogus ...
GlobalConfigReconcile ==
    /\ operator # "down" /\ globalQueued /\ announce = {}
    /\ globalQueued' = FALSE
    /\ announce' = {d \in Dogus : Exists(d)}
    /\ UNCHANGED <<user, cluster, status, operator, marking, faults, worker,
                   queue>>

\* ... and sends each of them on the event channel.  A goroutine of the
\* channel source takes it and puts it into the queue, so a send waits for no
\* pass.
SendDoguEvent(d) ==
    /\ operator # "down" /\ d \in announce
    /\ announce' = announce \ {d}
    /\ queue' = queue \cup {d}
    /\ UNCHANGED <<user, cluster, status, operator, marking, globalQueued,
                   faults, worker>>

\* The stop hook runs the shutdown handler before the manager is cancelled.
Shutdown ==
    /\ operator = "up" /\ faults < sc.faults
    /\ faults' = faults + 1
    /\ operator' = "stopping"
    /\ marking' = {d \in Dogus : Exists(d)}
    /\ UNCHANGED <<user, cluster, status, globalQueued, announce, worker,
                   queue>>

\* ShutdownHandler.Handle, for one dogu; an update that fails is passed over.
MarkUnknown(d) ==
    /\ d \in marking
    /\ marking' = marking \ {d}
    /\ \/ /\ health' = [health EXCEPT ![d] = "unknown"]
          /\ ready' = [ready EXCEPT ![d] = "unknown"]
          /\ UNCHANGED <<entry, faults>>
       \/ /\ faults < sc.faults
          /\ faults' = faults + 1
          /\ UNCHANGED status
    /\ UNCHANGED <<user, cluster, operator, globalQueued, announce, worker,
                   queue>>

\* The manager is cancelled, and a pass with it; or the operator is killed.
Stop ==
    /\ operator = "stopping" /\ marking = {}
    /\ operator' = "down"
    /\ worker' = Idle
    /\ queue' = {} /\ announce' = {} /\ globalQueued' = FALSE
    /\ UNCHANGED <<user, cluster, status, marking, faults>>

Crash ==
    /\ operator # "down" /\ faults < sc.faults
    /\ faults' = faults + 1
    /\ operator' = "down"
    /\ worker' = Idle
    /\ queue' = {} /\ announce' = {} /\ globalQueued' = FALSE
    /\ marking' = {}
    /\ UNCHANGED <<user, cluster, status>>

\* The watches list what exists; StartupHandler sends all dogus once more.
StartUp ==
    /\ operator = "down"
    /\ operator' = "up"
    /\ queue' = {d \in Dogus : Exists(d)}
    /\ globalQueued' = TRUE
    /\ UNCHANGED <<user, cluster, status, marking, announce, faults, worker>>

StepFails ==
    /\ worker.at \in Steps
    /\ faults < sc.faults
    /\ faults' = faults + 1
    /\ Goto("error")
    /\ UNCHANGED <<user, cluster, status, operator, marking, globalQueued,
                   announce, queue>>

-----------------------------------------------------------------------------
(* The environment: deployment controller (strategy Recreate), kubelet, the   *)
(* dogus reading their config, and whoever edits configs and dogu resources.  *)

Environment == <<sc, registered, status, operator, marking, announce, faults,
                 worker>>

\* Every change of the deployment's status queues the dogu.
PodChanges(d, new) ==
    /\ pod' = [pod EXCEPT ![d] = new]
    /\ queue' = IF operator = "down" THEN queue ELSE queue \cup {d}
    /\ UNCHANGED <<Environment, spec, edits, deployment, globalQueued>>

PodTerminates(d) ==
    /\ pod[d].phase \in {"started", "running"}
    /\ deployment[d].replicas = 0 \/ ~UpToDate(d)
    /\ PodChanges(d, [pod[d] EXCEPT !.phase = "terminating"])

PodGone(d) ==
    /\ pod[d].phase = "terminating"
    /\ PodChanges(d, NoPod)

\* A pod is created, and the kubelet accepts it: its start time is now.
PodStarted(d) ==
    /\ pod[d] = NoPod /\ deployment[d].replicas = 1
    /\ PodChanges(d, [NoPod EXCEPT !.phase = "started",
                          !.label = deployment[d].label,
                          !.restarted = IF deployment[d].restarted
                                        THEN "yes" ELSE "no"])

\* The dogu's container reads the configs and becomes available.
PodRunning(d) ==
    /\ pod[d].phase = "started"
    /\ PodChanges(d, [pod[d] EXCEPT !.phase = "running", !.current = TRUE])

\* A pod whose config was written just now.  The update is not later than the
\* start if it falls into the same second.
ConfigWritten(p) ==
    {[p EXCEPT !.current = FALSE, !.outdated = later] :
        later \in CASE p.phase = "none" -> {FALSE}
                     [] p.phase = "started" -> {p.outdated, TRUE}
                     [] p.phase = "running" /\ ~SlowStart -> {p.outdated, TRUE}
                     [] OTHER -> {TRUE}}

\* The dogu's config or sensitive config, which the dogu owns.
EditDoguConfig(d) ==
    /\ edits.config > 0 /\ Exists(d)
    /\ edits' = [edits EXCEPT !.config = @ - 1]
    /\ \E new \in ConfigWritten(pod[d]) : pod' = [pod EXCEPT ![d] = new]
    /\ queue' = IF operator = "down" THEN queue ELSE queue \cup {d}
    /\ UNCHANGED <<Environment, spec, deployment, globalQueued>>

EditGlobalConfig ==
    /\ edits.config > 0
    /\ edits' = [edits EXCEPT !.config = @ - 1]
    /\ pod' \in [Dogus -> UNION {ConfigWritten(pod[d]) : d \in Dogus}]
    /\ \A d \in Dogus : pod'[d] \in ConfigWritten(pod[d])
    /\ globalQueued' = (operator # "down")
    /\ UNCHANGED <<Environment, spec, deployment, queue>>

\* A dogu resource is created or changed while no pass is under way over it: a
\* dogu that is un-stopped behind ValidationStep, which asks a stopped one for
\* no dependencies, is started by StartStopStep without them.
EditSpec(d) ==
    /\ edits.spec > 0 /\ d \in sc.edited
    /\ At("idle") \/ worker.dogu # d
    /\ edits' = [edits EXCEPT !.spec = @ - 1]
    /\ \E new \in [version : Versions, stopped : BOOLEAN] :
           /\ new # spec[d]
           /\ spec' = [spec EXCEPT ![d] = new]
    /\ queue' = IF operator = "down" THEN queue ELSE queue \cup {d}
    /\ UNCHANGED <<Environment, deployment, pod, globalQueued>>

Cluster(d) ==
    PodTerminates(d) \/ PodGone(d) \/ PodStarted(d) \/ PodRunning(d)

Next ==
    \/ Pass \/ GlobalConfigReconcile \/ Shutdown \/ Stop \/ Crash \/ StartUp
    \/ StepFails \/ EditGlobalConfig
    \/ \E d \in Dogus : \/ StartPass(d) \/ SendDoguEvent(d) \/ MarkUnknown(d)
                         \/ Cluster(d) \/ EditDoguConfig(d) \/ EditSpec(d)

Spec == Init /\ [][Next]_vars

\* The worker goes on with its pass and takes every queued dogu in its turn
\* (the queue is first come, first served); the controllers and the
\* cluster go on; an operator that is down is started again.  Passes that
\* add and drop the restart annotation by turns leave the deployment's
\* controller, which reacts to each write, time to see it.
Fairness ==
    /\ WF_vars(Pass)
    /\ \A d \in Dogus : SF_vars(StartPass(d))
    /\ \A d \in Dogus : WF_vars(Cluster(d)) /\ SF_vars(PodTerminates(d))
    /\ WF_vars(GlobalConfigReconcile)
    /\ \A d \in Dogus : WF_vars(SendDoguEvent(d))
    /\ \A d \in Dogus : WF_vars(MarkUnknown(d))
    /\ WF_vars(Stop) /\ WF_vars(StartUp)

FairSpec == Spec /\ Fairness

-----------------------------------------------------------------------------
(* Properties                                                                 *)

\* The state has its shape.
TypeOK ==
    /\ sc \in Scenarios
    /\ spec \in [Dogus -> [version : Versions \cup {0}, stopped : BOOLEAN]]
    /\ edits \in [spec : Nat, config : Nat]
    /\ registered \in [Dogus -> Versions \cup {0}]
    /\ deployment \in [Dogus -> [label : Versions \cup {0},
                                 restarted : BOOLEAN, replicas : {0, 1}]]
    /\ pod \in [Dogus -> Pods]
    /\ health \in [Dogus -> {"none", "available", "unavailable", "unknown"}]
    /\ entry \in [Dogus -> {"none", "empty", "ready"}]
    /\ ready \in [Dogus -> {"true", "false", "unknown"}]
    /\ operator \in {"up", "stopping", "down"}
    /\ marking \subseteq Dogus /\ queue \subseteq Dogus
    /\ announce \subseteq Dogus
    /\ worker \in [at : Steps \cup Outcomes \cup {"idle"}, dogu : Dogus]
    /\ globalQueued \in BOOLEAN
    /\ faults \in 0..sc.faults

\* The pod of d that is asked for is a new one, or of another version.
Starts(d) ==
    /\ deployment'[d].replicas = 1
    /\ \/ deployment[d].replicas = 0
       \/ deployment'[d].label # deployment[d].label

\* A dogu is started, or started in another version, only while each of its
\* mandatory dependencies is installed in a version it allows, although these
\* are upgraded, and dogus are created stopped without validation, in between
\* (ValidationStep).  The spec of a dogu does not change during its pass
\* (EditSpec).
StartsWithDependencies ==
    [][\A d \in Dogus : Starts(d) =>
          \A e \in sc.mandatory[d] \ Skipped :
              registered[e] # 0 /\ registered[e] \in sc.allows[d][e]]_vars

\* What d needs, directly or not: the members of every set that has what d and
\* its own members need.
Reach(d, needs(_)) ==
    {e \in Dogus :
        \A S \in SUBSET Dogus :
            (\A f \in S \cup {d} : needs(f) \subseteq S) => e \in S}

\* The dogus reachable from d over the mandatory dependencies of a scenario
Closure(s, d) == Reach(d, LAMBDA e : s.mandatory[e] \ Skipped)

\* A dogu is started only if all it depends on, directly or not, is installed:
\* a dependency may have been installed stopped, without its own dependencies
\* (CheckDependenciesRecursive).  The premise of EditSpec is needed here, too.
StartsWithClosure ==
    [][\A d \in Dogus : Starts(d) =>
          \A e \in Closure(sc, d) \ {d} : registered[e] # 0]_vars

\* What the specs ask of d can be had: it is not stopped or downgraded, and
\* neither is what it depends on, in versions it allows, without a cycle.
Expected(d) ==
    \A e \in {d} \cup Reach(d, Checked) :
        /\ Exists(e) /\ ~spec[e].stopped /\ spec[e].version >= registered[e]
        /\ sc.client[e] /\ e \notin Reach(e, Checked)
        /\ \A f \in Checked(e) : spec[f].version \in sc.allows[e][f]

\* The dogu runs in its version, has read the configs as they are now, and is
\* reported so.
Running(d) ==
    /\ registered[d] = spec[d].version
    /\ deployment[d] = [label |-> spec[d].version, restarted |-> FALSE,
                        replicas |-> 1]
    /\ pod[d].phase = "running" /\ UpToDate(d) /\ pod[d].current
    /\ health[d] = "available" /\ entry[d] = "ready" /\ ready[d] = "true"

\* Every dogu that can be had comes to run with the configs as they are, and
\* is not restarted any more then.  This covers the order of installation, a
\* config changed at any moment of a pass or a restart, lost events of an
\* operator that is down, and the health that is unknown after a shutdown.
AllRun == <>[](\A d \in Dogus : Expected(d) => Running(d))
=============================================================================
