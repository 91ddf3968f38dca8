# TLA+ specifications of the k8s-dogu-operator

The k8s-dogu-operator installs, upgrades, configures and deletes *dogus*
(containerised applications) in a Kubernetes cluster. It is a set of controllers:
each takes a resource from a work queue, compares what its spec asks for with
what is in the cluster, and changes the cluster step by step. A pass may fail
after any step, the operator may be killed, and the resource may be edited while
a pass runs. These specifications say what holds nevertheless, and where the code
relies on more than it checks.

## The system and its parts

| Part | Code (under `src/controllers`) | Module |
|---|---|---|
| Dogu reconciler: queue, use cases, requeue, ready condition | `dogu_controller.go`, `dogu_requeue_handler.go`, `usecase/`, `steps/step.go` | `DoguReconciler` |
| Installation and upgrade | `steps/install`, `steps/upgrade`, `upgrade/` | `DoguReconciler`, abstractly `DoguLifecycle` |
| Export mode, support mode, security context | `steps/postinstall`, `manager/` | `DoguReconciler` |
| Exec pods, local descriptors | `exec/`, `cesregistry/` | `DoguReconciler` (in part) |
| Start and stop | `steps/postinstall/startStopStep.go` | `DoguReconciler`, `DoguRestart`, `VolumeExpansion`, `Ecosystem` |
| Restart controller and its garbage collection | `dogurestart_controller.go`, `restartInstruction.go`, `garbagecollection/` | `DoguRestart` |
| Service accounts, auth registrations | `serviceaccount/`, `authregistration/` | `ServiceAccounts` |
| Deletion | `steps/deletion` | `ServiceAccounts` |
| Data volume and its expansion | `createVolumeStep.go`, `volumeExpanderStep.go`, `resource/volumeGenerator.go` | `VolumeExpansion` |
| Dependencies between dogus | `dependency/`, `health/doguChecker.go` | `Ecosystem` |
| Health, shutdown and start of the operator | `health/`, `initfx/controllerManager.go` | `Ecosystem` |
| Restart after a config change | `restartAfterConfigChangeStep.go`, `updateStartedAtStep.go`, `GlobalConfigReconciler.go` | `Ecosystem` |
| Network policies | `networkPoliciesStep.go`, `resource/networkPolicyGenerator.go`, `resource/upserter.go` | `NetworkPolicies`, in `DoguObjects` |
| Services and their annotations | `serviceStep.go`, `annotation/` | `ServiceAnnotations`, in `DoguObjects` |
| Pod templates | `resource/resource_generator.go`, `resource/volumeGenerator.go` | `PodTemplates`, in `DoguObjects` |
| Additional mounts | `additionalMount/`, `manager/doguAdditionalMountManager.go` | `PodTemplates`, `DoguObjects` |
| Security validation | `security/` | a validation that may fail |
| Image registry, configuration, wiring, logging | `imageregistry/`, `config/`, `initfx/`, `logging/` | not modelled: reads and start-up code |

The parts meet in few places. The dogu's controller and the restart controller
each have one worker and share `spec.stopped` and `status.stopped`. The steps of
a pass share the deployment, of which each compares and changes a part. Every
write to an object the dogu owns puts the dogu back into the queue
(`setupWithManager`). The pass of a service provider queues its consumers
through an event channel, and so do the controller of the global config and the
start-up handler with all dogus. Dogus meet in the local registry and in each
other's reported health, which the validation of a pass reads.

## How the modules model the code

A pass is a program counter `pc` that goes through the steps in the order of
`usecase.go`; each step is an action. Where a step makes two calls whose second
may fail after the first had its effect, it is two actions. A pass works on a
copy `res` of the dogu's spec, and every successful `UpdateStatusWithRetry`
replaces that copy by the current one. So later steps may work on a spec that
earlier ones have not seen; most of what is hard in this code comes from there.

`DoguLifecycle` is the promise about versions: deployment, local registry and
status hold one each and move in this order.

`DoguReconciler` is the reconciliation of one dogu. State: the spec and its copy,
the queue, the local descriptors and the enabled version, the pod template
(version label, image, startup probe, exporter sidecar, support mode), replicas,
the pod, the exec pod, `installedVersion`, the ready condition, and the last
script runs as history variables. The environment replaces pods
(strategy Recreate), edits the spec, makes a step fail or kills the operator.

`DoguRestart` has several `DoguRestart` resources with their phases, the restart
worker, the part of the dogu's pass that scales the deployment, and the garbage
collection of old restarts.

`ServiceAccounts` has one consumer and its accounts at dogus and components. An
account is a number: `valid` is the one the provider accepts, `creds` the one in
the sensitive config, so credentials that are stale or lost can be told from good
ones. Whether auth registrations are enabled is chosen in `Init`, and so is whether
the dogu is restored and which credentials the backup has brought back; those for
CAS belong to no account if auth registrations are enabled, and are replaced by the
ones of the registration.

`VolumeExpansion` has the claim's request, the volume's capacity, the replicas,
and the steps that compare them with `minDataVolumeSize`. SetCurrentDataVolumeSize
writes the claim (`RaiseToCapacity`) and then the status of the dogu, as two actions.

`Ecosystem` has several dogus under one operator. One worker takes dogus from the
queue and runs the steps that read or write what dogus share: the registered
versions, the health in their status, their deployments and pods, the health
config map, the configs. Times appear only as the question the code asks of them,
whether a config was updated in a later second than the pod was started
(`pod.outdated`); `pod.current` is the truth it stands for. The controller of the
global config, the handlers that run when the operator starts and stops, and the
deployment's controller take their steps in between. A scenario (a constant) gives
descriptors, specs and bounds.

`DoguObjects` has the objects generated for one dogu. The pure parts are modules
of operators, each with the source's function behind every operator:
`NetworkPolicies` (the set of policies), `ServiceAnnotations` (ports and
annotations of the service; a text is its leading slashes and the rest, the order
of a Go map is a choice; which services the API server refuses: those without a port,
or with one number for TCP and UDP), `PodTemplates` (volumes, containers, what they mount
where; also which templates the API server refuses). They share `GoCollections`,
which says what Go's loops over maps and slices give. `DoguObjects` puts them into
the steps of a pass, some of which use the descriptor of the spec's version and
some the installed one. What the objects should be is said by definitions of their
own (`Shows`, `Copied`, `Guarded`), written from what the objects are for and not
from the generators. The spec is edited between passes; edits during a pass are
the subject of `DoguReconciler`.

The modules share the steps they overlap in (StartStopStep,
RegenerateDeploymentStep) as actions of their own on the part of the state each
is about. In `DoguReconciler` the volume has its size already.

## Runs

Every run belongs to a cfg of its name. State counts are distinct states.

| Run | States | Shows |
|---|---|---|
| `reconcile_anytime` | 4.0 M | Edits at any moment: a dogu that is ready and has nothing queued agrees with its spec; `Inv`; refinement of `DoguLifecycle` |
| `patient` | 142 k | Edits of a settled dogu: scripts run, no unforced downgrade, and `UpgradeInv` and `ProbeInv`, which say why; convergence |
| `restart_safety` | 2.3 M | Overlapping restarts, edits, deletion, all faults: a completed restart has restarted the dogu; history limits, and `HistoryInv`, which says why; only the oldest restarts are collected |
| `restart_live` | 258 k | Overlapping restarts leave the dogu started, also if one that is due for a retry is garbage collected; a restart that no other interferes with ends |
| `accounts_safety` | 2.3 M | Stored credentials are valid, are forgotten only when the account is gone; a deleted dogu leaves nothing of its own objects |
| `accounts_live` | 864 k | Accounts follow their providers; a deletion ends |
| `volume` | 215 k | An expansion stops the dogu, raises the claim, and ends with the dogu running |
| `ecosystem` | 333 k | Several dogus: none is started without its dependencies, directly or not; all that can run end up running with the current configs, and reported so |
| `objects` | 146 k | Service, policies and template follow version, dependencies and mounts; a copied mount is always visible to the dogu; every spec that can be met is met |
| `v_export`, `v_downgrade`, `v_mounts` | | Statements of the documentation or the code that the code does not meet |

### Premises and bounds

Two kinds of restriction have to be kept apart. A *bound* (number of edits,
faults, outages, restarts) makes the state space finite. A *premise* excludes a
situation in which the property does not hold. Each passing run was also checked
with larger bounds, with the same outcome:

* `reconcile_anytime` with 2 faults (6.8 M states);
* `patient` with 4 edits (237 k), and with 2 faults (239 k);
* `restart_safety` with 2 faults (8.1 M), `restart_live` with 3 faults (477 k);
* `accounts_safety` with 3 faults and 2 outages (12.7 M), `accounts_live` with 2
  outages (2.7 M);
* `volume` with 4 edits and 3 faults (536 k);
* `ecosystem`: the chain with only `c` created and 3 edits of specs (392 k), the one
  dogu with 2 faults (240 k) and with 3 edits of configs (165 k);
* `objects`: `Ports` with 4 edits and 3 faults (211 k), `Mounts` with the same
  (227 k), `Upgrade` with the same together with `Invalid` with 3 edits and 2
  faults (102 k).

Two or three versions are enough for an upgrade, a downgrade and a change of the
target; three restarts with limits of 1 for a collection that has a choice; three
accounts for one of each kind; three sizes for an expansion that is changed while
it is under way.

`ecosystem` starts from four scenarios: one dogu whose configs are edited twice
while steps fail or the operator goes down; two dogus of which one needs the
other, both running; a chain of three in which what is needed comes later, stopped
or in a version too low; two that need each other and a third that would use one.
`objects` starts from five: an upgrade that changes ports, settings and
dependencies, from one web application to two, whose entries may come in either order; mounts and version edited between passes; an upgrade that adds
volumes and a dependency while mounts change; specs that cannot be met in the
different ways there are; a first version that cannot be deployed.

The premises, and what happens without them:

| Run | Premise | Without it |
|---|---|---|
| `patient` | no support mode | `UpgradeRunsPreUpgrade` and `UpgradeRunsPostUpgrade` fail after three edits: leaving the mode writes the label of the new version, and UpdateDeploymentVersionStep takes the deployment for updated; `Converges` still holds |
| `patient` | no export mode | `Converges` fails (`v_export`) |
| `patient` | edits only of a settled dogu | with `EditWhen = "betweenPasses"`, `PreUpgradeScriptOfTarget` fails (the exec pod of the abandoned target is reused) and `Converges` fails (the pod of the registered version, in which the script has to run, is gone); with `"anytime"`, `DowngradeRefused` fails (`v_downgrade`) |
| `patient` | every version has a startup probe | with `StartupProbe = {}`, `UpgradeRunsPostUpgrade` fails: the raised probe is the only sign of an upgrade |
| `restart_live` | `WritesDuringPass = FALSE` | `DoguStartedAgain` fails: RegenerateDeploymentStep scales the dogu down, StartStopStep finds nothing to do, `status.stopped` is never set and the dogu stays down |
| `restart_live` | no fault of kind `reportStopped` or `crash` | the same: a deployment that is scaled already makes StartStopStep skip the status |
| `restart_live` | `FailedLimit` is not 0 | `DoguStartedAgain` fails: the garbage collection of an older event deletes the restart that has failed with the dogu stopped, before it is retried; with a limit above 0 a newer failed restart is left, and starts the dogu |
| `accounts_safety` | `Removable = {}` | `CredentialsValid` fails: the credentials survive a reinstallation of the provider |
| `accounts_live` | no fault of kind `step` | `DeletionCompletes` fails: a failed deletion pass is not requeued |
| `volume` | `RoundsUp = FALSE` | `ExpansionCompletes` fails: with request < size <= capacity StartStopStep (request) stops the dogu and RegenerateDeploymentStep starts it, for ever, as VolumeExpanderStep (capacity) does not raise the request |
| `volume` | `Online = TRUE` | `ExpansionCompletes` fails: StartStopStep starts the dogu as soon as the request is raised, and a storage that expands unused volumes only never gets to it |
| `ecosystem` | `SlowStart = TRUE`: a dogu reads its configs after the second of its pod's start | `AllRun` fails: a config changed within that second, after it was read, is not seen as newer |
| `ecosystem` | specs are edited while no pass runs over the dogu | `StartsWithDependencies` and `StartsWithClosure` fail: ValidationStep asks a stopped dogu for no dependencies; if it is un-stopped during the same pass, the resource is refreshed, and StartStopStep or CreateDeploymentStep start it without them. `AllRun` still holds (542 k states) |
| `ecosystem` | no cycle among installed dogus (a conjunct of `Expected`, over the dependencies the recursive check follows) | the recursive check of dependencies does not return; the worker is lost for all dogus |
| `objects` | a volume a mount goes to is in both versions of an upgrade | `ObjectsConverge` fails (`v_mounts`) |
| `objects` | `Upgrade` is edited only when settled | `ObjectsConverge` fails: AdditionalMountsStep rewrites the volumes of a template that is already of the new version from the installed descriptor, and the API server refuses it |
| `objects` | in `Upgrade` the image of the init container is fixed | the same, after a restart of the operator with another image |
| `objects` | `Invalid` is edited when there is a deployment | `ObjectsConverge` fails: a first version that cannot be deployed is registered, and CreateDeploymentStep uses it whatever the spec says later |
| `objects` | no ConfigMap and Secret of the same name among the mounts of a spec | `MountsFollowSpec` fails: volumes are told apart by the name of their source only |
| `objects` | a volume keeps its path over versions | `CopiesVisible` fails: the init container of the old descriptor in a template of the new one |

`DeletionCompletes`, `AccountsFollow` and `RestartsEnd` state their premises
themselves. `DeletionCompletes` asks components to be ready during the deletion: one
that was down comes back without announcing itself, and nothing takes up the
deletion pass that failed on it. For the same reason `AccountsFollow` leaves out
optional components. `RestartsEnd` leaves out restarts that are in progress at the same
time as another: one may wait for ever for a stop that the other has undone.

Creation times of restarts are taken to differ. They have whole seconds, and of
several restarts of one second the garbage collection may delete any.

### Fairness

* The operator works off its queue: weak fairness of a pass (controller-runtime
  hands out every queued request, and steps return). A failing step is never
  forced, and nobody has to edit anything.
* The cluster starts and stops pods, binds and expands volumes: weak fairness of
  each, as the controllers of Kubernetes and the storage do.
* `DoguRestart` has strong fairness for taking each restart from the queue (the
  queue is first come, first served, while the worker is busy in between) and for
  the write of `spec.stopped` (passes over the dogu end, and the write is enabled
  between them).
* `ServiceAccounts`: the passes of providers end, auth registrations are
  completed, and a provider that is down comes back. One that is not installed
  need not be.
* `Ecosystem`: strong fairness for taking each dogu from the queue, which is first
  come, first served. The operator is started again when it is down. Strong
  fairness for the deployment's controller ending a pod that is not of the current
  template: a pass may remove the annotation a restart has written and the next
  write it again, and the controller, which reacts to each write, sees one of
  them. Steps do not fail for ever (a bound on faults), shutdowns end.
* `DoguObjects`: weak fairness of the pass.

No run checks for deadlock: an operator with an empty queue has nothing to do.

## Disagreements between code and documentation

* `v_export`: in export mode SecurityContextStep and RegenerateDeploymentStep
  write different security contexts for the sidecar, and each write queues the
  dogu again.
* `v_downgrade`: a version written after the validation of a pass reaches the
  deployment without validation, since later steps refresh the resource.
* `v_mounts`: version and additional mounts are changed together, and a mount goes
  to a volume that only the new version has. ValidationStep accepts it by the new
  descriptor; AdditionalMountsStep, in front of the upgrade, refuses it by the
  installed one in every pass.

Seen in the code, and not the subject of a run:

* `restartInstruction.go:222` returns an error in order to retry, but the phase
  `FailedGetDogu` written before is one for which nothing is done.
* An account created at a provider whose credentials could not be stored is not
  removed if the dogu is deleted before a pass succeeds: the config is the only
  record of accounts.
* `status.dataVolumeSize` is written only before the claim is raised, so it does
  not show the new size after an expansion, as `expand_volume_en.md:52` says.
* `volumeExpanderStep.go:71` compares encoded lengths of a claim's spec and a
  quantity, which are never equal; line 77 drops the result it builds.
* Support mode and upgrade, restart during a pass, and a volume with more capacity
  than requested: see the premises of `patient`, `restart_live` and `volume`.
  Documentation: `dogu_upgrades_internally_en.md:6`, `expand_volume_en.md:30`.
* `docs/operations/annotations_en.md:70` shows one entry with the pass
  `/my-dogu-name` for an image with two ports, the tag `webapp` and the name
  `superapp-ui`; the code makes one entry for each TCP port, and without a variable
  for it the pass is the name of the service, `/superapp-ui`
  (`ces_service_annotator.go`, and `test_additional_services_expected.yaml` agrees).
  `ServiceFollowsImage` is stated as the code and its tests have it.
* Ports of a service are read from a map: their order, and with it the default
  port of additional services, may change in every pass, and each change queues
  the dogu again.
* The policy for the gateway is never removed, and a dependency that changes from
  dogu to component keeps the policy of its old kind: policies are compared by the
  name of the dependency. `Guarded` is stated at that level.
* A pass that has requested a restart because of a config reports the dogu ready
  all the same at its end; the pass after it corrects the health.
* The shutdown handler runs while passes go on, which may overwrite what it has
  written. The next start repairs it (`AllRun`).
* IsAvailable does not compare the generation its status was observed for, so a
  deployment that has just changed may count as available.
* The exporter's sidecar mounts the data volume whenever a volume is backed up,
  also if those have a client and no data volume is generated.

## Proofs

Proved with TLAPS for all values of the constants that satisfy the named
assumptions (`ConstantsAssumption`, `RestartAssumption`, `VolumeAssumption`,
`AccountsAssumption`, `EcosystemAssumption`, `ObjectsAssumption`), that is for any
set of versions, number of restarts, accounts, edits and faults, any dogus and
dependencies, any descriptors:

* `DoguReconcilerProofs`: `Invariance`, `TypeCorrectness`, `ReadyIsApplied`,
  `RefinesLifecycle`.
* `DoguUpgradeProofs`, for edits of a settled dogu without export and support mode
  (`Patience`): `UpgradeInvariance`, `PreUpgradeOfTarget`, `DowngradesRefused`,
  `UpgradesRunPreUpgrade`, and, if every version has a startup probe,
  `ProbeInvariance`, `UpgradesRunPostUpgrade`.
* `DoguRestartProofs`: `RestartInvariance`, `RestartTypes`, `CompletionIsRestart`,
  `HistoryInvariance`, `HistoryWithinLimits`, `NewestAreKept`.
* `VolumeExpansionProofs`: `VolumeInvariance`, `VolumeTypes`, `SettlesAsAsked`,
  `RaisesWhileStopped`.
* `ServiceAccountsProofs`: `AccountsInvariance`, `AccountsTypes`, `GoneIsClean`,
  `ForgetsOnceRemoved`, and `CredentialsStayValid` for providers that are not
  uninstalled (`Removable = {}`).
* `EcosystemProofs`: `EcosystemTypes`, `StartedWithDependencies`,
  `StartedWithClosure`.
* `DoguObjectsProofs`: `ObjectsTypes`, `PoliciesFollow`, `ServiceFollows`,
  `MountsFollow`, `CopiesAreVisible`, `SettledCopiesAreVisible`. What the generators
  of services and templates return is proved in `GeneratorLemmas`.

A theorem that needs more than the assumptions on constants says so in its
hypotheses. The runs satisfy each of them.

| Hypothesis | Of | What the code does otherwise |
|---|---|---|
| `Patience` | the theorems of `DoguUpgradeProofs` | see `patient` above, and `v_downgrade` |
| `StartupProbe = Versions` | `UpgradesRunPostUpgrade` | the raised probe is the only sign of an upgrade |
| `Removable = {}` | `CredentialsStayValid` | credentials survive a reinstalled provider |
| guard of `EditSpec`, in the specification | `StartedWithDependencies`, `StartedWithClosure` | see `ecosystem` above |
| `OneTypePerName` | `MountsFollow` | one volume for a ConfigMap and a Secret of the same name (`createAdditionalDataVolumes`) |
| `KeepsVolumes` | `CopiesAreVisible` | an upgrade that stops between UpdateDeploymentVersionStep and RegisterDoguVersionStep leaves a template of the new version, whose init container AdditionalMountsStep makes from the installed one; `SettledCopiesAreVisible` does without |

*Ready means applied.* The ready condition is written by a function that knows
nothing of the spec the steps worked on, so the property is not inductive. What
carries it is that every edit queues the dogu: as long as nothing is queued, the
copy of a pass is the current spec. `Inv` adds to this what each step has
established for the ones behind it (dogu started, support mode off, deployment
labelled, version registered, exec pod gone). One step of the proof per action
shows that it is kept; types are kept by a lemma of their own (`TypeStep`).

*Refinement.* With deployment label, registry and `installedVersion` for the
variables of `DoguLifecycle`, each action is a lifecycle step or a stutter. `Inv`
is needed for the two that register or confirm a version: they read the copy, and
`Inv` says that the label, and then the registry, agree with it there.

*Upgrades.* The scripts, the image and the installed version are written in
different passes if calls fail in between. `UpgradeInv` says that an unfinished
upgrade keeps the dogu queued; so the spec stays as it is until the upgrade is
registered, the exec pod belongs to its target, and the version validated is the
one deployed. `ProbeInv` follows the only record of the post-upgrade script that
is due, the raised startup probe: it is back at its default only when the script
has run for the image deployed, or none was due.

*Completed means restarted.* The restart controller only sees `status.stopped`.
`RestartInv` says that past the report of the stop the dogu is still reported
stopped or its start has been reported since.

*History.* The limits hold only when nothing is pending: a restart is over before
the garbage collection that follows. `HistoryInv` counts the ones that wait for no
reconciliation; whatever ends, is edited or fails leaves the count within the
limit. That a collection leaves exactly as many as the limit allows, and the newest
ones, is a matter of counting (`NewestAtMost`, `NewestAtLeast`), and holds for any
part of the deletions that was made before a call failed (`NewerOnesKept`).

*Settled as asked.* `VolumeInv` again rests on the copy being current while
nothing is queued, and on what VolumeExpanderStep has found before
RegenerateDeploymentStep starts the dogu.

*Raised while stopped.* The claim is raised three steps after StartStopStep has
scaled the deployment, and the resource is re-read in between. `RaiseInv` says
that a claim that is still below the quantity the pass goes by belongs to a
deployment scaled to 0: the quantity was taken from the copy StartStopStep has
decided on.

*Accounts.* A provider is called before the config is written, and a removal goes
on after a problem. `AccountsInv` therefore relates three records of an account:
the copy of the config agrees with the config but for accounts that are gone
(`CopyInv`), a removal without a problem has left no credentials of an account
that exists (`RemovedInv`), and the steps of a deletion follow each other
(`DeletionInv`). From there no credentials are dropped early, and a deleted dogu
leaves nothing. `CredentialsInv` adds what the validity of credentials needs: a
restored dogu keeps its mark until every account at a component is removed, and
behind AuthRegistrationStep, and while no pass is due, the credentials for CAS are the
ones of a completed registration, whatever a backup has brought back. Steps with several outcomes have a lemma each that says what they
change (`CreateEffect`, `RemoveEffect`, ...).

*Started with dependencies.* The validation comes several steps before the steps
that start a dogu, and other dogus are registered and edited meanwhile.
`EcosystemInv` says that what ValidationStep has found still holds at every step
behind it: the one worker registers only the dogu of its pass, which is not its
own dependency, and versions that are registered are not removed. `StartedByPass`
shows that no other action writes a deployment. For the indirect dependencies, the
recursive check is followed level by level: a dogu that is healthy on one level has
dependencies that are healthy on the level below (`HealthyIsInstalled`), so the
healthy ones are a closed set of installed dogus and contain `Closure`, the least
closed set. That the recursion has a value on every level (`ResultOnLevels`) is
shown by leading a least level without one to a contradiction, since the library's
induction theorems cannot be applied.

*Policies follow.* Policies are written from the installed descriptor and the
property is about the one of the spec. `PoliciesInv` says that all policies are
generated ones (so whatever subset of calls has failed can be completed), that
as long as nothing has queued the dogu again, they are those of the installed
version behind NetworkPoliciesStep, and that a pass that ends applied, or a dogu
that is settled, has the spec's version installed. `UpsertGuards` shows of the
upsert itself that from any generated policies it leads to exactly the
dependencies of the descriptor.

*Objects.* `SettledInv` says what a step leaves for the ones behind it, until the
pass fails or the next one is due: behind ServiceStep the service is one that the
generator returns for the spec's version, in some order of the maps; behind
ValidationStep the mounts are valid; and at the end the template is the one of
the spec. It holds because the spec is edited between passes only. So a settled
dogu has a service and a template made from one descriptor, and the rest is about
pure functions. `GeneratorLemmas` shows that a loop that appends returns one value
for each iteration that appends one (`Kept`), that the annotation has one entry for
each web application and each additional service, in whatever order the ports are
read (`ServiceShown`), and that sources and targets of all copies are mounted
(`SourcesAreVolumes`, `CopiesMounted`). `CopiesInv` is for the states in between,
where init container and dogu container may be of two versions.

Only model-checked is liveness: `Converges`, `RestartsEnd`, `DoguStartedAgain`,
`AccountsFollow`, `DeletionCompletes`, `ExpansionCompletes`, `AllRun`,
`ObjectsConverge`. Fairness and ENABLED are beyond the prover. Every safety property
of a passing run is stated by a theorem.

## Not modelled, and why

* The lag of the informer cache: reads are current.
* Texts, events and logs.
* Resource requirements, security contexts and probes of generated containers
  beyond what steps compare; custom resources of dogus. They are functions of the
  descriptor and the config without state of their own.
* Deletion of a dogu while others depend on it: `ServiceAccounts` has the
  deletion of one dogu, `Ecosystem` none.
* A change of `exportMode` in `DoguObjects`: it is part of `DoguReconciler`.
* Files copied between pods: one step that works or fails.
* Image registry, configuration, wiring: no state after the start.
* Development dogus, and changes of an existing auth registration.

## Plan

In this order:

1. A composition of `DoguReconciler` with `DoguRestart`, to replace the part of
   the pass that `DoguRestart` models itself.
2. Deletion of dogus in `Ecosystem`, with the health entries and dependents that
   remain.
3. Changes of an existing auth registration, and rotated credentials.
