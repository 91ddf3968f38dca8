--------------------------- MODULE DoguReconciler ---------------------------
(* The reconciliation of one dogu: the passes of DoguReconciler.Reconcile     *)
(* over the steps of DoguInstallOrChangeUseCase, while the dogu resource is   *)
(* edited, pods come and go, calls fail and the operator is killed.           *)
(*                                                                            *)
(* A pass works on an in-memory copy (res) of the dogu resource.  Every       *)
(* successful UpdateStatusWithRetry replaces that copy by the resource as it  *)
(* is on the API server then, so the copy may change its spec in the middle   *)
(* of a pass.  Each step of the use case is one action; the two steps that    *)
(* run a script before they write the deployment are two actions each, since  *)
(* the second call can fail when the first was made.                          *)
EXTENDS Naturals, FiniteSets

CONSTANTS
    Versions,      \* versions of the dogu, ordered like core.Version
    PreUpgrade,    \* versions whose descriptor exposes a pre-upgrade command
    PostUpgrade,   \* versions whose descriptor exposes a post-upgrade command
    StartupProbe,  \* versions with a health check of type "state"
    EditFields,    \* sets of fields of the dogu's spec edited at once
    EditWhen,      \* when they are edited
    MaxEdits,      \* bound on the number of edits
    MaxFaults      \* bound on the number of failed calls and crashes

ASSUME ConstantsAssumption ==
    /\ Versions \subseteq Nat \ {0}
    /\ PreUpgrade \subseteq Versions
    /\ PostUpgrade \subseteq Versions
    /\ StartupProbe \subseteq Versions
    /\ EditWhen \in {"anytime", "betweenPasses", "whenSettled"}
    /\ MaxEdits \in Nat
    /\ MaxFaults \in Nat

VARIABLES
    spec,         \* the spec of the dogu resource on the API server
    edits,        \* number of edits so far
    pc,           \* the step a pass is at, how it ended, or "idle"
    res,          \* the spec in the pass's copy of the dogu resource
    queued,       \* the work queue holds a request for the dogu, now or by timer
    faults,       \* number of faults so far
    descriptors,  \* versions whose descriptor is in the local repository
    registry,     \* the version enabled in the local registry, 0 if none
    template,     \* the pod template of the deployment, NoTemplate if none
    replicas,     \* the replicas of the deployment
    pod,          \* the dogu's pod, NoPod if there is none
    execPod,      \* the dogu's exec pod, NoExecPod if there is none
    installed,    \* status.installedVersion, 0 if unset
    ready,        \* the Ready condition is True
    pre,          \* the last pre-upgrade script run, NoPreRun if none
    post          \* the last post-upgrade script run, NoPostRun if none

vars == <<spec, edits, pc, res, queued, faults, descriptors, registry,
          template, replicas, pod, execPod, installed, ready, pre, post>>

Specs == [version : Versions, stopped : BOOLEAN, exportMode : BOOLEAN,
          supportMode : BOOLEAN, forceUpgrade : BOOLEAN, paused : BOOLEAN]

\* The order of NewDoguInstallOrChangeUseCase, restricted to the steps that
\* read or write the state modelled here.
Steps == {"healthCheck", "fetchDescriptor", "validation", "pause",
          "register", "execPod", "customResources", "deployment", "startStop", "volumeExpander",
          "securityContext", "exportMode", "supportMode", "preUpgradeStatus",
          "updateVersion", "upsertVersion", "upgradeRegister",
          "deleteExecPod", "postUpgrade", "revertProbe", "installedVersion",
          "regenerate", "startedAt"}

\* How HandleUntilApplied ends: with a requeue time, an error, by a step that
\* does not continue, or after the last step.
Outcomes == {"requeue", "error", "abort", "applied"}

\* A sidecar exists in export mode only; it has the security context of the
\* exporter ("own") or the one of the dogu's container ("dogu").
Templates == [label : Versions \cup {0}, image : Versions \cup {0},
              probe : {"none", "default", "raised"},
              sidecar : {"none", "own", "dogu"}, support : BOOLEAN]

NoTemplate == [label |-> 0, image |-> 0, probe |-> "none",
               sidecar |-> "none", support |-> FALSE]

NoPod == [template |-> NoTemplate, up |-> FALSE]

NoExecPod == [image |-> 0, up |-> FALSE]

NoPreRun == [from |-> 0, to |-> 0, script |-> 0]

NoPostRun == [to |-> 0, on |-> 0]

-----------------------------------------------------------------------------
(* What the generators and managers compute.                                  *)

\* CreateStartupProbe: a probe only for descriptors with a state health check.
CreateStartupProbe(v) == IF v \in StartupProbe THEN "default" ELSE "none"

\* GetPodTemplate: the version label is the one of the resource, image and
\* probe are those of the descriptor that was passed in.
GetPodTemplate(r, v) ==
    [label |-> r.version, image |-> v, probe |-> CreateStartupProbe(v),
     sidecar |-> IF r.exportMode THEN "own" ELSE "none", support |-> FALSE]

\* Mutated: the upgraded deployment keeps its probe.
ProbeNotIncreased(t) == t

\* increaseStartupProbeTimeoutForUpdate, the patch of an upgraded deployment.
IncreaseStartupProbeTimeout(t) ==
    IF t.probe = "none" THEN t ELSE [t EXCEPT !.probe = "raised"]

\* setDoguPodTemplateInSupportMode
SetInSupportMode(t) == [t EXCEPT !.probe = "none", !.support = TRUE]

\* Mutated: one replica too many.
OneReplicaTooMany(r) == IF r.stopped THEN 0 ELSE 2

\* updateDeploymentSpec
ReplicasFor(r) == IF r.stopped THEN 0 ELSE 1

\* Mutated: the downgrade check is dropped.
NoUnallowedDowngrade(r) == FALSE

\* shouldAbortBecauseOfUnallowedDowngrade
UnallowedDowngrade(r) ==
    registry # 0 /\ r.version < registry /\ ~r.forceUpgrade

\* isDoguVersionUpdatedInDeployment
VersionUpdatedInDeployment(r) == template.label = r.version

\* The one pod with the dogu's labels and this version, if a command can be
\* executed in it (GetPodForLabels and ExecCommandForPod).
PodReachable(v) == pod.template.label = v /\ pod.up

\* isDeploymentInExportMode: the pod's exporter container is ready.
ExportModeActive == pod.template.sidecar # "none" /\ pod.up

-----------------------------------------------------------------------------
(* Frames.  A write that changes an owned object (deployment, exec pod, local *)
(* descriptors) puts the dogu back into the work queue (setupWithManager).    *)

user == <<spec, edits>>
local == <<descriptors, registry>>
deployment == <<template, replicas>>
scripts == <<pre, post>>

Init ==
    /\ spec \in {s \in Specs : ~ (s.stopped \/ s.exportMode \/ s.supportMode
                                  \/ s.forceUpgrade \/ s.paused)}
    /\ res = spec
    /\ pc = "idle"
    /\ queued = TRUE
    /\ edits = 0 /\ faults = 0
    /\ descriptors = {} /\ registry = 0
    /\ template = NoTemplate /\ replicas = 0
    /\ pod = NoPod /\ execPod = NoExecPod
    /\ installed = 0 /\ ready = FALSE
    /\ pre = NoPreRun /\ post = NoPostRun

\* A step that writes a new pod template and replica count.
WriteDeployment(t, n) ==
    /\ template' = t
    /\ replicas' = n
    /\ queued' = (queued \/ t # template \/ n # replicas)

-----------------------------------------------------------------------------
(* A pass: Reconcile reads the resource, runs the steps in order until one    *)
(* does not continue, then writes the Ready condition and requeues.           *)

StartPass ==
    /\ pc = "idle" /\ queued
    /\ pc' = "healthCheck"
    /\ res' = spec
    /\ queued' = FALSE
    /\ UNCHANGED <<user, faults, local, deployment, pod, execPod, installed,
                   ready, scripts>>

\* HealthCheckStep: the status update refreshes the copy of a dogu that has a
\* deployment.  For a new dogu InitializeConditionsStep does, if a condition is
\* missing.
HealthCheck ==
    /\ pc = "healthCheck"
    /\ pc' = "fetchDescriptor"
    /\ IF template = NoTemplate THEN res' \in {res, spec} ELSE res' = spec
    /\ UNCHANGED <<user, queued, faults, local, deployment, pod, execPod,
                   installed, ready, scripts>>

\* FetchRemoteDoguDescriptorStep: the remote registry has every version.
\* The descriptors are owned by the dogu from their registration on.
FetchRemoteDoguDescriptor ==
    /\ pc = "fetchDescriptor"
    /\ pc' = "validation"
    /\ descriptors' = descriptors \cup {res.version}
    /\ queued' = (queued \/ (registry # 0 /\ res.version \notin descriptors))
    /\ UNCHANGED <<user, res, faults, registry, deployment, pod, execPod,
                   installed, ready, scripts>>

\* ValidationStep: the checks of dependencies, security and mounts succeed or
\* fail like a fault (StepFails).
Validation ==
    /\ pc = "validation"
    /\ pc' = IF UnallowedDowngrade(res) THEN "abort" ELSE "pause"
    /\ UNCHANGED <<user, res, queued, faults, local, deployment, pod, execPod,
                   installed, ready, scripts>>

\* PauseReconciliationStep: the flag is tested after the copy was refreshed.
PauseReconciliation ==
    /\ pc = "pause"
    /\ res' = spec
    /\ pc' = IF spec.paused THEN "abort" ELSE "register"
    /\ UNCHANGED <<user, queued, faults, local, deployment, pod, execPod,
                   installed, ready, scripts>>

\* Mutated: a version is registered although an earlier one is.
RegisterAlways ==
    /\ pc = "register"
    /\ IF res.version \in descriptors
       THEN registry' = res.version /\ pc' = "execPod"
       ELSE pc' = "error" /\ UNCHANGED registry
    /\ queued' = (queued \/ registry' # registry)
    /\ UNCHANGED <<user, res, faults, descriptors, deployment, pod, execPod,
                   installed, ready, scripts>>

\* install.RegisterDoguVersionStep with RegisterNewDogu.
RegisterDoguVersion ==
    /\ pc = "register"
    /\ \/ /\ registry # 0
          /\ pc' = "execPod"
          /\ UNCHANGED registry
       \/ /\ registry = 0 /\ res.version \in descriptors
          /\ registry' = res.version
          /\ pc' = "execPod"
       \/ /\ registry = 0 /\ res.version \notin descriptors
          /\ pc' = "error"
          /\ UNCHANGED registry
    /\ queued' = (queued \/ registry' # registry)
    /\ UNCHANGED <<user, res, faults, descriptors, deployment, pod, execPod,
                   installed, ready, scripts>>

\* execPodFactory.Create: the name of the exec pod does not hold the version, so
\* one that exists is kept, whatever its image.
ExecPodFor(version) ==
    IF execPod = NoExecPod THEN [image |-> version, up |-> FALSE] ELSE execPod

\* CreateExecPodStep: on installation and upgrade only.
CreateExecPod ==
    /\ pc = "execPod"
    /\ \/ /\ res.stopped \/ VersionUpdatedInDeployment(res)
          /\ pc' = "customResources"
          /\ UNCHANGED <<execPod, queued>>
       \/ /\ ~ (res.stopped \/ VersionUpdatedInDeployment(res))
          /\ res.version \notin descriptors
          /\ pc' = "error"
          /\ UNCHANGED <<execPod, queued>>
       \/ /\ ~ (res.stopped \/ VersionUpdatedInDeployment(res))
          /\ res.version \in descriptors
          /\ execPod' = ExecPodFor(res.version)
          /\ queued' = (queued \/ execPod' # execPod)
          /\ pc' = "customResources"
    /\ UNCHANGED <<user, res, faults, local, deployment, pod, installed,
                   ready, scripts>>

\* CustomK8sResourceStep: an exec pod that exists has to run.
CustomK8sResource ==
    /\ pc = "customResources"
    /\ pc' = IF execPod # NoExecPod /\ ~execPod.up THEN "error" ELSE "deployment"
    /\ UNCHANGED <<user, res, queued, faults, local, deployment, pod, execPod,
                   installed, ready, scripts>>

\* Mutated: written even if there is a deployment, for the spec's version.
DeploymentAlwaysWritten ==
    /\ pc = "deployment"
    /\ pc' = "startStop"
    /\ WriteDeployment(GetPodTemplate(res, res.version), ReplicasFor(res))
    /\ UNCHANGED <<user, res, faults, local, pod, execPod, installed, ready,
                   scripts>>

\* CreateDeploymentStep: from the descriptor of the enabled version.
CreateDeployment ==
    /\ pc = "deployment"
    /\ pc' = "startStop"
    /\ IF template = NoTemplate
       THEN WriteDeployment(GetPodTemplate(res, registry), ReplicasFor(res))
       ELSE UNCHANGED <<deployment, queued>>
    /\ UNCHANGED <<user, res, faults, local, pod, execPod, installed, ready,
                   scripts>>

\* Mutated: the deployment is scaled down whatever the spec says.
ScalesDownOnly ==
    /\ pc = "startStop"
    /\ \/ /\ replicas = ReplicasFor(res)
          /\ pc' = IF res.stopped THEN "abort" ELSE "volumeExpander"
          /\ UNCHANGED <<res, deployment, queued>>
       \/ /\ replicas # ReplicasFor(res)
          /\ WriteDeployment(template, 0)
          /\ res' = spec
          /\ pc' = "requeue"
    /\ UNCHANGED <<user, faults, local, pod, execPod, installed, ready, scripts>>

\* StartStopStep; the volume has its size here.
StartStop ==
    /\ pc = "startStop"
    /\ \/ /\ replicas = ReplicasFor(res)
          /\ pc' = IF res.stopped THEN "abort" ELSE "volumeExpander"
          /\ UNCHANGED <<res, deployment, queued>>
       \/ /\ replicas # ReplicasFor(res)
          /\ WriteDeployment(template, ReplicasFor(res))
          /\ res' = spec
          /\ pc' = "requeue"
    /\ UNCHANGED <<user, faults, local, pod, execPod, installed, ready, scripts>>

\* VolumeExpanderStep.setSuccessCondition refreshes the copy.
VolumeExpander ==
    /\ pc = "volumeExpander"
    /\ res' = spec
    /\ pc' = "securityContext"
    /\ UNCHANGED <<user, queued, faults, local, deployment, pod, execPod,
                   installed, ready, scripts>>

\* SecurityContextStep: every container, the sidecar too, gets the context of
\* the dogu's container.
SecurityContext ==
    /\ pc = "securityContext"
    /\ pc' = "exportMode"
    /\ WriteDeployment([template EXCEPT !.sidecar =
                            IF @ = "none" THEN "none" ELSE "dogu"], replicas)
    /\ UNCHANGED <<user, res, faults, local, pod, execPod, installed, ready,
                   scripts>>

\* ExportModeStep with UpdateExportMode: as long as the pod is not in the
\* wanted mode the step fails, after it has brought the deployment into line.
\* The deployment is generated from the enabled version.
ExportMode ==
    /\ pc = "exportMode"
    /\ \/ /\ ExportModeActive = res.exportMode
          /\ res' = spec
          /\ pc' = "supportMode"
          /\ UNCHANGED <<deployment, queued>>
       \/ /\ ExportModeActive # res.exportMode
          /\ res.exportMode # (template.sidecar # "none")
          /\ res' = spec
          /\ WriteDeployment(GetPodTemplate(spec, registry), ReplicasFor(spec))
          /\ pc' = "error"
       \/ /\ ExportModeActive # res.exportMode
          /\ res.exportMode = (template.sidecar # "none")
          /\ pc' = "error"
          /\ UNCHANGED <<res, deployment, queued>>
    /\ UNCHANGED <<user, faults, local, pod, execPod, installed, ready, scripts>>

\* The pod template HandleSupportMode leaves, generated from the enabled
\* version when the mode changes.
SupportModeTemplate(r) ==
    IF r.supportMode = template.support THEN template
    ELSE IF r.supportMode THEN SetInSupportMode(GetPodTemplate(r, registry))
    ELSE GetPodTemplate(r, registry)

\* SupportModeStep: the pass ends here while the dogu is in support mode.
SupportMode ==
    /\ pc = "supportMode"
    /\ WriteDeployment(SupportModeTemplate(res), replicas)
    /\ res' = spec
    /\ pc' = IF SupportModeTemplate(res).support
             THEN "abort" ELSE "preUpgradeStatus"
    /\ UNCHANGED <<user, faults, local, pod, execPod, installed, ready, scripts>>

\* PreUpgradeStatusStep with IsUpgrade
PreUpgradeStatus ==
    /\ pc = "preUpgradeStatus"
    /\ pc' = "updateVersion"
    /\ IF res.version > registry
       THEN res' = spec /\ ready' = FALSE
       ELSE UNCHANGED <<res, ready>>
    /\ UNCHANGED <<user, queued, faults, local, deployment, pod, execPod,
                   installed, scripts>>

\* UpdateDeploymentVersionStep up to and with the pre-upgrade script, which is
\* copied from the exec pod into the pod of the enabled version and run there.
UpdateDeploymentVersion ==
    /\ pc = "updateVersion"
    /\ \/ /\ VersionUpdatedInDeployment(res)
          /\ pc' = "upgradeRegister"
          /\ UNCHANGED pre
       \/ /\ ~VersionUpdatedInDeployment(res)
          /\ res.version \in descriptors /\ execPod = NoExecPod
          /\ pc' = "requeue"
          /\ UNCHANGED pre
       \/ /\ ~VersionUpdatedInDeployment(res)
          /\ \/ res.version \notin descriptors
             \/ execPod # NoExecPod /\ ~execPod.up
             \/ /\ execPod.up
                /\ res.version \in PreUpgrade /\ ~PodReachable(registry)
          /\ pc' = "error"
          /\ UNCHANGED pre
       \/ /\ ~VersionUpdatedInDeployment(res)
          /\ res.version \in descriptors /\ execPod.up
          /\ res.version \in PreUpgrade => PodReachable(registry)
          /\ pre' = IF res.version \in PreUpgrade
                    THEN [from |-> registry, to |-> res.version,
                          script |-> execPod.image]
                    ELSE pre
          /\ pc' = "upsertVersion"
    /\ UNCHANGED <<user, res, queued, faults, local, deployment, pod, execPod,
                   installed, ready, post>>

\* UpdateDeploymentVersionStep, the write of the deployment
UpsertDeploymentVersion ==
    /\ pc = "upsertVersion"
    /\ WriteDeployment(
           IncreaseStartupProbeTimeout(GetPodTemplate(res, res.version)),
           ReplicasFor(res))
    /\ pc' = "requeue"
    /\ UNCHANGED <<user, res, faults, local, pod, execPod, installed, ready,
                   scripts>>

\* Mutated: the upgraded version is not enabled.
UpgradeNotRegistered ==
    /\ pc = "upgradeRegister"
    /\ pc' = "deleteExecPod"
    /\ UNCHANGED <<user, res, queued, faults, local, deployment, pod, execPod,
                   installed, ready, scripts>>

\* upgrade.RegisterDoguVersionStep with RegisterDoguVersion
UpgradeRegisterDoguVersion ==
    /\ pc = "upgradeRegister"
    /\ IF res.version \in descriptors
       THEN registry' = res.version /\ pc' = "deleteExecPod"
       ELSE pc' = "error" /\ UNCHANGED registry
    /\ queued' = (queued \/ registry' # registry)
    /\ UNCHANGED <<user, res, faults, descriptors, deployment, pod, execPod,
                   installed, ready, scripts>>

\* Mutated: the exec pod stays.
ExecPodNotDeleted ==
    /\ pc = "deleteExecPod"
    /\ pc' = "postUpgrade"
    /\ UNCHANGED <<user, res, queued, faults, local, deployment, pod, execPod,
                   installed, ready, scripts>>

\* DeleteExecPodStep
DeleteExecPod ==
    /\ pc = "deleteExecPod"
    /\ pc' = "postUpgrade"
    /\ execPod' = NoExecPod
    /\ queued' = (queued \/ execPod # NoExecPod)
    /\ UNCHANGED <<user, res, faults, local, deployment, pod, installed, ready,
                   scripts>>

\* PostUpgradeStep up to and with the post-upgrade script.  An upgrade is
\* recognized by a startup probe that differs from the descriptor's.
PostUpgradeScript ==
    /\ pc = "postUpgrade"
    /\ \/ /\ template.probe = CreateStartupProbe(res.version)
          /\ pc' = "installedVersion"
          /\ UNCHANGED post
       \/ /\ template.probe # CreateStartupProbe(res.version)
          /\ res.version \in PostUpgrade /\ ~PodReachable(res.version)
          /\ pc' = "error"
          /\ UNCHANGED post
       \/ /\ template.probe # CreateStartupProbe(res.version)
          /\ res.version \in PostUpgrade => PodReachable(res.version)
          /\ post' = IF res.version \in PostUpgrade
                     THEN [to |-> res.version, on |-> pod.template.image]
                     ELSE post
          /\ pc' = "revertProbe"
    /\ UNCHANGED <<user, res, queued, faults, local, deployment, pod, execPod,
                   installed, ready, pre>>

\* PostUpgradeStep.revertStartupProbeAfterUpdate: a missing probe is not set.
RevertStartupProbe ==
    /\ pc = "revertProbe"
    /\ WriteDeployment(
           [template EXCEPT !.probe = IF @ = "none" THEN "none"
                                      ELSE CreateStartupProbe(res.version)],
           replicas)
    /\ pc' = "requeue"
    /\ UNCHANGED <<user, res, faults, local, pod, execPod, installed, ready,
                   scripts>>

\* InstalledVersionStep: the version of the old copy is written, then the copy
\* is refreshed.
InstalledVersion ==
    /\ pc = "installedVersion"
    /\ installed' = res.version
    /\ res' = spec
    /\ pc' = "regenerate"
    /\ UNCHANGED <<user, queued, faults, local, deployment, pod, execPod, ready,
                   scripts>>

\* RegenerateDeploymentStep: skipped if the refreshed copy asks for another
\* version than the one just installed.
RegenerateDeployment ==
    /\ pc = "regenerate"
    /\ \/ /\ installed # res.version
          /\ pc' = "startedAt"
          /\ UNCHANGED <<deployment, queued>>
       \/ /\ installed = res.version /\ res.version \notin descriptors
          /\ pc' = "error"
          /\ UNCHANGED <<deployment, queued>>
       \/ /\ installed = res.version /\ res.version \in descriptors
          /\ WriteDeployment(GetPodTemplate(res, res.version), ReplicasFor(res))
          /\ pc' = "startedAt"
    /\ UNCHANGED <<user, res, faults, local, pod, execPod, installed, ready,
                   scripts>>

\* UpdateStartedAtStep with GetLastStartingTime: there has to be a pod.
UpdateStartedAt ==
    /\ pc = "startedAt"
    /\ IF pod = NoPod
       THEN pc' = "error" /\ UNCHANGED res
       ELSE pc' = "applied" /\ res' = spec
    /\ UNCHANGED <<user, queued, faults, local, deployment, pod, execPod,
                   installed, ready, scripts>>

\* Mutated: an aborted pass counts as a successful one.
AbortedPassIsReady ==
    /\ pc \in Outcomes
    /\ pc' = "idle"
    /\ ready' = (pc \in {"applied", "abort"})
    /\ queued' = (queued \/ pc \in {"requeue", "error"})
    /\ UNCHANGED <<user, res, faults, local, deployment, pod, execPod,
                   installed, scripts>>

\* The end of Reconcile with setReadyCondition and the requeue handler: an
\* aborted pass is not requeued.
FinishPass ==
    /\ pc \in Outcomes
    /\ pc' = "idle"
    /\ ready' = (pc = "applied")
    /\ queued' = (queued \/ pc \in {"requeue", "error"})
    /\ UNCHANGED <<user, res, faults, local, deployment, pod, execPod,
                   installed, scripts>>

Pass ==
    \/ StartPass \/ HealthCheck \/ FetchRemoteDoguDescriptor \/ Validation
    \/ PauseReconciliation \/ RegisterDoguVersion \/ CreateExecPod
    \/ CustomK8sResource \/ CreateDeployment \/ StartStop \/ VolumeExpander
    \/ SecurityContext \/ ExportMode \/ SupportMode \/ PreUpgradeStatus
    \/ UpdateDeploymentVersion \/ UpsertDeploymentVersion
    \/ UpgradeRegisterDoguVersion \/ DeleteExecPod \/ PostUpgradeScript
    \/ RevertStartupProbe \/ InstalledVersion \/ RegenerateDeployment
    \/ UpdateStartedAt \/ FinishPass

-----------------------------------------------------------------------------
(* Faults.  A call of a step fails before it has any effect (failing after    *)
(* its last write it ends like a failure of the next step), or the operator   *)
(* is killed: then the Ready condition keeps its value, and all dogus are     *)
(* reconciled after the restart (StartupHandler, initial list of the watch).  *)
(* A tail of Reconcile that cannot write the Ready condition ends like Crash. *)

StepFails ==
    /\ pc \in Steps
    /\ faults < MaxFaults
    /\ faults' = faults + 1
    /\ pc' = "error"
    /\ UNCHANGED <<user, res, queued, local, deployment, pod, execPod,
                   installed, ready, scripts>>

Crash ==
    /\ pc # "idle"
    /\ faults < MaxFaults
    /\ faults' = faults + 1
    /\ pc' = "idle"
    /\ queued' = TRUE
    /\ UNCHANGED <<user, res, local, deployment, pod, execPod, installed,
                   ready, scripts>>

-----------------------------------------------------------------------------
(* The environment: the cluster and whoever edits the dogu resource.          *)

\* The deployment's controller replaces a pod whose template is outdated only
\* after it is gone (strategy Recreate).
PodTerminates ==
    /\ pod # NoPod
    /\ replicas = 0 \/ pod.template # template
    /\ pod' = NoPod
    /\ queued' = TRUE
    /\ UNCHANGED <<user, pc, res, faults, local, deployment, execPod,
                   installed, ready, scripts>>

PodCreated ==
    /\ pod = NoPod /\ template # NoTemplate /\ replicas = 1
    /\ pod' = [template |-> template, up |-> FALSE]
    /\ queued' = TRUE
    /\ UNCHANGED <<user, pc, res, faults, local, deployment, execPod,
                   installed, ready, scripts>>

PodUp ==
    /\ pod # NoPod /\ ~pod.up
    /\ pod' = [pod EXCEPT !.up = TRUE]
    /\ queued' = TRUE
    /\ UNCHANGED <<user, pc, res, faults, local, deployment, execPod,
                   installed, ready, scripts>>

ExecPodUp ==
    /\ execPod # NoExecPod /\ ~execPod.up
    /\ execPod' = [execPod EXCEPT !.up = TRUE]
    /\ queued' = TRUE
    /\ UNCHANGED <<user, pc, res, faults, local, deployment, pod, installed,
                   ready, scripts>>

Settled ==
    /\ pc = "idle" /\ ~queued
    /\ pod = IF replicas = 0 THEN NoPod ELSE [template |-> template, up |-> TRUE]

MayEdit ==
    CASE EditWhen = "anytime" -> TRUE
      [] EditWhen = "betweenPasses" -> pc = "idle"
      [] EditWhen = "whenSettled" -> Settled

EditSpec ==
    /\ edits < MaxEdits
    /\ MayEdit
    /\ edits' = edits + 1
    /\ \E fields \in EditFields :
           spec' \in {s \in Specs : /\ s # spec
                                    /\ \A f \in DOMAIN s \ fields :
                                           s[f] = spec[f]}
    /\ queued' = TRUE
    /\ UNCHANGED <<pc, res, faults, local, deployment, pod, execPod, installed,
                   ready, scripts>>

Cluster == PodTerminates \/ PodCreated \/ PodUp \/ ExecPodUp

Next == Pass \/ StepFails \/ Crash \/ Cluster \/ EditSpec

Spec == Init /\ [][Next]_vars

\* The operator works off its queue and its steps; the cluster starts and
\* stops pods.  Nobody has to edit, and nothing has to fail.
Fairness ==
    /\ WF_vars(Pass)
    /\ WF_vars(PodTerminates)
    /\ WF_vars(PodCreated)
    /\ WF_vars(PodUp)
    /\ WF_vars(ExecPodUp)

FairSpec == Spec /\ Fairness
-----------------------------------------------------------------------------
(* Properties                                                                 *)

\* The state has its shape: the state the steps read from and write to the
\* cluster, and the copy of the resource a pass holds.
TypeOK ==
    /\ spec \in Specs /\ res \in Specs
    /\ edits \in 0..MaxEdits /\ faults \in 0..MaxFaults
    /\ pc \in Steps \cup Outcomes \cup {"idle"}
    /\ queued \in BOOLEAN /\ ready \in BOOLEAN
    /\ descriptors \subseteq Versions
    /\ registry \in Versions \cup {0} /\ installed \in Versions \cup {0}
    /\ template \in Templates /\ replicas \in {0, 1}
    /\ pod \in [template : Templates, up : BOOLEAN]
    /\ execPod \in [image : Versions \cup {0}, up : BOOLEAN]
    /\ pre \in [from : Versions \cup {0}, to : Versions \cup {0},
                script : Versions \cup {0}]
    /\ post \in [to : Versions \cup {0}, on : Versions \cup {0}]

\* The desired state: deployment, registry and status agree with the spec.
Applied(s) ==
    /\ template.label = s.version /\ template.image = s.version
    /\ registry = s.version /\ installed = s.version
    /\ replicas = 1 /\ ~s.stopped
    /\ ~template.support /\ ~s.supportMode
    /\ (template.sidecar # "none") = s.exportMode
    /\ execPod = NoExecPod

\* Once the dogu is Ready and nothing is queued for it, deployment, registry
\* and status are those of the spec on the API server, however edits, failures
\* and crashes interleaved with the passes (setReadyCondition re-reads the
\* resource and knows nothing of the spec the steps worked on).
ReadyMeansApplied ==
    pc = "idle" /\ ~queued /\ ready => Applied(spec)

\* The steps a pass is at, or has ended with, once it has found the dogu
\* started, and once it has found it out of support mode.
AfterSupportMode ==
    {"preUpgradeStatus", "updateVersion", "upsertVersion", "upgradeRegister",
     "deleteExecPod", "postUpgrade", "revertProbe", "installedVersion",
     "regenerate", "startedAt", "applied"}

AfterStartStop ==
    {"volumeExpander", "securityContext", "exportMode", "supportMode"}
        \cup AfterSupportMode

\* Why ReadyMeansApplied and the lifecycle hold.  As long as nothing is queued
\* a pass works on the current spec (every edit queues the dogu), and each
\* place that holds a version has been moved before the step that relies on it.
Inv ==
    /\ TypeOK
    /\ template # NoTemplate => template.label # 0
    /\ template.label # 0 => registry # 0
    /\ pc \in {"execPod", "customResources", "deployment", "startStop"}
                  \cup AfterStartStop => registry # 0
    /\ pc \in {"startStop"} \cup AfterStartStop => template.label # 0
    /\ pc # "idle" /\ ~queued => res = spec
    /\ pc \in AfterStartStop /\ ~queued => ~spec.stopped
    /\ pc \in AfterSupportMode /\ ~queued => ~spec.supportMode
    /\ pc \in {"upgradeRegister", "deleteExecPod", "postUpgrade",
               "revertProbe", "installedVersion"} =>
           template.label = res.version
    /\ pc \in {"deleteExecPod", "postUpgrade", "revertProbe",
               "installedVersion"} => registry = res.version
    /\ pc \in {"postUpgrade", "revertProbe", "installedVersion", "regenerate",
               "startedAt", "applied"} => execPod = NoExecPod
    /\ pc = "regenerate" => registry = installed /\ template.label = installed
    /\ pc = "regenerate" /\ ~queued => installed = spec.version
    /\ pc \in {"startedAt", "applied"} /\ ~queued => Applied(spec)
    /\ ReadyMeansApplied

\* The versions of the dogu move as DoguLifecycle says: an upgrade is
\* registered only for the version the deployment is labelled with, and the
\* status shows only a version that is deployed and registered (order of
\* UpdateDeploymentVersionStep, RegisterDoguVersionStep, PostUpgradeStep and
\* InstalledVersionStep).
Lifecycle == INSTANCE DoguLifecycle
    WITH deployed <- template.label, registered <- registry

LifecycleSpec == Lifecycle!Spec

\* The pre-upgrade script that runs is the one of the version upgraded to.
PreUpgradeScriptOfTarget == pre.script = pre.to

\* The image deployed goes to a lower version only if the spec forces it
\* (shouldAbortBecauseOfUnallowedDowngrade).
DowngradeRefused ==
    [][template.image # 0 /\ template'.image < template.image
         => spec.forceUpgrade]_vars

\* The image deployed changes only after the pre-upgrade script of the new
\* version, if it has one, ran for exactly this change.
UpgradeRunsPreUpgrade ==
    [][template.image # 0 /\ template'.image \in PreUpgrade \ {template.image}
         => pre.from = template.image /\ pre.to = template'.image]_vars

\* A version with a post-upgrade script becomes the installed version of an
\* upgraded dogu only after that script ran on an image of this version.
UpgradeRunsPostUpgrade ==
    [][installed # 0 /\ installed' \in PostUpgrade \ {installed}
         => post = [to |-> installed', on |-> installed']]_vars

\* When the four properties above are promised: edits wait until nothing is
\* left to do for the dogu, and touch neither export nor support mode.
Patience ==
    /\ EditWhen = "whenSettled"
    /\ \A fields \in EditFields : "exportMode" \notin fields
                                      /\ "supportMode" \notin fields

\* An installation or upgrade has begun and is not registered, or its exec pod
\* is still there.
Unfinished ==
    registry = 0 \/ template.image # registry \/ execPod # NoExecPod

BeforeValidation == {"idle", "healthCheck", "fetchDescriptor", "validation"}

\* Why they hold, but for the post-upgrade script: with patience an unfinished
\* upgrade keeps the dogu in the queue, so that the spec it began for stays as
\* it is, and no step ends the pass without a requeue.
UpgradeInv ==
    /\ ~spec.exportMode /\ ~spec.supportMode
    /\ ~template.support /\ template.sidecar = "none"
    /\ pod.template.sidecar = "none"
    /\ template.label = template.image
    /\ pod.template.label = pod.template.image
    /\ pc # "idle" => res = spec
    /\ pc \in AfterStartStop => ~spec.stopped
    /\ pc \notin BeforeValidation \cup Outcomes => ~UnallowedDowngrade(spec)
    /\ pc \notin BeforeValidation \cup Outcomes \cup {"pause"} => ~spec.paused
    /\ Unfinished =>
           /\ ~spec.stopped /\ ~spec.paused /\ ~UnallowedDowngrade(spec)
           /\ pc = "idle" => queued
           /\ pc \notin {"startedAt", "applied", "abort"}
           /\ template.image \in {0, registry, spec.version}
           /\ template.image = 0 => registry \in {0, spec.version}
           /\ execPod # NoExecPod => execPod.image = spec.version
    /\ pc = "upsertVersion" =>
           /\ template.label # spec.version
           /\ spec.version \in PreUpgrade =>
                  pre.from = registry /\ pre.to = spec.version
    /\ PreUpgradeScriptOfTarget

\* Why the post-upgrade script is not left out, if every version has a startup
\* probe: the probe is raised with the deployment of an upgrade and only goes
\* back to its default when the script has run, or the version is installed.
ProbeInv ==
    /\ template = NoTemplate => installed = 0
    /\ template # NoTemplate => template.probe \in {"default", "raised"}
    /\ template.probe = "default" \/ pc \in {"revertProbe", "installedVersion"} =>
           \/ installed \in {0, template.image}
           \/ template.image \notin PostUpgrade
           \/ post = [to |-> template.image, on |-> template.image]

\* What the spec asks for has been reached, or is refused or put off by it.
Reached(s) ==
    \/ UnallowedDowngrade(s)
    \/ s.paused
    \/ s.stopped /\ replicas = 0
    \/ ~s.stopped /\ s.supportMode /\ template.support
    \/ ready /\ Applied(s)

\* Reconciliation comes to an end in the desired state: eventually nothing is
\* queued any more, the pod is the one of the deployment, and the spec is
\* reached.
Converges == <>[](Settled /\ Reached(spec))
=============================================================================
