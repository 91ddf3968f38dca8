-------------------------- MODULE DoguUpgradeProofs --------------------------
(* The scripts of an upgrade and the refusal of downgrades, for every set of  *)
(* versions, scripts and probes and any number of edits and faults, provided  *)
(* that edits wait until the operator has nothing left to do.                 *)
EXTENDS DoguReconcilerProofs

USE DEF user, local, deployment, scripts

\* Versions are ordered like the natural numbers, above "none".
LEMMA VersionsNat == \A v \in Versions \cup {0} : v \in Nat
<1>1. Versions \subseteq Nat \ {0}
  BY ConstantsAssumption
<1>2. \A v \in Versions : v \in Nat
  BY <1>1, Zenon
<1> QED BY <1>2

-----------------------------------------------------------------------------
(* UpgradeInv                                                                 *)

\* A new dogu, and the cluster before its first pass
LEMMA UpgradeInit == Init => UpgradeInv
<1> SUFFICES ASSUME Init PROVE UpgradeInv
  OBVIOUS
<1>1. spec.exportMode = FALSE /\ spec.supportMode = FALSE /\ spec.stopped = FALSE
          /\ spec.paused = FALSE
  BY DEF Init, Specs
<1> QED
  BY <1>1 DEF Init, UpgradeInv, Unfinished, UnallowedDowngrade, NoTemplate, NoPod,
     NoExecPod, NoPreRun, AfterStartStop, AfterSupportMode, BeforeValidation, Outcomes, PreUpgradeScriptOfTarget

\* Each step keeps what an unfinished upgrade relies on.
LEMMA UpgradeStep ==
    ASSUME Patience, Inv, UpgradeInv, [Next]_vars
    PROVE  UpgradeInv'
<1> TypeOK /\ TypeOK'
  BY TypeStep DEF Inv
<1>v. /\ res \in Specs /\ spec \in Specs /\ template \in Templates
      /\ res.version \in Versions /\ res.version # 0 /\ spec.version # 0
      /\ registry \in Versions \cup {0}
  BY SpecFields, ConstantsAssumption DEF TypeOK
<1>n. spec.version \in Nat /\ registry \in Nat
  <2>1. spec.version \in Versions
    BY <1>v, SpecFields
  <2> QED BY <2>1, <1>v, VersionsNat
<1> USE <1>v DEF Inv, UpgradeInv, Unfinished, UnallowedDowngrade, AfterStartStop,
        AfterSupportMode, BeforeValidation, Outcomes, PreUpgradeScriptOfTarget
<1>1. CASE StartPass
  BY <1>1 DEF StartPass
<1>2. CASE HealthCheck
  BY <1>2 DEF HealthCheck
<1>3. CASE FetchRemoteDoguDescriptor
  BY <1>3 DEF FetchRemoteDoguDescriptor
<1>4. CASE Validation
  BY <1>4 DEF Validation
<1>5. CASE PauseReconciliation
  BY <1>5 DEF PauseReconciliation
<1>6. CASE RegisterDoguVersion
  <2>1. registry' \in {registry, spec.version}
    BY <1>6 DEF RegisterDoguVersion
  <2>2. ~UnallowedDowngrade(spec)'
    BY <1>6, <2>1, <1>n DEF RegisterDoguVersion
  <2> HIDE DEF UnallowedDowngrade
  <2> QED BY <1>6, <2>1, <2>2 DEF RegisterDoguVersion
<1>7. CASE CreateExecPod
  BY <1>7 DEF CreateExecPod, ExecPodFor, VersionUpdatedInDeployment
<1>8. CASE CustomK8sResource
  BY <1>8 DEF CustomK8sResource
<1>9. CASE CreateDeployment
  <2>1. CASE template # NoTemplate
    BY <1>9, <2>1 DEF CreateDeployment
  <2>2. CASE template = NoTemplate
    <3>1. template.image = 0
      BY <2>2 DEF NoTemplate
    <3>2. registry = spec.version /\ spec.exportMode = FALSE /\ res = spec
      BY <1>9, <3>1, SpecFields DEF CreateDeployment
    <3>3. template' = GetPodTemplate(spec, spec.version)
      BY <1>9, <2>2, <3>2 DEF CreateDeployment, WriteDeployment
    <3>4. /\ template'.label = spec.version /\ template'.image = spec.version
          /\ template'.sidecar = "none" /\ template'.support = FALSE
      BY <3>2, <3>3 DEF GetPodTemplate
    <3> QED BY <1>9, <3>1, <3>2, <3>4 DEF CreateDeployment
  <2> QED BY <2>1, <2>2
<1>10. CASE StartStop
  BY <1>10 DEF StartStop, WriteDeployment, ReplicasFor
<1>11. CASE VolumeExpander
  BY <1>11 DEF VolumeExpander
<1>12. CASE SecurityContext
  BY <1>12 DEF SecurityContext, WriteDeployment, Templates
<1>13. CASE ExportMode
  <2>1. res.exportMode = FALSE /\ ExportModeActive = FALSE
    BY <1>13, SpecFields DEF ExportMode, ExportModeActive
  <2>2. UNCHANGED <<deployment, queued>> /\ pc' \in {"supportMode", "error"}
            /\ res' = spec
    BY <1>13, <2>1, Zenon DEF ExportMode
  <2> QED BY <1>13, <2>2 DEF ExportMode
<1>14. CASE SupportMode
  <2>1. SupportModeTemplate(res) = template
    <3>1. res.supportMode = FALSE /\ template.support = FALSE
      BY <1>14, SpecFields DEF SupportMode, Templates
    <3> QED BY <3>1, Zenon DEF SupportModeTemplate
  <2>2. template' = template /\ pc' = "preUpgradeStatus"
    BY <1>14, <2>1 DEF SupportMode, WriteDeployment
  <2> QED BY <1>14, <2>2 DEF SupportMode
<1>15. CASE PreUpgradeStatus
  BY <1>15 DEF PreUpgradeStatus
<1>16. CASE UpdateDeploymentVersion
  <2>1. /\ pc' \in {"upgradeRegister", "requeue", "error", "upsertVersion"}
        /\ pc' # "upsertVersion" => pre' = pre
        /\ UNCHANGED <<spec, res, queued, registry, template, pod, execPod>>
    BY <1>16, Zenon DEF UpdateDeploymentVersion
  <2>2. ASSUME pc' = "upsertVersion"
        PROVE  /\ template.label # spec.version /\ execPod.up
               /\ pre' = IF res.version \in PreUpgrade
                         THEN [from |-> registry, to |-> res.version,
                               script |-> execPod.image]
                         ELSE pre
    BY <1>16, <2>2 DEF UpdateDeploymentVersion, VersionUpdatedInDeployment
  <2>3. execPod.up => execPod # NoExecPod
    BY DEF NoExecPod
  <2>4. res = spec
    BY <1>16 DEF UpdateDeploymentVersion
  <2>5. /\ PreUpgradeScriptOfTarget'
        /\ pc' = "upsertVersion" /\ spec.version \in PreUpgrade =>
               pre'.from = registry /\ pre'.to = spec.version
    BY <2>1, <2>2, <2>3, <2>4
  <2> HIDE DEF PreUpgradeScriptOfTarget
  <2> QED BY <1>16, <2>1, <2>2, <2>5, Zenon DEF UpdateDeploymentVersion
<1>17. CASE UpsertDeploymentVersion
  <2>1. res = spec /\ spec.exportMode = FALSE /\ ~spec.stopped /\ ~spec.paused
            /\ ~UnallowedDowngrade(spec)
    BY <1>17, SpecFields, Zenon DEF UpsertDeploymentVersion
  <2>2. template' = IncreaseStartupProbeTimeout(GetPodTemplate(spec, spec.version))
    BY <1>17, <2>1 DEF UpsertDeploymentVersion, WriteDeployment
  <2>3. /\ template'.label = spec.version /\ template'.image = spec.version
        /\ template'.sidecar = "none" /\ template'.support = FALSE
    BY <2>1, <2>2 DEF IncreaseStartupProbeTimeout, GetPodTemplate
  <2>4. execPod # NoExecPod => execPod.image = spec.version
    OBVIOUS
  <2>5. ~UnallowedDowngrade(spec)'
    BY <1>17, <2>1 DEF UpsertDeploymentVersion
  <2> HIDE DEF UnallowedDowngrade
  <2> QED BY <1>17, <2>1, <2>3, <2>4, <2>5, Zenon DEF UpsertDeploymentVersion
<1>18. CASE UpgradeRegisterDoguVersion
  <2>1. registry' \in {registry, spec.version}
    BY <1>18, Zenon DEF UpgradeRegisterDoguVersion
  <2>2. ~UnallowedDowngrade(spec)'
    BY <1>18, <2>1, <1>n DEF UpgradeRegisterDoguVersion
  <2> HIDE DEF UnallowedDowngrade
  <2> QED BY <1>18, <2>1, <2>2, Zenon DEF UpgradeRegisterDoguVersion
<1>19. CASE DeleteExecPod
  BY <1>19 DEF DeleteExecPod
<1>20. CASE PostUpgradeScript
  BY <1>20, Zenon DEF PostUpgradeScript
<1>21. CASE RevertStartupProbe
  BY <1>21 DEF RevertStartupProbe, WriteDeployment, Templates
<1>22. CASE InstalledVersion
  BY <1>22 DEF InstalledVersion
<1>23. CASE RegenerateDeployment
  <2>1. CASE UNCHANGED template
    BY <1>23, <2>1, Zenon DEF RegenerateDeployment
  <2>2. CASE installed = res.version /\ template' = GetPodTemplate(res, res.version)
    <3>1. /\ template'.label = template.label /\ template'.image = template.image
          /\ template'.sidecar = "none" /\ ~template'.support
      BY <1>23, <2>2, Zenon DEF RegenerateDeployment, GetPodTemplate
    <3> QED BY <1>23, <3>1, Zenon DEF RegenerateDeployment
  <2> QED BY <1>23, <2>1, <2>2, Zenon DEF RegenerateDeployment, WriteDeployment
<1>24. CASE UpdateStartedAt
  BY <1>24, Zenon DEF UpdateStartedAt
<1>25. CASE FinishPass
  BY <1>25, Zenon DEF FinishPass
<1>26. CASE StepFails
  BY <1>26, Zenon DEF StepFails, Steps
<1>27. CASE Crash
  BY <1>27, Zenon DEF Crash
<1>28. CASE PodTerminates
  BY <1>28, Zenon DEF PodTerminates, NoPod, NoTemplate
<1>29. CASE PodCreated
  BY <1>29, Zenon DEF PodCreated
<1>30. CASE PodUp
  BY <1>30 DEF PodUp
<1>31. CASE ExecPodUp
  BY <1>31 DEF ExecPodUp
<1>32. CASE EditSpec
  <2>1. pc = "idle" /\ ~queued
    BY <1>32 DEF EditSpec, MayEdit, Settled, Patience
  <2>2. ~Unfinished
    BY <2>1
  <2>3. PICK fields \in EditFields :
            spec' \in {s \in Specs : \A f \in DOMAIN s \ fields : s[f] = spec[f]}
    BY <1>32, Zenon DEF EditSpec
  <2>4. "exportMode" \notin fields /\ "supportMode" \notin fields
    BY Zenon DEF Patience
  <2>5. spec'.exportMode = spec.exportMode /\ spec'.supportMode = spec.supportMode
    BY <2>3, <2>4 DEF Specs
  <2>6. ~Unfinished'
    BY <1>32, <2>2, Zenon DEF EditSpec
  <2> HIDE DEF Unfinished
  <2> QED BY <1>32, <2>1, <2>5, <2>6, Zenon DEF EditSpec
<1>33. CASE UNCHANGED vars
  BY <1>33, Zenon DEF vars
<1> QED
  BY <1>1, <1>2, <1>3, <1>4, <1>5, <1>6, <1>7, <1>8, <1>9, <1>10, <1>11, <1>12,
     <1>13, <1>14, <1>15, <1>16, <1>17, <1>18, <1>19, <1>20, <1>21, <1>22, <1>23,
     <1>24, <1>25, <1>26, <1>27, <1>28, <1>29, <1>30, <1>31, <1>32, <1>33, Zenon
     DEF Next, Pass, Cluster

\* With patience UpgradeInv holds in every reachable state.
THEOREM UpgradeInvariance ==
    ASSUME Patience
    PROVE  Spec => []UpgradeInv
<1>1. Inv /\ UpgradeInv /\ [Next]_vars => UpgradeInv'
  BY UpgradeStep
<1> QED BY <1>1, UpgradeInit, Invariance, PTL DEF Spec

\* With patience the pre-upgrade script that runs is the one of the version
\* upgraded to (the exec pod is created once and deleted with the upgrade), in
\* spite of failed calls and crashes.
THEOREM PreUpgradeOfTarget ==
    ASSUME Patience
    PROVE  Spec => []PreUpgradeScriptOfTarget
<1>1. UpgradeInv => PreUpgradeScriptOfTarget
  BY DEF UpgradeInv
<1> QED BY <1>1, UpgradeInvariance, PTL

-----------------------------------------------------------------------------
(* How the image changes                                                      *)

\* With patience only the deployment of an upgrade changes the image, from the
\* enabled version to the one asked for.
LEMMA ImageChange ==
    ASSUME Patience, Inv, UpgradeInv, [Next]_vars,
           template.image # 0, template'.image # template.image
    PROVE  /\ pc = "upsertVersion"
           /\ template.image = registry /\ template'.image = spec.version
<1> TypeOK
  BY DEF Inv
<1>v. /\ res \in Specs /\ spec \in Specs /\ template \in Templates
  BY DEF TypeOK
<1>1. CASE UpsertDeploymentVersion
  <2>1. pc = "upsertVersion" /\ res = spec /\ template.image # spec.version
    BY <1>1 DEF UpsertDeploymentVersion, UpgradeInv
  <2>2. template' = IncreaseStartupProbeTimeout(GetPodTemplate(spec, spec.version))
    BY <1>1, <2>1 DEF UpsertDeploymentVersion, WriteDeployment
  <2>3. template'.image = spec.version
    BY <2>2 DEF IncreaseStartupProbeTimeout, GetPodTemplate
  <2>4. template.image = registry
    BY <2>1 DEF UpgradeInv, Unfinished
  <2> QED BY <2>1, <2>3, <2>4
<1>2. CASE CreateDeployment
  BY <1>2 DEF CreateDeployment, NoTemplate
<1>3. CASE StartStop
  BY <1>3 DEF StartStop, WriteDeployment
<1>4. CASE SecurityContext
  BY <1>4, <1>v DEF SecurityContext, WriteDeployment, Templates
<1>5. CASE ExportMode
  <2>1. res.exportMode = FALSE /\ ExportModeActive = FALSE
    BY <1>5, <1>v, SpecFields DEF ExportMode, ExportModeActive, UpgradeInv
  <2> QED BY <1>5, <2>1, Zenon DEF ExportMode
<1>6. CASE SupportMode
  <2>1. res.supportMode = FALSE /\ template.support = FALSE
    BY <1>6, <1>v, SpecFields, Zenon DEF SupportMode, UpgradeInv, Templates
  <2> QED BY <1>6, <2>1, Zenon DEF SupportMode, WriteDeployment, SupportModeTemplate
<1>7. CASE RevertStartupProbe
  BY <1>7, <1>v DEF RevertStartupProbe, WriteDeployment, Templates
<1>8. CASE RegenerateDeployment
  <2>1. template.image = installed /\ res = spec
    BY <1>8 DEF RegenerateDeployment, Inv, UpgradeInv
  <2> QED BY <1>8, <2>1 DEF RegenerateDeployment, WriteDeployment, GetPodTemplate
<1>9. ~(\/ StartPass \/ HealthCheck \/ FetchRemoteDoguDescriptor
        \/ Validation \/ PauseReconciliation \/ RegisterDoguVersion
        \/ CreateExecPod \/ CustomK8sResource \/ VolumeExpander
        \/ PreUpgradeStatus \/ UpdateDeploymentVersion
        \/ UpgradeRegisterDoguVersion \/ DeleteExecPod \/ PostUpgradeScript
        \/ InstalledVersion \/ UpdateStartedAt \/ FinishPass \/ StepFails
        \/ Crash \/ Cluster \/ EditSpec \/ UNCHANGED vars)
  BY DEF StartPass, HealthCheck, FetchRemoteDoguDescriptor, Validation,
         PauseReconciliation, RegisterDoguVersion, CreateExecPod,
         CustomK8sResource, VolumeExpander, PreUpgradeStatus,
         UpdateDeploymentVersion, UpgradeRegisterDoguVersion, DeleteExecPod,
         PostUpgradeScript, InstalledVersion, UpdateStartedAt, FinishPass,
         StepFails, Crash, Cluster, PodTerminates, PodCreated, PodUp,
         ExecPodUp, EditSpec, vars
<1> QED
  BY <1>1, <1>2, <1>3, <1>4, <1>5, <1>6, <1>7, <1>8, <1>9 DEF Next, Pass

\* With patience the image deployed goes to a lower version only if the spec
\* forces it (shouldAbortBecauseOfUnallowedDowngrade): what was validated is
\* what is deployed, and the enabled version is the one deployed before.
THEOREM DowngradesRefused ==
    ASSUME Patience
    PROVE  Spec => DowngradeRefused
<1>1. Inv /\ UpgradeInv /\ [Next]_vars =>
          [template.image # 0 /\ template'.image < template.image
               => spec.forceUpgrade]_vars
  <2> SUFFICES ASSUME Inv, UpgradeInv, [Next]_vars, template.image # 0,
                      template'.image < template.image
               PROVE  spec.forceUpgrade
    OBVIOUS
  <2>1. template \in Templates /\ template' \in Templates /\ spec \in Specs
    BY TypeStep DEF Inv, TypeOK
  <2>2. template.image \in Nat /\ template'.image \in Nat
    BY <2>1, VersionsNat DEF Templates
  <2>3. /\ pc = "upsertVersion"
        /\ template.image = registry /\ template'.image = spec.version
    BY <2>2, ImageChange
  <2>4. ~UnallowedDowngrade(spec)
    BY <2>3, Zenon DEF UpgradeInv, BeforeValidation, Outcomes
  <2> QED BY <2>2, <2>3, <2>4 DEF UnallowedDowngrade
<1> QED BY <1>1, Invariance, UpgradeInvariance, PTL DEF Spec, DowngradeRefused

\* With patience the image changes to a version with a pre-upgrade script only
\* after this script ran for exactly this change (UpdateDeploymentVersionStep),
\* although the write of the deployment may fail after the script and is
\* retried in a later pass.
THEOREM UpgradesRunPreUpgrade ==
    ASSUME Patience
    PROVE  Spec => UpgradeRunsPreUpgrade
<1>1. Inv /\ UpgradeInv /\ [Next]_vars =>
          [template.image # 0
               /\ template'.image \in PreUpgrade \ {template.image}
               => pre.from = template.image /\ pre.to = template'.image]_vars
  <2> SUFFICES ASSUME Inv, UpgradeInv, [Next]_vars, template.image # 0,
                      template'.image \in PreUpgrade \ {template.image}
               PROVE  pre.from = template.image /\ pre.to = template'.image
    OBVIOUS
  <2>1. /\ pc = "upsertVersion"
        /\ template.image = registry /\ template'.image = spec.version
    BY ImageChange
  <2> QED BY <2>1 DEF UpgradeInv
<1> QED BY <1>1, Invariance, UpgradeInvariance, PTL DEF Spec, UpgradeRunsPreUpgrade

-----------------------------------------------------------------------------
(* ProbeInv                                                                   *)

\* If every version has a startup probe, each step keeps the mark that a raised
\* probe sets for an upgrade whose post-upgrade script has not run.
LEMMA ProbeStep ==
    ASSUME StartupProbe = Versions, Patience, Inv, UpgradeInv, ProbeInv,
           [Next]_vars
    PROVE  ProbeInv'
<1> TypeOK
  BY DEF Inv
<1>v. /\ res \in Specs /\ spec \in Specs /\ template \in Templates
      /\ res.version \in Versions /\ res.version # 0 /\ spec.version # 0
  BY SpecFields, ConstantsAssumption DEF TypeOK
<1>p. CreateStartupProbe(res.version) = "default"
  BY <1>v DEF CreateStartupProbe
<1>t. template # NoTemplate => template.label # 0
  BY DEF Inv
<1>1. CASE CreateDeployment
  <2>1. CASE template # NoTemplate
    BY <1>1, <2>1 DEF CreateDeployment, ProbeInv
  <2>2. CASE template = NoTemplate
    <3>1. installed' = 0
      BY <1>1, <2>2 DEF CreateDeployment, ProbeInv
    <3>2. registry \in StartupProbe
      BY <1>1 DEF CreateDeployment, Inv, TypeOK
    <3>3. template'.probe = "default" /\ template'.label # 0
      BY <1>1, <1>v, <2>2, <3>2
         DEF CreateDeployment, WriteDeployment, GetPodTemplate, CreateStartupProbe
    <3>4. template' # NoTemplate
      BY <3>3 DEF NoTemplate
    <3> QED BY <3>1, <3>3, <3>4 DEF ProbeInv, NoTemplate
  <2> QED BY <2>1, <2>2
<1>2. CASE StartStop
  BY <1>2 DEF StartStop, WriteDeployment, ProbeInv
<1>3. CASE SecurityContext
  <2>1. template'.probe = template.probe /\ template'.image = template.image
            /\ template'.label = template.label
    BY <1>3, <1>v DEF SecurityContext, WriteDeployment, Templates
  <2>2. template # NoTemplate /\ template' # NoTemplate
    BY <1>3, <2>1 DEF SecurityContext, Inv, AfterStartStop, NoTemplate
  <2> QED BY <1>3, <2>1, <2>2 DEF SecurityContext, ProbeInv
<1>4. CASE ExportMode
  <2>1. res.exportMode = FALSE /\ ExportModeActive = FALSE
    BY <1>4, <1>v, SpecFields, Zenon DEF ExportMode, ExportModeActive, UpgradeInv
  <2> QED BY <1>4, <2>1, Zenon DEF ExportMode, ProbeInv
<1>5. CASE SupportMode
  <2>1. res.supportMode = FALSE /\ template.support = FALSE
    BY <1>5, <1>v, SpecFields, Zenon DEF SupportMode, UpgradeInv, Templates
  <2>2. template' = template /\ pc' = "preUpgradeStatus"
    BY <1>5, <2>1, Zenon DEF SupportMode, WriteDeployment, SupportModeTemplate
  <2> QED BY <1>5, <2>2 DEF SupportMode, ProbeInv
<1>6. CASE UpsertDeploymentVersion
  <2>1. template' = IncreaseStartupProbeTimeout(GetPodTemplate(res, res.version))
    BY <1>6 DEF UpsertDeploymentVersion, WriteDeployment
  <2>2. template'.probe = "raised" /\ template'.label # 0
    BY <2>1, <1>v, <1>p DEF IncreaseStartupProbeTimeout, GetPodTemplate
  <2> QED BY <1>6, <2>2 DEF UpsertDeploymentVersion, ProbeInv, NoTemplate
<1>7. CASE PostUpgradeScript
  <2>1. res.version = template.image
    BY <1>7, Zenon DEF PostUpgradeScript, Inv, UpgradeInv
  <2>2. pod.template.label = pod.template.image
    BY DEF UpgradeInv
  <2>3. post' # post \/ pc' = "revertProbe" =>
            /\ template.probe # "default"
            /\ res.version \in PostUpgrade =>
                   post' = [to |-> res.version, on |-> res.version]
    BY <1>7, <1>p, <2>2, Zenon DEF PostUpgradeScript, PodReachable
  <2>4. UNCHANGED <<template, installed>>
    BY <1>7 DEF PostUpgradeScript
  <2>5. CASE post' = post /\ pc' # "revertProbe"
    <3>1. pc' = "installedVersion" => template.probe = "default"
      BY <1>7, <1>p DEF PostUpgradeScript
    <3> QED BY <2>4, <2>5, <3>1 DEF ProbeInv
  <2>6. CASE post' # post \/ pc' = "revertProbe"
    <3>1. CASE template.image \in PostUpgrade
      BY <2>1, <2>3, <2>4, <2>6, <3>1 DEF ProbeInv
    <3>2. CASE template.image \notin PostUpgrade
      BY <2>4, <3>2 DEF ProbeInv
    <3> QED BY <3>1, <3>2
  <2> QED BY <2>5, <2>6
<1>8. CASE RevertStartupProbe
  <2>1. template # NoTemplate
    BY <1>8 DEF RevertStartupProbe, Inv, AfterStartStop, AfterSupportMode, NoTemplate
  <2>2. template'.probe = "default" /\ template'.image = template.image
            /\ template'.label = template.label
    BY <1>8, <1>v, <1>p, <2>1 DEF RevertStartupProbe, WriteDeployment, Templates, ProbeInv
  <2>3. template' # NoTemplate
    BY <2>2 DEF NoTemplate
  <2> QED BY <1>8, <2>1, <2>2, <2>3 DEF RevertStartupProbe, ProbeInv
<1>9. CASE InstalledVersion
  <2>0. template.label = res.version /\ template.label = template.image
    BY <1>9, Zenon DEF InstalledVersion, Inv, UpgradeInv
  <2>1. template # NoTemplate /\ installed' = template.image
    BY <1>9, <1>v, <2>0 DEF InstalledVersion, NoTemplate
  <2> QED BY <1>9, <2>1 DEF InstalledVersion, ProbeInv
<1>10. CASE RegenerateDeployment
  <2>1. CASE UNCHANGED template
    BY <1>10, <2>1 DEF RegenerateDeployment, ProbeInv
  <2>2. CASE installed = res.version /\ template' = GetPodTemplate(res, res.version)
    <3>1. template'.probe = "default" /\ template'.image = installed
              /\ template'.label # 0
      BY <1>v, <1>p, <2>2 DEF GetPodTemplate
    <3> QED BY <1>10, <3>1 DEF RegenerateDeployment, ProbeInv, NoTemplate
  <2> QED BY <1>10, <2>1, <2>2 DEF RegenerateDeployment, WriteDeployment
<1>11. CASE \/ StartPass \/ HealthCheck \/ FetchRemoteDoguDescriptor
            \/ Validation \/ PauseReconciliation \/ RegisterDoguVersion
            \/ CreateExecPod \/ CustomK8sResource \/ VolumeExpander
            \/ PreUpgradeStatus \/ UpdateDeploymentVersion
            \/ UpgradeRegisterDoguVersion \/ DeleteExecPod
            \/ UpdateStartedAt \/ FinishPass \/ StepFails \/ Crash
  <2>1. /\ UNCHANGED <<template, installed, post>>
        /\ pc' \notin {"revertProbe", "installedVersion"}
    BY <1>11, Zenon DEF StartPass, HealthCheck, FetchRemoteDoguDescriptor, Validation,
         PauseReconciliation, RegisterDoguVersion, CreateExecPod,
         CustomK8sResource, VolumeExpander, PreUpgradeStatus,
         UpdateDeploymentVersion, UpgradeRegisterDoguVersion, DeleteExecPod,
         UpdateStartedAt, FinishPass, StepFails, Crash
  <2> QED BY <2>1 DEF ProbeInv
<1>12. CASE Cluster \/ EditSpec \/ UNCHANGED vars
  <2>1. UNCHANGED <<template, installed, post, pc>>
    BY <1>12 DEF Cluster, PodTerminates, PodCreated, PodUp, ExecPodUp, EditSpec, vars
  <2> QED BY <2>1 DEF ProbeInv
<1> QED
  BY <1>1, <1>2, <1>3, <1>4, <1>5, <1>6, <1>7, <1>8, <1>9, <1>10, <1>11, <1>12
     DEF Next, Pass

\* If every version has a startup probe, ProbeInv holds with patience.
THEOREM ProbeInvariance ==
    ASSUME StartupProbe = Versions, Patience
    PROVE  Spec => []ProbeInv
<1>1. Init => ProbeInv
  BY DEF Init, ProbeInv, NoTemplate
<1>2. Inv /\ UpgradeInv /\ ProbeInv /\ [Next]_vars => ProbeInv'
  BY ProbeStep
<1> QED BY <1>1, <1>2, Invariance, UpgradeInvariance, PTL DEF Spec

\* If every version has a startup probe, with patience a version with a
\* post-upgrade script is shown as installed after an upgrade only when this
\* script ran in a pod of this version (PostUpgradeStep), whatever failed in
\* between.
THEOREM UpgradesRunPostUpgrade ==
    ASSUME StartupProbe = Versions, Patience
    PROVE  Spec => UpgradeRunsPostUpgrade
<1>1. Inv /\ UpgradeInv /\ ProbeInv /\ [Next]_vars =>
          [installed # 0 /\ installed' \in PostUpgrade \ {installed}
               => post = [to |-> installed', on |-> installed']]_vars
  <2> SUFFICES ASSUME Inv, UpgradeInv, ProbeInv, [Next]_vars, installed # 0,
                      installed' \in PostUpgrade \ {installed}
               PROVE  post = [to |-> installed', on |-> installed']
    OBVIOUS
  <2>1. InstalledVersion
    BY Zenon DEF Next, Pass, StartPass, HealthCheck, FetchRemoteDoguDescriptor,
         Validation, PauseReconciliation, RegisterDoguVersion, CreateExecPod,
         CustomK8sResource, CreateDeployment, StartStop, VolumeExpander,
         SecurityContext, ExportMode, SupportMode, PreUpgradeStatus,
         UpdateDeploymentVersion, UpsertDeploymentVersion,
         UpgradeRegisterDoguVersion, DeleteExecPod, PostUpgradeScript,
         RevertStartupProbe, RegenerateDeployment, UpdateStartedAt, FinishPass,
         StepFails, Crash, Cluster, PodTerminates, PodCreated, PodUp,
         ExecPodUp, EditSpec, vars
  <2>2. installed' = template.image
    BY <2>1, Zenon DEF InstalledVersion, Inv, UpgradeInv
  <2> QED BY <2>1, <2>2 DEF InstalledVersion, ProbeInv
<1> QED BY <1>1, Invariance, UpgradeInvariance, ProbeInvariance, PTL
        DEF Spec, UpgradeRunsPostUpgrade
=============================================================================
