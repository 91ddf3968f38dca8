------------------------ MODULE DoguReconcilerProofs ------------------------
(* Proofs about DoguReconciler for every set of versions, every choice of     *)
(* upgrade scripts and probes and every bound on edits and faults.            *)
EXTENDS DoguReconciler, TLAPS

USE DEF user, local, deployment, scripts

-----------------------------------------------------------------------------
(* The values the generators compute.                                         *)

\* GetPodTemplate returns a pod template, for the enabled version too.
LEMMA GetPodTemplateType ==
    ASSUME NEW r \in Specs, NEW v \in Versions \cup {0}
    PROVE  GetPodTemplate(r, v) \in Templates
BY DEF GetPodTemplate, CreateStartupProbe, Specs, Templates

\* Raising the startup probe and leaving or entering support mode keep the
\* shape of a pod template.
LEMMA PatchedTemplateType ==
    ASSUME NEW t \in Templates
    PROVE  /\ IncreaseStartupProbeTimeout(t) \in Templates
           /\ SetInSupportMode(t) \in Templates
           /\ SetInSupportMode(t).support
           /\ SetInSupportMode(t).label = t.label
           /\ IncreaseStartupProbeTimeout(t).label = t.label
BY Zenon DEF IncreaseStartupProbeTimeout, SetInSupportMode, Templates

\* HandleSupportMode leaves the deployment in the mode the resource asks for.
LEMMA SupportModeTemplateType ==
    ASSUME TypeOK, NEW r \in Specs
    PROVE  /\ SupportModeTemplate(r) \in Templates
           /\ SupportModeTemplate(r).support = r.supportMode
           /\ SupportModeTemplate(r).label \in {template.label, r.version}
<1>. DEFINE g == GetPodTemplate(r, registry)
<1>1. g \in Templates
  BY GetPodTemplateType DEF TypeOK
<1>2. g.support = FALSE /\ g.label = r.version
  BY DEF GetPodTemplate
<1>3. r.supportMode \in BOOLEAN /\ template \in Templates
  BY DEF TypeOK, Specs
<1>4. CASE r.supportMode = template.support
  BY <1>3, <1>4 DEF SupportModeTemplate
<1>5. CASE r.supportMode # template.support /\ r.supportMode
  <2>1. SupportModeTemplate(r) = SetInSupportMode(g)
    BY <1>5 DEF SupportModeTemplate
  <2>. QED  BY <2>1, <1>1, <1>2, <1>5, PatchedTemplateType, Zenon
<1>6. CASE r.supportMode # template.support /\ ~r.supportMode
  <2>1. SupportModeTemplate(r) = g
    BY <1>6 DEF SupportModeTemplate
  <2>. QED  BY <2>1, <1>1, <1>2, <1>3, <1>6, Zenon
<1>. QED  BY <1>3, <1>4, <1>5, <1>6

-----------------------------------------------------------------------------
(* Type correctness.                                                          *)

\* The values that stand for "none" have the type of what they stand for.
LEMMA NoneTypes ==
    /\ NoTemplate \in Templates
    /\ NoPod \in [template : Templates, up : BOOLEAN]
    /\ NoExecPod \in [image : Versions \cup {0}, up : BOOLEAN]
<1>1. NoTemplate \in Templates
  BY DEF NoTemplate, Templates
<1>. QED  BY <1>1 DEF NoPod, NoExecPod

\* The fields of the two copies of the spec that the steps use.
LEMMA SpecFields ==
    ASSUME NEW r \in Specs
    PROVE  /\ r.version \in Versions /\ r.stopped \in BOOLEAN
           /\ r.exportMode \in BOOLEAN /\ r.supportMode \in BOOLEAN
           /\ ReplicasFor(r) \in {0, 1}
BY DEF Specs, ReplicasFor

\* Every step of a pass, fault, edit and event of the cluster keeps the shape
\* of the state.
LEMMA TypeStep ==
    ASSUME TypeOK, [Next]_vars
    PROVE  TypeOK'
<1>. USE DEF TypeOK
<1>r. /\ res \in Specs /\ spec \in Specs
      /\ res.version \in Versions /\ ReplicasFor(res) \in {0, 1}
      /\ ReplicasFor(spec) \in {0, 1}
  BY SpecFields
<1>g. /\ GetPodTemplate(res, registry) \in Templates
      /\ GetPodTemplate(res, res.version) \in Templates
      /\ GetPodTemplate(spec, registry) \in Templates
  BY <1>r, GetPodTemplateType
<1>s. SupportModeTemplate(res) \in Templates
  BY <1>r, SupportModeTemplateType
<1>i. IncreaseStartupProbeTimeout(GetPodTemplate(res, res.version)) \in Templates
  BY <1>g, PatchedTemplateType
<1>1. CASE StartPass
  <2>1. queued' \in BOOLEAN
    BY <1>1, Zenon DEF StartPass, WriteDeployment
  <2>. QED
    BY <2>1, <1>1, <1>r DEF StartPass, WriteDeployment, Steps, Outcomes
<1>2. CASE HealthCheck
  BY <1>2, <1>r DEF HealthCheck, Steps, Outcomes
<1>3. CASE FetchRemoteDoguDescriptor
  <2>1. descriptors' \subseteq Versions
    BY <1>3, <1>r DEF FetchRemoteDoguDescriptor
  <2>. QED
    BY <2>1, <1>3, <1>r DEF FetchRemoteDoguDescriptor, WriteDeployment, Steps, Outcomes
<1>4. CASE Validation
  BY <1>4, <1>r DEF Validation, Steps, Outcomes
<1>5. CASE PauseReconciliation
  BY <1>5, <1>r DEF PauseReconciliation, Steps, Outcomes
<1>6. CASE RegisterDoguVersion
  <2>1. registry' \in Versions \cup {0}
    BY <1>6, <1>r DEF RegisterDoguVersion
  <2>. QED
    BY <2>1, <1>6, <1>r DEF RegisterDoguVersion, WriteDeployment, Steps, Outcomes
<1>7. CASE CreateExecPod
  <2>1. queued' \in BOOLEAN
    BY <1>7, Zenon DEF CreateExecPod, ExecPodFor, WriteDeployment
  <2>2. execPod' \in [image : Versions \cup {0}, up : BOOLEAN]
    <3>1. [image |-> res.version, up |-> FALSE]
              \in [image : Versions \cup {0}, up : BOOLEAN]
      BY <1>r
    <3>2. \/ execPod' = execPod
          \/ execPod' = [image |-> res.version, up |-> FALSE]
      BY <1>7, Zenon DEF CreateExecPod, ExecPodFor
    <3>. QED  BY <3>1, <3>2, Zenon
  <2>. QED
    BY <2>1, <2>2, <1>7, <1>r DEF CreateExecPod, ExecPodFor, WriteDeployment, Steps, Outcomes
<1>8. CASE CustomK8sResource
  BY <1>8, <1>r DEF CustomK8sResource, Steps, Outcomes
<1>9. CASE CreateDeployment
  <2>1. queued' \in BOOLEAN
    BY <1>9, Zenon DEF CreateDeployment, WriteDeployment
  <2>2. template' \in Templates /\ replicas' \in {0, 1}
    BY <1>9, <1>r, <1>g DEF CreateDeployment, WriteDeployment
  <2>. QED
    BY <2>1, <2>2, <1>9, <1>r DEF CreateDeployment, WriteDeployment, Steps, Outcomes
<1>10. CASE StartStop
  <2>1. queued' \in BOOLEAN
    BY <1>10, Zenon DEF StartStop, WriteDeployment
  <2>2. template' \in Templates /\ replicas' \in {0, 1}
    BY <1>10, <1>r, <1>g DEF StartStop, WriteDeployment
  <2>. QED
    BY <2>1, <2>2, <1>10, <1>r DEF StartStop, WriteDeployment, Steps, Outcomes
<1>11. CASE VolumeExpander
  BY <1>11, <1>r DEF VolumeExpander, Steps, Outcomes
<1>12. CASE SecurityContext
  <2>1. queued' \in BOOLEAN
    BY <1>12, Zenon DEF SecurityContext, WriteDeployment
  <2>2. template' \in Templates /\ replicas' \in {0, 1}
    BY <1>12, <1>r, <1>g DEF SecurityContext, WriteDeployment, Templates
  <2>. QED
    BY <2>1, <2>2, <1>12, <1>r DEF SecurityContext, WriteDeployment, Steps, Outcomes
<1>13. CASE ExportMode
  <2>1. queued' \in BOOLEAN
    BY <1>13, Zenon DEF ExportMode, WriteDeployment
  <2>2. template' \in Templates /\ replicas' \in {0, 1}
    BY <1>13, <1>r, <1>g DEF ExportMode, WriteDeployment
  <2>. QED
    BY <2>1, <2>2, <1>13, <1>r DEF ExportMode, WriteDeployment, Steps, Outcomes
<1>14. CASE SupportMode
  <2>1. queued' \in BOOLEAN
    BY <1>14, Zenon DEF SupportMode, WriteDeployment
  <2>2. template' \in Templates /\ replicas' \in {0, 1}
    BY <1>14, <1>r, <1>g, <1>s DEF SupportMode, WriteDeployment
  <2>. QED
    BY <2>1, <2>2, <1>14, <1>r DEF SupportMode, WriteDeployment, Steps, Outcomes
<1>15. CASE PreUpgradeStatus
  <2>1. ready' \in BOOLEAN
    BY <1>15, Zenon DEF PreUpgradeStatus, WriteDeployment
  <2>. QED
    BY <2>1, <1>15, <1>r DEF PreUpgradeStatus, WriteDeployment, Steps, Outcomes
<1>16. CASE UpdateDeploymentVersion
  <2>1. pre' \in [from : Versions \cup {0}, to : Versions \cup {0},
                  script : Versions \cup {0}]
    BY <1>16, <1>r DEF UpdateDeploymentVersion
  <2>. QED
    BY <2>1, <1>16, <1>r DEF UpdateDeploymentVersion, WriteDeployment, Steps, Outcomes
<1>17. CASE UpsertDeploymentVersion
  <2>1. queued' \in BOOLEAN
    BY <1>17, Zenon DEF UpsertDeploymentVersion, WriteDeployment
  <2>2. template' \in Templates /\ replicas' \in {0, 1}
    BY <1>17, <1>r, <1>g, <1>i DEF UpsertDeploymentVersion, WriteDeployment
  <2>. QED
    BY <2>1, <2>2, <1>17, <1>r DEF UpsertDeploymentVersion, WriteDeployment, Steps, Outcomes
<1>18. CASE UpgradeRegisterDoguVersion
  <2>1. registry' \in Versions \cup {0}
    BY <1>18, <1>r DEF UpgradeRegisterDoguVersion
  <2>. QED
    BY <2>1, <1>18, <1>r DEF UpgradeRegisterDoguVersion, WriteDeployment, Steps, Outcomes
<1>19. CASE DeleteExecPod
  <2>1. queued' \in BOOLEAN
    BY <1>19, Zenon DEF DeleteExecPod, WriteDeployment
  <2>2. execPod' \in [image : Versions \cup {0}, up : BOOLEAN]
    BY <1>19, <1>r, NoneTypes DEF DeleteExecPod
  <2>. QED
    BY <2>1, <2>2, <1>19, <1>r DEF DeleteExecPod, WriteDeployment, Steps, Outcomes
<1>20. CASE PostUpgradeScript
  <2>1. post' \in [to : Versions \cup {0}, on : Versions \cup {0}]
    BY <1>20, <1>r DEF PostUpgradeScript, Templates
  <2>. QED
    BY <2>1, <1>20, <1>r DEF PostUpgradeScript, WriteDeployment, Steps, Outcomes
<1>21. CASE RevertStartupProbe
  <2>1. queued' \in BOOLEAN
    BY <1>21, Zenon DEF RevertStartupProbe, WriteDeployment
  <2>2. template' \in Templates /\ replicas' \in {0, 1}
    BY <1>21, <1>r, <1>g DEF RevertStartupProbe, WriteDeployment, CreateStartupProbe, Templates
  <2>. QED
    BY <2>1, <2>2, <1>21, <1>r DEF RevertStartupProbe, WriteDeployment, Steps, Outcomes
<1>22. CASE InstalledVersion
  <2>1. installed' \in Versions \cup {0}
    BY <1>22, <1>r DEF InstalledVersion
  <2>. QED
    BY <2>1, <1>22, <1>r DEF InstalledVersion, WriteDeployment, Steps, Outcomes
<1>23. CASE RegenerateDeployment
  <2>1. queued' \in BOOLEAN
    BY <1>23, Zenon DEF RegenerateDeployment, WriteDeployment
  <2>2. template' \in Templates /\ replicas' \in {0, 1}
    BY <1>23, <1>r, <1>g DEF RegenerateDeployment, WriteDeployment
  <2>. QED
    BY <2>1, <2>2, <1>23, <1>r DEF RegenerateDeployment, WriteDeployment, Steps, Outcomes
<1>24. CASE UpdateStartedAt
  BY <1>24, <1>r DEF UpdateStartedAt, Steps, Outcomes
<1>25. CASE FinishPass
  <2>1. queued' \in BOOLEAN
    BY <1>25, Zenon DEF FinishPass, WriteDeployment
  <2>2. ready' \in BOOLEAN
    BY <1>25, Zenon DEF FinishPass, WriteDeployment
  <2>. QED
    BY <2>1, <2>2, <1>25, <1>r DEF FinishPass, WriteDeployment, Steps, Outcomes
<1>26. CASE StepFails
  <2>1. faults' \in 0..MaxFaults
    BY <1>26, <1>r, ConstantsAssumption DEF StepFails
  <2>. QED
    BY <2>1, <1>26, <1>r DEF StepFails, WriteDeployment, Steps, Outcomes
<1>27. CASE Crash
  <2>1. queued' \in BOOLEAN
    BY <1>27, Zenon DEF Crash, WriteDeployment
  <2>2. faults' \in 0..MaxFaults
    BY <1>27, <1>r, ConstantsAssumption DEF Crash
  <2>. QED
    BY <2>1, <2>2, <1>27, <1>r DEF Crash, WriteDeployment, Steps, Outcomes
<1>28. CASE PodTerminates
  <2>1. queued' \in BOOLEAN
    BY <1>28, Zenon DEF PodTerminates, WriteDeployment
  <2>2. pod' \in [template : Templates, up : BOOLEAN]
    BY <1>28, <1>r, NoneTypes DEF PodTerminates
  <2>. QED
    BY <2>1, <2>2, <1>28, <1>r DEF PodTerminates, WriteDeployment, Steps, Outcomes
<1>29. CASE PodCreated
  <2>1. queued' \in BOOLEAN
    BY <1>29, Zenon DEF PodCreated, WriteDeployment
  <2>2. pod' \in [template : Templates, up : BOOLEAN]
    BY <1>29, <1>r, NoneTypes DEF PodCreated
  <2>. QED
    BY <2>1, <2>2, <1>29, <1>r DEF PodCreated, WriteDeployment, Steps, Outcomes
<1>30. CASE PodUp
  <2>1. queued' \in BOOLEAN
    BY <1>30, Zenon DEF PodUp, WriteDeployment
  <2>2. pod' \in [template : Templates, up : BOOLEAN]
    BY <1>30, <1>r, NoneTypes, Zenon DEF PodUp
  <2>. QED
    BY <2>1, <2>2, <1>30, <1>r DEF PodUp, WriteDeployment, Steps, Outcomes
<1>31. CASE ExecPodUp
  <2>1. queued' \in BOOLEAN
    BY <1>31, Zenon DEF ExecPodUp, WriteDeployment
  <2>2. execPod' \in [image : Versions \cup {0}, up : BOOLEAN]
    BY <1>31, <1>r, NoneTypes, Zenon DEF ExecPodUp
  <2>. QED
    BY <2>1, <2>2, <1>31, <1>r DEF ExecPodUp, WriteDeployment, Steps, Outcomes
<1>32. CASE EditSpec
  <2>1. queued' \in BOOLEAN
    BY <1>32, Zenon DEF EditSpec, WriteDeployment
  <2>2. edits' \in 0..MaxEdits
    BY <1>32, <1>r, ConstantsAssumption DEF EditSpec
  <2>3. spec' \in Specs
    BY <1>32, <1>r DEF EditSpec
  <2>. QED
    BY <2>1, <2>2, <2>3, <1>32, <1>r DEF EditSpec, WriteDeployment, Steps, Outcomes
<1>33. CASE UNCHANGED vars
  BY <1>33 DEF vars
<1>. QED
  BY <1>1, <1>2, <1>3, <1>4, <1>5, <1>6, <1>7, <1>8, <1>9, <1>10, <1>11,
     <1>12, <1>13, <1>14, <1>15, <1>16, <1>17, <1>18, <1>19, <1>20, <1>21,
     <1>22, <1>23, <1>24, <1>25, <1>26, <1>27, <1>28, <1>29, <1>30, <1>31,
     <1>32, <1>33, Zenon DEF Next, Pass, Cluster

-----------------------------------------------------------------------------
(* The inductive invariant.                                                   *)

\* A new dogu has no deployment, registry entry or status, and is queued.
LEMMA InitInv ==
    Init => Inv
<1>. SUFFICES ASSUME Init PROVE Inv
  OBVIOUS
<1>1. TypeOK
  <2>1. spec \in Specs
    BY DEF Init
  <2>2. /\ NoPreRun \in [from : Versions \cup {0}, to : Versions \cup {0},
                         script : Versions \cup {0}]
        /\ NoPostRun \in [to : Versions \cup {0}, on : Versions \cup {0}]
    BY DEF NoPreRun, NoPostRun
  <2>3. queued \in BOOLEAN /\ ready \in BOOLEAN
    BY Zenon DEF Init
  <2>4. edits \in 0..MaxEdits /\ faults \in 0..MaxFaults
    BY ConstantsAssumption DEF Init
  <2>. QED  BY <2>1, <2>2, <2>3, <2>4, NoneTypes DEF Init, TypeOK
<1>2. /\ template = NoTemplate /\ template.label = 0
      /\ pc = "idle" /\ queued
  BY DEF Init, NoTemplate
<1>. QED
  BY <1>1, <1>2 DEF Inv, ReadyMeansApplied, AfterStartStop, AfterSupportMode

\* Every step keeps the invariant.
LEMMA InvStep ==
    ASSUME Inv, [Next]_vars
    PROVE  Inv'
<1>. TypeOK /\ TypeOK'
  BY TypeStep DEF Inv
<1>v. /\ res \in Specs /\ spec \in Specs /\ template \in Templates
      /\ res.version \in Versions /\ res.version # 0
  BY SpecFields, ConstantsAssumption DEF TypeOK
<1>. USE DEF Inv, AfterStartStop, AfterSupportMode, ReadyMeansApplied, Applied
<1>1. CASE StartPass
  BY <1>1 DEF StartPass, WriteDeployment
<1>2. CASE HealthCheck
  BY <1>2 DEF HealthCheck, WriteDeployment
<1>3. CASE FetchRemoteDoguDescriptor
  BY <1>3, Zenon DEF FetchRemoteDoguDescriptor, WriteDeployment
<1>4. CASE Validation
  BY <1>4 DEF Validation, WriteDeployment
<1>5. CASE PauseReconciliation
  BY <1>5 DEF PauseReconciliation, WriteDeployment
<1>6. CASE RegisterDoguVersion
  BY <1>6, <1>v, Zenon DEF RegisterDoguVersion
<1>7. CASE CreateExecPod
  BY <1>7, Zenon DEF CreateExecPod, ExecPodFor, WriteDeployment
<1>8. CASE CustomK8sResource
  BY <1>8 DEF CustomK8sResource, WriteDeployment
<1>9. CASE CreateDeployment
  <2>1. template'.label # 0
    BY <1>9, <1>v DEF CreateDeployment, WriteDeployment, GetPodTemplate
  <2>2. ~queued' => ~queued
    BY <1>9, Zenon DEF CreateDeployment, WriteDeployment
  <2>. QED  BY <2>1, <2>2, <1>9 DEF CreateDeployment
<1>10. CASE StartStop
  BY <1>10 DEF StartStop, WriteDeployment
<1>11. CASE VolumeExpander
  BY <1>11 DEF VolumeExpander, WriteDeployment
<1>12. CASE SecurityContext
  <2>1. template'.label = template.label
    BY <1>12, <1>v DEF SecurityContext, WriteDeployment, Templates
  <2>. QED  BY <2>1, <1>12, Zenon DEF SecurityContext, WriteDeployment
<1>13. CASE ExportMode
  <2>1. template'.label # 0
    BY <1>13, <1>v, SpecFields, ConstantsAssumption
       DEF ExportMode, WriteDeployment, GetPodTemplate
  <2>. QED  BY <2>1, <1>13, Zenon DEF ExportMode, WriteDeployment
<1>14. CASE SupportMode
  <2>1. /\ template'.label # 0
        /\ template'.support = res.supportMode
        /\ pc' = IF template'.support THEN "abort" ELSE "preUpgradeStatus"
    BY <1>14, <1>v, SupportModeTemplateType, Zenon DEF SupportMode, WriteDeployment
  <2>. QED  BY <2>1, <1>14, Zenon DEF SupportMode, WriteDeployment
<1>15. CASE PreUpgradeStatus
  BY <1>15 DEF PreUpgradeStatus, WriteDeployment
<1>16. CASE UpdateDeploymentVersion
  BY <1>16, Zenon DEF UpdateDeploymentVersion, VersionUpdatedInDeployment
<1>17. CASE UpsertDeploymentVersion
  <2>1. template'.label # 0
    <3>1. /\ GetPodTemplate(res, res.version) \in Templates
          /\ GetPodTemplate(res, res.version).label # 0
      BY <1>v, GetPodTemplateType DEF GetPodTemplate
    <3>. QED
      BY <3>1, <1>17, PatchedTemplateType
         DEF UpsertDeploymentVersion, WriteDeployment
  <2>. QED  BY <2>1, <1>17, Zenon DEF UpsertDeploymentVersion, WriteDeployment
<1>18. CASE UpgradeRegisterDoguVersion
  BY <1>18, Zenon DEF UpgradeRegisterDoguVersion, WriteDeployment
<1>19. CASE DeleteExecPod
  BY <1>19, Zenon DEF DeleteExecPod, WriteDeployment
<1>20. CASE PostUpgradeScript
  BY <1>20, Zenon DEF PostUpgradeScript, WriteDeployment
<1>21. CASE RevertStartupProbe
  <2>1. template'.label = template.label
    BY <1>21, <1>v DEF RevertStartupProbe, WriteDeployment, Templates
  <2>. QED  BY <2>1, <1>21, Zenon DEF RevertStartupProbe, WriteDeployment
<1>22. CASE InstalledVersion
  BY <1>22, Zenon DEF InstalledVersion, WriteDeployment
<1>23. CASE RegenerateDeployment
  <2>1. CASE /\ installed # res.version \/ pc' = "error"
             /\ UNCHANGED <<template, replicas, queued>>
    BY <2>1, <1>23, Zenon DEF RegenerateDeployment
  <2>2. CASE /\ installed = res.version
             /\ WriteDeployment(GetPodTemplate(res, res.version),
                                ReplicasFor(res))
    <3>1. /\ template'.label = res.version /\ template'.image = res.version
          /\ template'.support = FALSE
          /\ (template'.sidecar # "none") = res.exportMode
          /\ replicas' = IF res.stopped THEN 0 ELSE 1
      BY <2>2, <1>v, SpecFields, Zenon
         DEF WriteDeployment, GetPodTemplate, ReplicasFor
    <3>2. ~queued' => ~queued
      BY <2>2, Zenon DEF WriteDeployment
    <3>. QED  BY <3>1, <3>2, <2>2, <1>v, <1>23, Zenon DEF RegenerateDeployment
  <2>. QED  BY <2>1, <2>2, <1>23, Zenon DEF RegenerateDeployment
<1>24. CASE UpdateStartedAt
  BY <1>24, Zenon DEF UpdateStartedAt, WriteDeployment
<1>25. CASE FinishPass
  BY <1>25, Zenon DEF FinishPass, WriteDeployment
<1>26. CASE StepFails
  BY <1>26, Zenon DEF StepFails, Steps
<1>27. CASE Crash
  BY <1>27, Zenon DEF Crash, WriteDeployment
<1>28. CASE PodTerminates
  BY <1>28, Zenon DEF PodTerminates, WriteDeployment
<1>29. CASE PodCreated
  BY <1>29 DEF PodCreated, WriteDeployment
<1>30. CASE PodUp
  BY <1>30 DEF PodUp, WriteDeployment
<1>31. CASE ExecPodUp
  BY <1>31 DEF ExecPodUp, WriteDeployment
<1>32. CASE EditSpec
  BY <1>32, Zenon DEF EditSpec, WriteDeployment
<1>33. CASE UNCHANGED vars
  BY <1>33, Zenon DEF vars
<1>. QED
  BY <1>1, <1>2, <1>3, <1>4, <1>5, <1>6, <1>7, <1>8, <1>9, <1>10, <1>11,
     <1>12, <1>13, <1>14, <1>15, <1>16, <1>17, <1>18, <1>19, <1>20, <1>21,
     <1>22, <1>23, <1>24, <1>25, <1>26, <1>27, <1>28, <1>29, <1>30, <1>31,
     <1>32, <1>33, Zenon DEF Next, Pass, Cluster

\* The invariant holds in every state of every run.
THEOREM Invariance == Spec => []Inv
<1>1. Inv /\ [Next]_vars => Inv'
  BY InvStep
<1>. QED  BY InitInv, <1>1, PTL DEF Spec

-----------------------------------------------------------------------------
(* What follows from it.                                                      *)

\* The state always has its shape.
THEOREM TypeCorrectness == Spec => []TypeOK
<1>1. Inv => TypeOK
  BY DEF Inv
<1>. QED  BY <1>1, Invariance, PTL

\* A Ready dogu with nothing queued is in the state its spec asks for, for any
\* number of edits at any time, failed calls and crashes of the operator.
THEOREM ReadyIsApplied == Spec => []ReadyMeansApplied
<1>1. Inv => ReadyMeansApplied
  BY DEF Inv
<1>. QED  BY <1>1, Invariance, PTL

\* Every step of the reconciliation is a step of DoguLifecycle or changes none
\* of the three places that hold a version.
LEMMA LifecycleStep ==
    ASSUME Inv, [Next]_vars
    PROVE  [Lifecycle!Next]_(Lifecycle!vars)
<1>. TypeOK
  BY DEF Inv
<1>v. /\ res \in Specs /\ spec \in Specs /\ template \in Templates
      /\ res.version \in Versions /\ res.version # 0
      /\ spec.version \in Versions
  BY SpecFields, ConstantsAssumption DEF TypeOK
<1>. USE DEF Lifecycle!Next, Lifecycle!vars
<1>1. \/ UNCHANGED <<registry, installed>> /\ template'.label = template.label
      \/ Lifecycle!RegisterNew \/ Lifecycle!Deploy
      \/ Lifecycle!Register \/ Lifecycle!Confirm
  <2>. USE DEF Inv, AfterStartStop, AfterSupportMode
  <2>1. CASE RegisterDoguVersion
    BY <2>1, <1>v DEF RegisterDoguVersion, Lifecycle!RegisterNew
  <2>2. CASE CreateDeployment
    BY <2>2, <1>v DEF CreateDeployment, WriteDeployment, GetPodTemplate,
                      Lifecycle!Deploy
  <2>3. CASE SecurityContext
    BY <2>3, <1>v DEF SecurityContext, WriteDeployment, Templates
  <2>4. CASE ExportMode
    BY <2>4, <1>v DEF ExportMode, WriteDeployment, GetPodTemplate,
                      Lifecycle!Deploy
  <2>5. CASE SupportMode
    BY <2>5, <1>v, SupportModeTemplateType
       DEF SupportMode, WriteDeployment, Lifecycle!Deploy
  <2>6. CASE UpsertDeploymentVersion
    <3>1. /\ GetPodTemplate(res, res.version) \in Templates
          /\ GetPodTemplate(res, res.version).label = res.version
      BY <1>v, GetPodTemplateType DEF GetPodTemplate
    <3>. QED
      BY <3>1, <2>6, <1>v, PatchedTemplateType
         DEF UpsertDeploymentVersion, WriteDeployment, Lifecycle!Deploy
  <2>7. CASE UpgradeRegisterDoguVersion
    BY <2>7, <1>v DEF UpgradeRegisterDoguVersion, Lifecycle!Register
  <2>8. CASE RevertStartupProbe
    BY <2>8, <1>v DEF RevertStartupProbe, WriteDeployment, Templates
  <2>9. CASE InstalledVersion
    BY <2>9, <1>v DEF InstalledVersion, Lifecycle!Confirm
  <2>10. CASE RegenerateDeployment
    <3>1. /\ pc = "regenerate" /\ UNCHANGED <<registry, installed>>
          /\ \/ template' = template
             \/ template' = GetPodTemplate(res, res.version)
      BY <2>10 DEF RegenerateDeployment, WriteDeployment, deployment, local
    <3>2. GetPodTemplate(res, res.version).label = res.version
      BY DEF GetPodTemplate
    <3>3. registry # 0
      BY <3>1
    <3>. QED
      BY <3>1, <3>2, <3>3, <1>v DEF Lifecycle!Deploy
  <2>11. CASE \/ StartPass \/ HealthCheck \/ FetchRemoteDoguDescriptor
              \/ Validation \/ PauseReconciliation \/ CreateExecPod
              \/ CustomK8sResource \/ StartStop \/ VolumeExpander
              \/ PreUpgradeStatus \/ UpdateDeploymentVersion
              \/ DeleteExecPod \/ PostUpgradeScript \/ UpdateStartedAt
              \/ FinishPass \/ StepFails \/ Crash \/ Cluster \/ EditSpec
    BY <2>11, Zenon DEF StartPass, HealthCheck, FetchRemoteDoguDescriptor, Validation,
         PauseReconciliation, CreateExecPod, CustomK8sResource, StartStop,
         WriteDeployment, VolumeExpander, PreUpgradeStatus,
         UpdateDeploymentVersion, DeleteExecPod, PostUpgradeScript,
         UpdateStartedAt, FinishPass, StepFails, Crash, Cluster,
         PodTerminates, PodCreated, PodUp, ExecPodUp, EditSpec
  <2>12. CASE UNCHANGED vars
    BY <2>12 DEF vars
  <2>. QED
    BY <2>1, <2>2, <2>3, <2>4, <2>5, <2>6, <2>7, <2>8, <2>9, <2>10, <2>11,
       <2>12 DEF Next, Pass
<1>. QED  BY <1>1

\* The reconciliation implements the lifecycle.
THEOREM RefinesLifecycle == Spec => LifecycleSpec
<1>1. Init => Lifecycle!Init
  BY DEF Init, NoTemplate, Lifecycle!Init
<1>2. Inv /\ [Next]_vars => [Lifecycle!Next]_(Lifecycle!vars)
  BY LifecycleStep
<1>. QED
  BY <1>1, <1>2, Invariance, PTL DEF Spec, LifecycleSpec, Lifecycle!Spec
=============================================================================
