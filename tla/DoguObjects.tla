----------------------------- MODULE DoguObjects -----------------------------
(* The objects the operator generates for one dogu (service, network policies *)
(* and pod template) while the dogu is installed and upgraded, its additional *)
(* mounts change, steps fail and the operator is restarted with another       *)
(* configuration.                                                             *)
(*                                                                            *)
(* A pass runs the steps that read or write these objects, in the order of    *)
(* NewDoguInstallOrChangeUseCase.  They use two descriptors: the one of the   *)
(* spec's version, and the installed one, which an upgrade replaces late.     *)
EXTENDS NetworkPolicies, ServiceAnnotations, PodTemplates

CONSTANTS
    Versions,   \* the versions of the dogu, ordered like core.Version
    Scenarios   \* a sequence of descriptors, specs, sources of mounts, bounds

\* The operator's configuration: whether network policies are enabled, and the
\* image of the init container for additional mounts
Configs == [policies : BOOLEAN, image : {"1", "2"}]

ProperDescriptor(dogu) ==
    /\ NoDependency \notin DependencyNames(dogu)
    /\ IsSequence(dogu.dependencies) /\ IsSequence(dogu.volumes)
    /\ IsSequence(dogu.exposedPorts)
    /\ ProperImage(dogu.image)

ASSUME ObjectsAssumption ==
    /\ Versions \subseteq Nat \ {0}
    /\ \A i \in DOMAIN Scenarios :
         LET s == Scenarios[i] IN
           /\ DOMAIN s.descriptors \subseteq Versions
           /\ \A v \in DOMAIN s.descriptors :
                  /\ s.descriptors[v].version = v
                  /\ ProperDescriptor(s.descriptors[v])
           /\ s.first \in s.specs
           /\ \A e \in s.specs :
                  e.version \in DOMAIN s.descriptors /\ IsSequence(e.mounts)
           /\ s.edits \in Nat /\ s.faults \in Nat
           /\ s.configs \subseteq Configs

VARIABLES
    number,      \* of the scenario
    spec,        \* the spec of the dogu resource
    edits,       \* edits of the spec and of sources left
    sources,     \* the ConfigMaps and Secrets that exist for mounts
    config,      \* the operator's configuration
    registered,  \* the version enabled in the local registry, 0 if none
    service,     \* the dogu's service, NoService if there is none
    policies,    \* its network policies
    template,    \* the deployment's pod template, NoTemplate if there is none
    pc,          \* the step the pass is at
    queued,      \* the dogu is in the work queue
    ready,       \* the Ready condition
    faults       \* number of faults so far

vars == <<number, spec, edits, sources, config, registered, service, policies,
          template, pc, queued, ready, faults>>

NoService == [ports |-> <<>>, ces |-> <<>>, exposed |-> <<>>, exists |-> FALSE]

NoTemplate == [label |-> 0, version |-> 0, volumes |-> <<>>,
               containers |-> <<>>]

Steps == {"validation", "register", "service", "policies", "deployment",
          "additionalMounts", "updateVersion", "upgradeRegister", "regenerate"}

Outcomes == {"applied", "requeue", "error", "abort"}

\* The scenario
sc == Scenarios[number]

\* FetchForResource
ForResource == sc.descriptors[spec.version]

\* FetchInstalled
Installed == sc.descriptors[registered]

-----------------------------------------------------------------------------
(* Additional mounts                                                          *)

\* ValidateAdditionalMounts with validateSource
ValidAdditionalMounts(dogu) ==
    /\ spec.mounts # <<>> => HasLocalConfigVolume(dogu)
    /\ IsInjective(spec.mounts)
    /\ \A m \in Range(spec.mounts) :
           /\ HasVolume(dogu, m.volume)
           /\ VolumeByName(dogu, m.volume).client = "none"
           /\ <<m.type, m.name>> \in sources

\* The template has no additional mounts: no init container, or one that only
\* deletes what was copied before.
NoAdditionalMounts(t) ==
    IF "mounts" \in DOMAIN t.containers
    THEN t.containers["mounts"].args = <<>> ELSE TRUE

\* AdditionalMountsChanged, from the installed descriptor
AdditionalMountsChanged(t) ==
    IF spec.mounts = <<>> \/ NoAdditionalMounts(t)
    THEN (spec.mounts = <<>>) # NoAdditionalMounts(t)
    ELSE LET target == AdditionalMountInitContainer(spec, Installed, config.image)
             actual == t.containers["mounts"]
         IN  target.args # actual.args \/ target.image # actual.image

AdditionalMountsChangedFails(t) ==
    /\ spec.mounts # <<>> /\ ~NoAdditionalMounts(t)
    /\ AdditionalMountInitContainerFails(spec, Installed)

\* UpdateAdditionalMounts replaces the init container and all volumes.
WithAdditionalMounts(t) ==
    [t EXCEPT !.volumes = CreateVolumes(spec, Installed),
              !.containers = [n \in DOMAIN @ \cup {"mounts"} |->
                  IF n = "mounts"
                  THEN AdditionalMountInitContainer(spec, Installed, config.image)
                  ELSE @[n]]]

-----------------------------------------------------------------------------

user == <<number, spec, edits, sources>>
objects == <<registered, service, policies, template>>
process == <<config, faults>>

Init ==
    /\ number \in DOMAIN Scenarios
    /\ spec = sc.first
    /\ edits = sc.edits
    /\ sources = sc.sources
    /\ config = [policies |-> TRUE, image |-> "1"]
    /\ registered = 0
    /\ service = NoService
    /\ policies = {}
    /\ template = NoTemplate
    /\ pc = "idle" /\ queued = TRUE /\ ready = FALSE
    /\ faults = 0

\* The watch of an owned object queues the dogu when it changes.
QueueIf(changed) == queued' = (queued \/ changed)

\* A write of the deployment, refused by the API server or followed by next
WriteTemplate(new, next) ==
    IF Accepted(new)
    THEN template' = new /\ QueueIf(new # template) /\ pc' = next
    ELSE pc' = "error" /\ UNCHANGED <<template, queued>>

-----------------------------------------------------------------------------
(* A pass                                                                     *)

StartPass ==
    /\ pc = "idle" /\ queued
    /\ pc' = "validation" /\ queued' = FALSE
    /\ UNCHANGED <<user, objects, process, ready>>

\* Mutated: mounts that are not valid abort the pass, like a downgrade.
ValidationAborts ==
    /\ pc = "validation"
    /\ pc' = IF spec.version >= registered /\ ValidAdditionalMounts(ForResource)
             THEN "register" ELSE "abort"
    /\ UNCHANGED <<user, objects, process, queued, ready>>

\* ValidationStep, as far as it depends on the spec
Validation ==
    /\ pc = "validation"
    /\ pc' = IF spec.version < registered THEN "abort"
             ELSE IF ValidAdditionalMounts(ForResource) THEN "register"
             ELSE "error"
    /\ UNCHANGED <<user, objects, process, queued, ready>>

\* install.RegisterDoguVersionStep
RegisterDoguVersion ==
    /\ pc = "register"
    /\ pc' = "service"
    /\ registered' = IF registered = 0 THEN spec.version ELSE registered
    /\ QueueIf(registered' # registered)
    /\ UNCHANGED <<user, service, policies, template, process, ready>>

\* ServiceStep: the service is the one of the spec's version.
Service ==
    /\ pc = "service"
    /\ \/ /\ ForResource.image.valid /\ PortsAccepted(ForResource.image)
          /\ \E s \in CreateDoguServices(ForResource.image,
                                         ForResource.exposedPorts, Name) :
                 service' = [ports |-> s.ports, ces |-> s.ces,
                             exposed |-> s.exposed, exists |-> TRUE]
          /\ QueueIf(service' # service)
          /\ pc' = "policies"
       \/ /\ ~(ForResource.image.valid /\ PortsAccepted(ForResource.image))
          /\ pc' = "error"
          /\ UNCHANGED <<service, queued>>
    /\ UNCHANGED <<user, registered, policies, template, process, ready>>

\* NetworkPoliciesStep: the policies are the ones of the installed version.
NetworkPoliciesWritten ==
    /\ pc = "policies"
    /\ pc' = "deployment"
    /\ policies' = UpsertDoguNetworkPolicies(policies, Installed,
                                             HasCesServices(service),
                                             config.policies)
    /\ QueueIf(policies' # policies)
    /\ UNCHANGED <<user, registered, service, template, process, ready>>

\* NetworkPoliciesStep, when some of its calls fail
NetworkPoliciesFail ==
    /\ pc = "policies" /\ faults < sc.faults
    /\ faults' = faults + 1
    /\ pc' = "error"
    /\ policies' \in PartlyUpserted(policies, Installed,
                                    HasCesServices(service), config.policies)
    /\ QueueIf(policies' # policies)
    /\ UNCHANGED <<user, registered, service, template, config, ready>>

\* CreateDeploymentStep: from the installed descriptor, whatever the version
CreateDeployment ==
    /\ pc = "deployment"
    /\ \/ /\ template # NoTemplate
          /\ pc' = "additionalMounts"
          /\ UNCHANGED <<template, queued>>
       \/ /\ template = NoTemplate
          /\ PodTemplateFails(spec, Installed)
          /\ pc' = "error"
          /\ UNCHANGED <<template, queued>>
       \/ /\ template = NoTemplate
          /\ ~PodTemplateFails(spec, Installed)
          /\ WriteTemplate(PodTemplate(spec, Installed, config.image),
                           "additionalMounts")
    /\ UNCHANGED <<user, registered, service, policies, process, ready>>

\* AdditionalMountsStep
AdditionalMounts ==
    /\ pc = "additionalMounts"
    /\ IF AdditionalMountsChangedFails(template)
       THEN pc' = "error" /\ UNCHANGED <<template, queued>>
       ELSE IF ~AdditionalMountsChanged(template)
       THEN pc' = "updateVersion" /\ UNCHANGED <<template, queued>>
       ELSE IF \/ ~ValidAdditionalMounts(Installed)
               \/ AdditionalMountInitContainerFails(spec, Installed)
               \/ CreateVolumesFails(Installed)
       THEN pc' = "error" /\ UNCHANGED <<template, queued>>
       ELSE WriteTemplate(WithAdditionalMounts(template), "updateVersion")
    /\ UNCHANGED <<user, registered, service, policies, process, ready>>

\* UpdateDeploymentVersionStep
UpdateDeploymentVersion ==
    /\ pc = "updateVersion"
    /\ \/ /\ template.label = spec.version
          /\ pc' = "upgradeRegister"
          /\ UNCHANGED <<template, queued>>
       \/ /\ template.label # spec.version
          /\ PodTemplateFails(spec, ForResource)
          /\ pc' = "error"
          /\ UNCHANGED <<template, queued>>
       \/ /\ template.label # spec.version
          /\ ~PodTemplateFails(spec, ForResource)
          /\ WriteTemplate(PodTemplate(spec, ForResource, config.image),
                           "requeue")
    /\ UNCHANGED <<user, registered, service, policies, process, ready>>

\* upgrade.RegisterDoguVersionStep
UpgradeRegisterDoguVersion ==
    /\ pc = "upgradeRegister"
    /\ pc' = "regenerate"
    /\ registered' = spec.version
    /\ QueueIf(registered' # registered)
    /\ UNCHANGED <<user, service, policies, template, process, ready>>

\* RegenerateDeploymentStep
RegenerateDeployment ==
    /\ pc = "regenerate"
    /\ IF PodTemplateFails(spec, ForResource)
       THEN pc' = "error" /\ UNCHANGED <<template, queued>>
       ELSE WriteTemplate(PodTemplate(spec, ForResource, config.image),
                          "applied")
    /\ UNCHANGED <<user, registered, service, policies, process, ready>>

\* The end of Reconcile: ready condition and requeue
FinishPass ==
    /\ pc \in Outcomes
    /\ pc' = "idle"
    /\ ready' = (pc = "applied")
    /\ QueueIf(pc \in {"requeue", "error"})
    /\ UNCHANGED <<user, objects, process>>

Pass ==
    \/ StartPass \/ Validation \/ RegisterDoguVersion \/ Service
    \/ NetworkPoliciesWritten \/ CreateDeployment \/ AdditionalMounts
    \/ UpdateDeploymentVersion \/ UpgradeRegisterDoguVersion
    \/ RegenerateDeployment \/ FinishPass

-----------------------------------------------------------------------------
(* Faults and edits                                                           *)

\* A step fails before its effect.
StepFails ==
    /\ pc \in Steps /\ faults < sc.faults
    /\ faults' = faults + 1
    /\ pc' = "error"
    /\ UNCHANGED <<user, objects, config, queued, ready>>

\* The operator is killed, or started anew with another configuration; it
\* lists all dogus then.
Restart ==
    /\ faults < sc.faults
    /\ faults' = faults + 1
    /\ config' \in sc.configs
    /\ pc' = "idle" /\ queued' = TRUE
    /\ UNCHANGED <<user, objects, ready>>

\* The spec is edited between two passes; in some scenarios only when there is
\* a deployment, or when the dogu is ready and has nothing to do.
EditSpec ==
    /\ edits > 0 /\ pc = "idle"
    /\ sc.editWhen = "deployed" => template # NoTemplate
    /\ sc.editWhen = "settled" => ready /\ ~queued
    /\ edits' = edits - 1
    /\ spec' \in sc.specs \ {spec}
    /\ queued' = TRUE
    /\ UNCHANGED <<number, sources, objects, process, pc, ready>>

\* A source of mounts is created or deleted: nobody tells the operator.
EditSource ==
    /\ edits > 0
    /\ edits' = edits - 1
    /\ \E m \in UNION {Range(s.mounts) : s \in sc.specs} :
           LET source == <<m.type, m.name>>
           IN  sources' = IF source \in sources THEN sources \ {source}
                          ELSE sources \cup {source}
    /\ UNCHANGED <<number, spec, objects, process, pc, queued, ready>>

\* Events of parts that are not modelled start passes, too.
OtherEvent ==
    /\ ~queued
    /\ queued' = TRUE
    /\ UNCHANGED <<user, objects, process, pc, ready>>

Next ==
    \/ Pass \/ NetworkPoliciesFail \/ StepFails \/ Restart
    \/ EditSpec \/ EditSource \/ OtherEvent

Spec == Init /\ [][Next]_vars

\* The worker goes on with its pass and takes the dogu from its queue.
FairSpec == Spec /\ WF_vars(Pass)

-----------------------------------------------------------------------------
(* Reference definitions                                                      *)

\* Each additional mount is copied from its source, to a place where the dogu
\* sees it, at the path the descriptor gives the volume.
Copied(dogu) ==
    /\ "mounts" \in DOMAIN template.containers
    /\ \A m \in Range(spec.mounts) :
           /\ Volume(<<m.name>>, <<m.type, m.name>>) \in Range(template.volumes)
           /\ \E v \in Range(dogu.volumes) :
                  /\ v.name = m.volume
                  /\ [source |-> m.name, target |-> v.path, subfolder |-> m.subfolder]
                     \in Range(template.containers["mounts"].args)

-----------------------------------------------------------------------------
(* Properties                                                                 *)

\* What the operator says is done: the ready condition is set and nothing is
\* queued.
Settled == pc = "idle" /\ ready /\ ~queued

\* Types of all variables; paths of ces services start with a slash
\* (getServiceLocation, getServicePass).
TypeOK ==
    /\ number \in DOMAIN Scenarios /\ spec \in sc.specs
    /\ edits \in 0..sc.edits /\ faults \in 0..sc.faults
    /\ config \in Configs
    /\ registered \in {0} \cup Versions
    /\ \A e \in Range(service.ces) : HasSlash(e.location) /\ HasSlash(e.pass)
    /\ \A p \in policies : p.kind \in {"dogu", "component", "ingress", "deny-all"}
    /\ template.label \in {0} \cup Versions
    /\ pc \in Steps \cup Outcomes \cup {"idle"}
    /\ queued \in BOOLEAN /\ ready \in BOOLEAN

\* When the dogu is settled, its service is the one of its version's image:
\* ports, one entry for each web application with the most specific settings,
\* additional services and exposed ports (CreateDoguService), in whatever
\* order the maps were read.  Every TCP port is a web application if the tag is
\* general (isServiceWebApp), and location and pass follow an overridden name
\* (test_additional_services_expected.yaml); the example in annotations_en.md,
\* lines 70 to 89, has one entry for two ports, and the dogu's name for pass.
ServiceFollowsImage == Settled => Shows(service, ForResource)

\* When the dogu is settled, it reaches all its dependencies, no former one,
\* and is reached by the gateway (UpsertDoguNetworkPolicies), although each of
\* the calls may have failed, an upgrade changed the dependencies, and the
\* operator was started with policies disabled in between.
PoliciesFollowDependencies ==
    Settled => IF config.policies
               THEN Guarded(policies, ForResource, HasCesServices(service))
               ELSE policies = {}

\* What the init container of any deployed template copies comes from where it
\* mounts the source and goes to where the dogu's container mounts the same
\* volume, also while an upgrade has changed only one of the two
\* (UpdateAdditionalMounts, prepareAdditionalMountsAndArgs).
CopiesVisible ==
    ~NoAdditionalMounts(template) =>
        LET c == template.containers
        IN  \A a \in Range(c["mounts"].args) :
               /\ \E m \in c["mounts"].mounts :
                      m.path = <<"datamount", a.source>> /\ m.name = <<a.source>>
               /\ \E m \in c["mounts"].mounts, n \in c["dogu"].mounts :
                      /\ m.path = <<"dogumount", a.target>>
                      /\ n.path = <<Blank, a.target>>
                      /\ m.name = n.name /\ m.subPath = n.subPath

\* When the dogu is settled, its template is of the spec's version and copies
\* each additional mount from the right source to the right volume.
MountsFollowSpec ==
    Settled => /\ template.label = spec.version
               /\ template.version = spec.version
               /\ spec.mounts # <<>> => Copied(ForResource)

\* Everything is as the spec asks.
AsAsked ==
    /\ registered = spec.version
    /\ template.version = spec.version
    /\ Shows(service, ForResource)
    /\ IF config.policies
       THEN Guarded(policies, ForResource, HasCesServices(service))
       ELSE policies = {}
    /\ spec.mounts # <<>> => Copied(ForResource)

\* The spec can be met: no downgrade, valid mounts, an image and volumes the
\* operator understands, and a service and a template the API server accepts.
Attainable ==
    /\ spec.version >= registered
    /\ ValidAdditionalMounts(ForResource)
    /\ ForResource.image.valid /\ PortsAccepted(ForResource.image)
    /\ ~PodTemplateFails(spec, ForResource)
    /\ Accepted(PodTemplate(spec, ForResource, config.image))

\* If from some time on the spec can be met, then service, policies, template
\* and registered version become and stay what it asks for.
ObjectsConverge == <>[]Attainable => <>[]AsAsked
=============================================================================
