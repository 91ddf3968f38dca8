-------------------------- MODULE DoguObjectsProofs --------------------------
(* The objects of a dogu, for all descriptors, specs and configurations, and  *)
(* any number of edits and faults.  A settled dogu has network policies for   *)
(* what its version depends on and nobody else, the service of its version's  *)
(* image, and a deployment that copies its additional mounts; and what the    *)
(* init container copies is seen by the dogu.                                 *)
EXTENDS DoguObjects, GeneratorLemmas

\* Every policy was generated for a dependency, the gateway, or nobody.
Generated(p) ==
    \/ p = DenyAll
    \/ p = Ingress
    \/ /\ p.kind \in {"dogu", "component"} /\ p.dependency # NoDependency
       /\ p = Policy(p.kind, p.dependency)

AllGenerated == \A p \in policies : Generated(p)

\* The policies are those of the installed descriptor and of the service.
PoliciesOK ==
    IF config.policies THEN Guarded(policies, Installed, HasCesServices(service))
    ELSE policies = {}

\* Steps behind the one that writes the policies
Behind == {"deployment", "additionalMounts", "updateVersion", "upgradeRegister"}

\* Unless the dogu is queued, the policies are right behind their step, and the
\* installed version is the one of the spec from where it is registered on
\* until the next pass.
PoliciesInv ==
    /\ registered \in {0} \cup DOMAIN sc.descriptors
    /\ pc \in Steps \cup Outcomes \cup {"idle"}
    /\ pc \in Steps \ {"validation", "register"} => registered # 0
    /\ number \in DOMAIN Scenarios /\ spec \in sc.specs
    /\ AllGenerated
    /\ queued \/ pc \notin Behind \/ PoliciesOK
    /\ \/ queued \/ pc \notin {"regenerate", "applied"}
       \/ PoliciesOK /\ registered = spec.version
    /\ \/ queued \/ pc # "idle" \/ ~ready
       \/ PoliciesOK /\ registered = spec.version

\* Upserting keeps policies generated, whether all calls succeed or not.
LEMMA UpsertGenerates ==
    ASSUME NEW P, \A p \in P : Generated(p), NEW annotated, NEW enabled,
           NEW dogu, NoDependency \notin DependencyNames(dogu)
    PROVE  /\ \A p \in UpsertDoguNetworkPolicies(P, dogu, annotated, enabled) :
                 Generated(p)
           /\ \A Q \in PartlyUpserted(P, dogu, annotated, enabled) :
                 \A p \in Q : Generated(p)
<1>1. \A p \in WrittenPolicies(dogu, annotated) : Generated(p)
  <2>1. \A p \in DependencyPolicies(dogu) : Generated(p)
    BY DEF DependencyPolicies, DependencyNames, Generated, Policy
  <2> QED BY <2>1 DEF WrittenPolicies, ServiceAnnotationPolicies, Generated
<1>2. \A p \in UpsertDoguNetworkPolicies(P, dogu, annotated, enabled) :
          p \in P \cup WrittenPolicies(dogu, annotated)
  BY DEF UpsertDoguNetworkPolicies
<1>3. \A Q \in PartlyUpserted(P, dogu, annotated, enabled) :
          Q \subseteq P \cup WrittenPolicies(dogu, annotated)
  BY DEF PartlyUpserted
<1> QED BY <1>1, <1>2, <1>3

\* While policies are enabled, upserting them isolates the dogu, lets it reach
\* exactly the dependencies of the descriptor, and lets the gateway reach a
\* dogu with web applications.
LEMMA UpsertGuards ==
    ASSUME NEW P, \A p \in P : Generated(p), NEW webapps,
           NEW dogu, NoDependency \notin DependencyNames(dogu)
    PROVE  Guarded(UpsertDoguNetworkPolicies(P, dogu, webapps, TRUE), dogu, webapps)
<1> DEFINE D == Range(dogu.dependencies)
           W == WrittenPolicies(dogu, webapps)
           Q == UpsertDoguNetworkPolicies(P, dogu, webapps, TRUE)
<1>1. Q = {p \in P \cup W : p.dependency = NoDependency
                             \/ p.dependency \in DependencyNames(dogu)}
  BY DEF UpsertDoguNetworkPolicies, NonExistentDependencyPolicies
<1>2. \A p \in Q : Generated(p)
  BY UpsertGenerates, Zenon
<1> HIDE DEF Q
<1>3. DenyAll \in Q
  BY <1>1 DEF WrittenPolicies, DenyAll
<1>4. webapps => Ingress \in Q
  BY <1>1 DEF WrittenPolicies, Ingress, ServiceAnnotationPolicies
<1>5. ASSUME NEW d \in D, d.type \in {"dogu", "component"}
      PROVE  Policy(d.type, d.name) \in Q
  <2>1. Policy(d.type, d.name) \in W
    BY <1>5 DEF WrittenPolicies, DependencyPolicies
  <2>2. d.name \in DependencyNames(dogu)
    BY DEF DependencyNames
  <2> QED BY <1>1, <2>1, <2>2 DEF Policy
<1>6. ASSUME NEW p \in Q, p.from = TheDogu
      PROVE  /\ p.kind \in {"dogu", "component"}
             /\ p.to = <<p.kind, p.dependency>>
             /\ \E d \in D : d.name = p.dependency
  <2>1. TheDogu # Nobody /\ TheDogu # Gateway
    BY DEF TheDogu, Nobody, Gateway
  <2>2. p # DenyAll /\ p # Ingress
    BY <1>6, <2>1 DEF DenyAll, Ingress
  <2>3. /\ p.kind \in {"dogu", "component"} /\ p.dependency # NoDependency
        /\ p = Policy(p.kind, p.dependency)
    BY <1>2, <2>2 DEF Generated
  <2>4. p.to = <<p.kind, p.dependency>>
    BY <2>3 DEF Policy
  <2>5. p.dependency \in DependencyNames(dogu)
    BY <1>1, <2>3
  <2> QED BY <2>3, <2>4, <2>5 DEF DependencyNames
<1>7. \E p \in Q : p.to = TheDogu /\ p.from = Nobody
  BY <1>3 DEF DenyAll
<1>8. webapps => TheDogu \in ReachedBy(Q, Gateway)
  BY <1>4 DEF Ingress, ReachedBy
<1>9. ASSUME NEW d \in D
      PROVE  d.type \in {"dogu", "component"}
             <=> <<d.type, d.name>> \in ReachedBy(Q, TheDogu)
  <2>1. ASSUME d.type \in {"dogu", "component"}
        PROVE  <<d.type, d.name>> \in ReachedBy(Q, TheDogu)
    <3> DEFINE p == Policy(d.type, d.name)
    <3>1. p \in Q
      BY <1>5, <2>1
    <3>2. p.from = TheDogu /\ p.to = <<d.type, d.name>>
      BY DEF Policy
    <3> HIDE DEF p
    <3> QED BY <3>1, <3>2 DEF ReachedBy
  <2>2. ASSUME <<d.type, d.name>> \in ReachedBy(Q, TheDogu)
        PROVE  d.type \in {"dogu", "component"}
    <3>1. PICK p \in Q : p.from = TheDogu /\ p.to = <<d.type, d.name>>
      BY <2>2 DEF ReachedBy
    <3>2. <<p.kind, p.dependency>> = <<d.type, d.name>>
      BY <1>6, <3>1
    <3> QED BY <1>6, <3>1, <3>2
  <2> QED BY <2>1, <2>2
<1>10. ASSUME NEW to \in ReachedBy(Q, TheDogu)
       PROVE  \E d \in D : d.name = to[2]
  <2>1. PICK p \in Q : p.from = TheDogu /\ p.to = to
    BY DEF ReachedBy
  <2> QED BY <1>6, <2>1
<1> QED BY <1>7, <1>8, <1>9, <1>10, Zenon DEF Guarded, Q

\* The descriptor of a version that can be asked for has proper dependencies.
LEMMA ProperDependencies ==
    ASSUME PoliciesInv, registered # 0
    PROVE  NoDependency \notin DependencyNames(Installed)
BY ObjectsAssumption DEF PoliciesInv, Installed, sc, ProperDescriptor

\* Init establishes the invariant.
LEMMA PoliciesInit == Init => PoliciesInv
<1> SUFFICES ASSUME Init PROVE PoliciesInv
  OBVIOUS
<1>1. spec \in sc.specs
  BY ObjectsAssumption DEF Init, sc
<1> QED BY <1>1 DEF Init, PoliciesInv, AllGenerated, Steps, Outcomes, Behind

\* Each step of the operator, a fault or an edit keeps the invariant.
LEMMA PoliciesStep ==
    ASSUME PoliciesInv, [Next]_vars
    PROVE  PoliciesInv'
<1> USE DEF PoliciesInv, Steps, Outcomes, Behind, user, objects, process
<1>1. CASE UNCHANGED vars
  BY <1>1 DEF vars, AllGenerated, PoliciesOK, sc, Installed
<1>2. CASE StartPass
  BY <1>2 DEF StartPass, AllGenerated, sc
<1>3. CASE Validation
  BY <1>3 DEF Validation, AllGenerated, sc
<1>4. CASE RegisterDoguVersion
  BY <1>4, ObjectsAssumption DEF RegisterDoguVersion, QueueIf, AllGenerated, sc
<1>5. CASE Service
  BY <1>5 DEF Service, QueueIf, AllGenerated, sc
<1>6. CASE NetworkPoliciesWritten
  <2> USE <1>6 DEF NetworkPoliciesWritten
  <2>1. NoDependency \notin DependencyNames(Installed)
    BY ProperDependencies
  <2>2. AllGenerated'
    BY <2>1, UpsertGenerates DEF AllGenerated
  <2>3. PoliciesOK'
    <3>1. CASE config.policies = TRUE
      BY <2>1, <3>1, UpsertGuards, Zenon DEF PoliciesOK, AllGenerated, Installed, sc
    <3>2. CASE ~config.policies
      BY <3>2 DEF PoliciesOK, UpsertDoguNetworkPolicies
    <3> QED BY <3>1, <3>2, Zenon
  <2> QED BY <2>2, <2>3 DEF QueueIf, sc
<1>7. CASE NetworkPoliciesFail
  <2> USE <1>7 DEF NetworkPoliciesFail
  <2>1. NoDependency \notin DependencyNames(Installed)
    BY ProperDependencies
  <2>2. AllGenerated'
    BY <2>1, UpsertGenerates DEF AllGenerated
  <2> QED BY <2>2 DEF QueueIf, sc
<1>8. CASE CreateDeployment
  BY <1>8, Zenon
     DEF CreateDeployment, WriteTemplate, QueueIf, AllGenerated, PoliciesOK, sc, Installed
<1>9. CASE AdditionalMounts
  BY <1>9, Zenon
     DEF AdditionalMounts, WriteTemplate, QueueIf, AllGenerated, PoliciesOK, sc, Installed
<1>10. CASE UpdateDeploymentVersion
  BY <1>10
     DEF UpdateDeploymentVersion, WriteTemplate, QueueIf, AllGenerated, PoliciesOK, sc, Installed
<1>11. CASE UpgradeRegisterDoguVersion
  BY <1>11, ObjectsAssumption, Zenon
     DEF UpgradeRegisterDoguVersion, QueueIf, AllGenerated, PoliciesOK, sc, Installed
<1>12. CASE RegenerateDeployment
  BY <1>12, Zenon
     DEF RegenerateDeployment, WriteTemplate, QueueIf, AllGenerated, PoliciesOK, sc, Installed
<1>13. CASE FinishPass
  BY <1>13, Zenon DEF FinishPass, QueueIf, AllGenerated, PoliciesOK, sc, Installed
<1>14. CASE StepFails
  BY <1>14 DEF StepFails, AllGenerated, sc
<1>15. CASE Restart
  BY <1>15 DEF Restart, AllGenerated, sc
<1>16. CASE EditSpec
  BY <1>16 DEF EditSpec, AllGenerated, sc
<1>17. CASE EditSource
  BY <1>17 DEF EditSource, AllGenerated, PoliciesOK, sc, Installed
<1>18. CASE OtherEvent
  BY <1>18 DEF OtherEvent, AllGenerated, sc
<1> QED
  BY <1>1, <1>2, <1>3, <1>4, <1>5, <1>6, <1>7, <1>8, <1>9, <1>10, <1>11, <1>12,
     <1>13, <1>14, <1>15, <1>16, <1>17, <1>18, Zenon DEF Next, Pass

\* A dogu that is ready and has nothing queued is isolated, reaches all
\* dependencies of its version and none of an earlier one, and is reached by
\* the gateway; with policies disabled it has none (NetworkPoliciesStep,
\* UpsertDoguNetworkPolicies).  Calls may have failed one by one, versions and
\* the operator's configuration changed.
THEOREM PoliciesFollow == Spec => []PoliciesFollowDependencies
<1>1. PoliciesInv => PoliciesFollowDependencies
  BY DEF PoliciesInv, PoliciesFollowDependencies, Settled, PoliciesOK, Installed,
         ForResource
<1> QED BY <1>1, PoliciesInit, PoliciesStep, PTL DEF Spec

-----------------------------------------------------------------------------
(* Types                                                                      *)

\* With the invariant of the policies, the types of all variables
TypesInv ==
    /\ edits \in 0..sc.edits /\ faults \in 0..sc.faults
    /\ config \in Configs
    /\ Slashes(service.ces)
    /\ "label" \in DOMAIN template /\ template.label \in {0} \cup Versions
    /\ queued \in BOOLEAN /\ ready \in BOOLEAN

\* The constants of the scenario
LEMMA Scenario ==
    ASSUME PoliciesInv
    PROVE  /\ sc.edits \in Nat /\ sc.faults \in Nat /\ sc.configs \subseteq Configs
           /\ DOMAIN sc.descriptors \subseteq Versions
           /\ spec.version \in DOMAIN sc.descriptors /\ IsSequence(spec.mounts)
           /\ ForResource.version = spec.version
           /\ \A v \in DOMAIN sc.descriptors : ProperDescriptor(sc.descriptors[v])
BY ObjectsAssumption DEF PoliciesInv, sc, ForResource

\* Init establishes the types.
LEMMA TypesInit == Init => TypesInv
<1> SUFFICES ASSUME Init PROVE TypesInv
  OBVIOUS
<1>1. sc.edits \in Nat /\ sc.faults \in Nat
  BY ObjectsAssumption DEF Init, sc
<1>2. Slashes(service.ces)
  BY DEF Init, NoService, Slashes, Range
<1>3. template.label = 0 /\ "label" \in DOMAIN template
  BY DEF Init, NoTemplate
<1>4. config \in Configs
  BY DEF Init, Configs
<1>5. queued \in BOOLEAN /\ ready \in BOOLEAN
  BY Zenon DEF Init
<1> QED BY <1>1, <1>2, <1>3, <1>4, <1>5 DEF Init, TypesInv

\* Each step keeps the types.
LEMMA TypesStep ==
    ASSUME PoliciesInv, TypesInv, [Next]_vars
    PROVE  TypesInv'
<1> USE DEF TypesInv, user, objects, process
<1>0. /\ sc.edits \in Nat /\ sc.faults \in Nat /\ sc.configs \subseteq Configs
      /\ spec.version \in Versions
  BY Scenario
<1>b. \A changed : (queued \/ changed) \in BOOLEAN
  OBVIOUS
<1>t. ASSUME NEW new, NEW next, WriteTemplate(new, next),
             "label" \in DOMAIN new, new.label \in {0} \cup Versions
      PROVE  /\ "label" \in DOMAIN template' /\ template'.label \in {0} \cup Versions
             /\ queued' \in BOOLEAN
  <2>1. CASE Accepted(new)
    <3>1. queued' \in BOOLEAN
      BY <1>b, <1>t, <2>1 DEF WriteTemplate, QueueIf
    <3>2. template' = new
      BY <1>t, <2>1 DEF WriteTemplate
    <3> QED BY <1>t, <3>1, <3>2
  <2>2. CASE ~Accepted(new)
    BY <1>t, <2>2 DEF WriteTemplate
  <2> QED BY <2>1, <2>2
<1>p. \A dogu : LET new == PodTemplate(spec, dogu, config.image)
                IN  "label" \in DOMAIN new /\ new.label \in {0} \cup Versions
  BY <1>0 DEF PodTemplate
<1>q. LET new == WithAdditionalMounts(template)
      IN  "label" \in DOMAIN new /\ new.label \in {0} \cup Versions
  BY DEF WithAdditionalMounts
<1>1. CASE UNCHANGED vars
  BY <1>1 DEF vars, sc
<1>2. CASE StartPass
  BY <1>2, Zenon DEF StartPass, sc
<1>3. CASE Validation
  BY <1>3 DEF Validation, sc
<1>4. CASE RegisterDoguVersion
  BY <1>4, <1>b DEF RegisterDoguVersion, QueueIf, sc
<1>5. CASE Service
  <2>0. ProperImage(ForResource.image)
    BY Scenario DEF ForResource, ProperDescriptor
  <2>1. Slashes(service'.ces)
    <3>1. CASE \E s \in CreateDoguServices(ForResource.image,
                                           ForResource.exposedPorts, Name) :
                   service' = [ports |-> s.ports, ces |-> s.ces,
                               exposed |-> s.exposed, exists |-> TRUE]
      BY <2>0, <3>1, ServiceSlashes
    <3>2. CASE service' = service
      BY <3>2
    <3> QED BY <1>5, <3>1, <3>2 DEF Service
  <2>2. queued' \in BOOLEAN
    BY <1>5, <1>b, Zenon DEF Service, QueueIf
  <2> QED BY <1>5, <2>1, <2>2 DEF Service, sc
<1>6. CASE NetworkPoliciesWritten
  BY <1>6, <1>b DEF NetworkPoliciesWritten, QueueIf, sc
<1>7. CASE NetworkPoliciesFail
  <2>1. queued' \in BOOLEAN
    BY <1>7, <1>b DEF NetworkPoliciesFail, QueueIf
  <2> QED BY <1>7, <1>0, <2>1 DEF NetworkPoliciesFail, sc
<1>8. CASE CreateDeployment
  <2>1. /\ "label" \in DOMAIN template' /\ template'.label \in {0} \cup Versions
        /\ queued' \in BOOLEAN
    BY <1>8, <1>t, <1>p DEF CreateDeployment
  <2> QED BY <1>8, <2>1 DEF CreateDeployment, sc
<1>9. CASE AdditionalMounts
  <2>1. /\ "label" \in DOMAIN template' /\ template'.label \in {0} \cup Versions
        /\ queued' \in BOOLEAN
    BY <1>9, <1>t, <1>q DEF AdditionalMounts
  <2> QED BY <1>9, <2>1 DEF AdditionalMounts, sc
<1>10. CASE UpdateDeploymentVersion
  <2>1. /\ "label" \in DOMAIN template' /\ template'.label \in {0} \cup Versions
        /\ queued' \in BOOLEAN
    BY <1>10, <1>t, <1>p DEF UpdateDeploymentVersion
  <2> QED BY <1>10, <2>1 DEF UpdateDeploymentVersion, sc
<1>11. CASE UpgradeRegisterDoguVersion
  BY <1>11, <1>b DEF UpgradeRegisterDoguVersion, QueueIf, sc
<1>12. CASE RegenerateDeployment
  <2>1. /\ "label" \in DOMAIN template' /\ template'.label \in {0} \cup Versions
        /\ queued' \in BOOLEAN
    BY <1>12, <1>t, <1>p DEF RegenerateDeployment
  <2> QED BY <1>12, <2>1 DEF RegenerateDeployment, sc
<1>13. CASE FinishPass
  <2>1. queued' \in BOOLEAN /\ ready' \in BOOLEAN
    BY <1>13, <1>b DEF FinishPass, QueueIf
  <2> QED BY <1>13, <2>1 DEF FinishPass, sc
<1>14. CASE StepFails
  BY <1>14, <1>0 DEF StepFails, sc
<1>15. CASE Restart
  BY <1>15, <1>0 DEF Restart, sc
<1>16. CASE EditSpec
  BY <1>16, <1>0 DEF EditSpec, sc
<1>17. CASE EditSource
  BY <1>17, <1>0 DEF EditSource, sc
<1>18. CASE OtherEvent
  BY <1>18 DEF OtherEvent, sc
<1> QED
  BY <1>1, <1>2, <1>3, <1>4, <1>5, <1>6, <1>7, <1>8, <1>9, <1>10, <1>11, <1>12,
     <1>13, <1>14, <1>15, <1>16, <1>17, <1>18, Zenon DEF Next, Pass

\* Types of all variables in all states; the paths in the service's annotation
\* start with a slash (getServiceLocation, getServicePass).
THEOREM ObjectsTypes == Spec => []TypeOK
<1>1. PoliciesInv /\ TypesInv => TypeOK
  <2> SUFFICES ASSUME PoliciesInv, TypesInv PROVE TypeOK
    OBVIOUS
  <2>1. registered \in {0} \cup Versions
    BY Scenario DEF PoliciesInv
  <2>2. \A p \in policies : p.kind \in {"dogu", "component", "ingress", "deny-all"}
    BY DEF PoliciesInv, AllGenerated, Generated, DenyAll, Ingress
  <2> QED BY <2>1, <2>2 DEF PoliciesInv, TypesInv, TypeOK, Slashes
<1> QED BY <1>1, PoliciesInit, PoliciesStep, TypesInit, TypesStep, PTL DEF Spec

-----------------------------------------------------------------------------
(* What a settled dogu has                                                    *)

\* The service is one that CreateDoguService may return for the spec's version,
\* and the API server has accepted it.
ServiceOK ==
    /\ PortsAccepted(ForResource.image)
    /\ \E s \in CreateDoguServices(ForResource.image, ForResource.exposedPorts, Name) :
           service = [ports |-> s.ports, ces |-> s.ces, exposed |-> s.exposed,
                      exists |-> TRUE]

Mountable(dogu, name) ==
    HasVolume(dogu, name) /\ VolumeByName(dogu, name).client = "none"

\* The volumes that additional mounts need are there: the pass validated it.
ValidatedOK ==
    /\ spec.mounts # <<>> => HasLocalConfigVolume(ForResource)
    /\ \A m \in Range(spec.mounts) : Mountable(ForResource, m.volume)

\* The template is the one of the spec's version, made without an error, perhaps
\* before the operator's configuration changed.
TemplateOK ==
    /\ ~PodTemplateFails(spec, ForResource)
    /\ \E c \in Configs : template = PodTemplate(spec, ForResource, c.image)

\* From the step that writes the service on, until the pass fails or the next
\* one is due, the service is right; in the same way, the mounts are validated,
\* and the template is right.
SettledInv ==
    /\ pc \in {"policies", "regenerate", "applied"} \cup Behind \/ Settled => ServiceOK
    /\ pc \in (Steps \ {"validation"}) \cup {"applied"} \/ Settled => ValidatedOK
    /\ pc = "applied" \/ Settled => TemplateOK

\* Init establishes the invariant.
LEMMA SettledInit == Init => SettledInv
BY DEF Init, SettledInv, Settled, Behind, Steps

\* Each step keeps the invariant: nobody edits the spec during a pass.
LEMMA SettledStep ==
    ASSUME PoliciesInv, TypesInv, SettledInv, [Next]_vars
    PROVE  SettledInv'
<1> USE DEF SettledInv, Settled, Behind, Steps, Outcomes, user, objects, process
<1>a. UNCHANGED <<number, spec>> => /\ UNCHANGED ForResource
                                    /\ UNCHANGED service => (ServiceOK => ServiceOK')
                                    /\ ValidatedOK => ValidatedOK'
                                    /\ UNCHANGED template => (TemplateOK => TemplateOK')
  <2> SUFFICES ASSUME UNCHANGED <<number, spec>>
               PROVE  /\ UNCHANGED ForResource
                      /\ UNCHANGED service => (ServiceOK => ServiceOK')
                      /\ ValidatedOK => ValidatedOK'
                      /\ UNCHANGED template => (TemplateOK => TemplateOK')
    OBVIOUS
  <2>1. UNCHANGED ForResource
    BY DEF ForResource, sc
  <2>2. UNCHANGED service => (ServiceOK => ServiceOK')
    BY <2>1, Zenon DEF ServiceOK
  <2>3. ValidatedOK => ValidatedOK'
    BY <2>1 DEF ValidatedOK
  <2>4. UNCHANGED template => (TemplateOK => TemplateOK')
    BY <2>1 DEF TemplateOK
  <2> QED BY <2>1, <2>2, <2>3, <2>4
<1>1. CASE UNCHANGED vars
  BY <1>1, <1>a DEF vars
<1>2. CASE StartPass
  BY <1>2 DEF StartPass
<1>3. CASE Validation
  <2>1. pc' = "register" => ValidatedOK
    BY <1>3, Zenon DEF Validation, ValidAdditionalMounts, Mountable, ValidatedOK
  <2> QED BY <1>3, <1>a, <2>1 DEF Validation
<1>4. CASE RegisterDoguVersion
  BY <1>4, <1>a DEF RegisterDoguVersion
<1>5. CASE Service
  <2>1. pc' = "policies" => ServiceOK'
    BY <1>5, <1>a DEF Service, ServiceOK
  <2> QED BY <1>5, <1>a, <2>1 DEF Service
<1>6. CASE NetworkPoliciesWritten
  BY <1>6, <1>a DEF NetworkPoliciesWritten
<1>7. CASE NetworkPoliciesFail
  BY <1>7 DEF NetworkPoliciesFail
<1>8. CASE CreateDeployment
  BY <1>8, <1>a, Zenon DEF CreateDeployment, WriteTemplate
<1>9. CASE AdditionalMounts
  BY <1>9, <1>a DEF AdditionalMounts, WriteTemplate
<1>10. CASE UpdateDeploymentVersion
  BY <1>10, <1>a, Zenon DEF UpdateDeploymentVersion, WriteTemplate
<1>11. CASE UpgradeRegisterDoguVersion
  BY <1>11, <1>a DEF UpgradeRegisterDoguVersion
<1>12. CASE RegenerateDeployment
  <2>1. pc' = "applied" => /\ ~PodTemplateFails(spec, ForResource)
                           /\ template' = PodTemplate(spec, ForResource, config.image)
    BY <1>12 DEF RegenerateDeployment, WriteTemplate
  <2>2. pc' = "applied" => TemplateOK'
    BY <1>12, <1>a, <2>1, Zenon DEF RegenerateDeployment, TemplateOK, TypesInv
  <2>3. pc' \in {"applied", "error"}
    BY <1>12 DEF RegenerateDeployment, WriteTemplate
  <2> QED BY <1>12, <1>a, <2>2, <2>3 DEF RegenerateDeployment
<1>13. CASE FinishPass
  BY <1>13, <1>a, Zenon DEF FinishPass, QueueIf
<1>14. CASE StepFails
  BY <1>14 DEF StepFails
<1>15. CASE Restart
  BY <1>15 DEF Restart
<1>16. CASE EditSpec
  BY <1>16 DEF EditSpec
<1>17. CASE EditSource
  BY <1>17, <1>a DEF EditSource
<1>18. CASE OtherEvent
  BY <1>18, <1>a DEF OtherEvent
<1> QED
  BY <1>1, <1>2, <1>3, <1>4, <1>5, <1>6, <1>7, <1>8, <1>9, <1>10, <1>11, <1>12,
     <1>13, <1>14, <1>15, <1>16, <1>17, <1>18, Zenon DEF Next, Pass

\* The invariants hold in all states.
LEMMA SettledInvariance == Spec => [](PoliciesInv /\ SettledInv)
BY PoliciesInit, PoliciesStep, TypesInit, TypesStep, SettledInit, SettledStep, PTL
   DEF Spec

\* A dogu that is ready and has nothing queued has the service of its version's
\* image (ServiceStep, CreateDoguService): all ports, one entry for each web
\* application with the most specific settings, the additional services and the
\* exposed ports, in whatever order the maps were read.
THEOREM ServiceFollows == Spec => []ServiceFollowsImage
<1>1. PoliciesInv /\ SettledInv => ServiceFollowsImage
  <2> SUFFICES ASSUME PoliciesInv, SettledInv, Settled
               PROVE  Shows(service, ForResource)
    BY DEF ServiceFollowsImage
  <2>1. ServiceOK
    BY DEF SettledInv
  <2>2. ProperImage(ForResource.image) /\ ForResource.image.exposed # {}
    BY <2>1, Scenario, Zenon DEF ForResource, sc, PoliciesInv, ProperDescriptor,
       ServiceOK, PortsAccepted
  <2>3. PICK s \in CreateDoguServices(ForResource.image, ForResource.exposedPorts, Name) :
            service = [ports |-> s.ports, ces |-> s.ces, exposed |-> s.exposed,
                       exists |-> TRUE]
    BY <2>1, Zenon DEF ServiceOK
  <2>4. Shows([ports |-> s.ports, ces |-> s.ces, exposed |-> s.exposed,
               exists |-> TRUE], ForResource)
    BY <2>2, ServiceShown, Zenon
  <2> QED BY <2>3, <2>4
<1> QED BY <1>1, SettledInvariance, PTL

\* A dogu that is ready and has nothing queued has a deployment of its version,
\* whose init container copies each additional mount from its source to the
\* volume (RegenerateDeploymentStep, GetPodTemplate,
\* BuildAdditionalMountInitContainer).  A spec must not mount a ConfigMap and a
\* Secret of the same name: the code makes one volume for both.
THEOREM MountsFollow ==
    ASSUME \A i \in DOMAIN Scenarios : \A e \in Scenarios[i].specs :
               OneTypePerName(e.mounts)
    PROVE  Spec => []MountsFollowSpec
<1>1. PoliciesInv /\ SettledInv => MountsFollowSpec
  <2> SUFFICES ASSUME PoliciesInv, SettledInv, Settled
               PROVE  /\ template.label = spec.version
                      /\ template.version = spec.version
                      /\ spec.mounts # <<>> => Copied(ForResource)
    BY DEF MountsFollowSpec
  <2> DEFINE dogu == ForResource
  <2>1. TemplateOK /\ ValidatedOK
    BY DEF SettledInv
  <2>2. PICK c \in Configs : template = PodTemplate(spec, dogu, c.image)
    BY <2>1 DEF TemplateOK
  <2>3. /\ dogu.version = spec.version /\ IsSequence(spec.mounts)
        /\ IsSequence(dogu.volumes) /\ IsSequence(dogu.dependencies)
        /\ OneTypePerName(spec.mounts)
    <3>1. dogu.version = spec.version /\ ProperDescriptor(dogu) /\ IsSequence(spec.mounts)
      BY Scenario DEF ForResource
    <3>2. OneTypePerName(spec.mounts)
      BY DEF PoliciesInv, sc
    <3> QED BY <3>1, <3>2 DEF ProperDescriptor
  <2>4. /\ template.label = spec.version /\ template.version = dogu.version
        /\ template.volumes = CreateVolumes(spec, dogu)
    BY <2>2 DEF PodTemplate
  <2>5. ASSUME spec.mounts # <<>>
        PROVE  Copied(dogu)
    <3>1. HasLocalConfigVolume(dogu)
      BY <2>1, <2>5 DEF ValidatedOK
    <3>2. ~AdditionalMountInitContainerFails(spec, dogu)
      BY <2>1, <3>1 DEF TemplateOK, PodTemplateFails
    <3>3. /\ "mounts" \in DOMAIN template.containers
          /\ template.containers["mounts"] = AdditionalMountInitContainer(spec, dogu, c.image)
      BY <2>2, <3>1 DEF PodTemplate
    <3>4. ASSUME NEW m \in Range(spec.mounts)
          PROVE  \E v \in Range(dogu.volumes) :
                     /\ v.name = m.volume
                     /\ [source |-> m.name, target |-> v.path, subfolder |-> m.subfolder]
                        \in Range(template.containers["mounts"].args)
      <4> DEFINE v == VolumeByName(dogu, m.volume)
                 args == template.containers["mounts"].args
      <4>1. HasVolume(dogu, m.volume)
        BY <3>2 DEF AdditionalMountInitContainerFails
      <4>2. v \in Range(dogu.volumes) /\ v.name = m.volume
        BY <2>3, <4>1, VolumeFound, Zenon
      <4>3. PICK i \in DOMAIN spec.mounts : spec.mounts[i] = m
        BY DEF Range
      <4>4. args = CopyArgs(spec, dogu)
        <5> HIDE DEF dogu
        <5> QED BY <3>3 DEF AdditionalMountInitContainer, Container
      <4> HIDE DEF args, dogu
      <4>5. /\ i \in DOMAIN args
            /\ args[i] = [source |-> m.name, target |-> v.path, subfolder |-> m.subfolder]
        BY <4>3, <4>4, CopyArg
      <4> HIDE DEF v
      <4>6. args[i] \in Range(args)
        BY <4>5 DEF Range
      <4> QED BY <4>2, <4>5, <4>6, Zenon DEF args
    <3>5. \A m \in Range(spec.mounts) :
              Volume(<<m.name>>, <<m.type, m.name>>) \in Range(template.volumes)
      <4> HIDE DEF dogu
      <4> QED BY <2>3, <2>4, SourcesCreated, Zenon
    <3> QED BY <3>3, <3>4, <3>5, Zenon DEF Copied
  <2> QED BY <2>3, <2>4, <2>5
<1> QED BY <1>1, SettledInvariance, PTL

-----------------------------------------------------------------------------
(* Where additional mounts are copied to                                      *)

\* An init container was made, without an error, from a spec and a descriptor;
\* the mounts were validated with a descriptor, perhaps another one.
InitMadeFrom(init, s) ==
    \E e \in s.specs, c \in Configs :
        \E v, x \in DOMAIN s.descriptors :
            /\ ~AdditionalMountInitContainerFails(e, s.descriptors[v])
            /\ init = AdditionalMountInitContainer(e, s.descriptors[v], c.image)
            /\ \A m \in Range(e.mounts) : Mountable(s.descriptors[x], m.volume)

\* The init container was made so, and the dogu's container from a descriptor.
MadeFrom(t, s) ==
    /\ DOMAIN t = {"label", "version", "volumes", "containers"}
    /\ "mounts" \in DOMAIN t.containers => InitMadeFrom(t.containers["mounts"], s)
    /\ t # NoTemplate =>
         \E v \in DOMAIN s.descriptors :
             /\ "dogu" \in DOMAIN t.containers
             /\ DoguVolumeMounts(s.descriptors[v], Blank) \subseteq t.containers["dogu"].mounts

\* No template has neither.
LEMMA MadeInit == Init => MadeFrom(template, sc)
BY DEF Init, MadeFrom, NoTemplate

\* A template that GetPodTemplate returns
LEMMA MadeByGenerator ==
    ASSUME PoliciesInv, TypesInv, ValidatedOK, NEW v \in DOMAIN sc.descriptors,
           ~PodTemplateFails(spec, sc.descriptors[v])
    PROVE  MadeFrom(PodTemplate(spec, sc.descriptors[v], config.image), sc)
<1> DEFINE dogu == sc.descriptors[v]
           t == PodTemplate(spec, dogu, config.image)
<1>1. DOMAIN t = {"label", "version", "volumes", "containers"}
  BY DEF PodTemplate
<1>2. ASSUME "mounts" \in DOMAIN t.containers
      PROVE  /\ t.containers["mounts"] = AdditionalMountInitContainer(spec, dogu, config.image)
             /\ ~AdditionalMountInitContainerFails(spec, dogu)
  <2>1. HasLocalConfigVolume(dogu)
    BY <1>2 DEF PodTemplate
  <2> QED BY <1>2, <2>1 DEF PodTemplate, PodTemplateFails
<1>3. /\ "dogu" \in DOMAIN t.containers
      /\ t.containers["dogu"].mounts = VolumeMounts(dogu)
  BY DEF PodTemplate, Container
<1>4. DoguVolumeMounts(dogu, Blank) \subseteq t.containers["dogu"].mounts
  BY <1>3, Zenon DEF VolumeMounts
<1>5. /\ spec \in sc.specs /\ config \in Configs /\ spec.version \in DOMAIN sc.descriptors
      /\ \A m \in Range(spec.mounts) : Mountable(sc.descriptors[spec.version], m.volume)
  BY Scenario, Zenon DEF PoliciesInv, TypesInv, ValidatedOK, ForResource
<1> HIDE DEF t
<1>6. "mounts" \in DOMAIN t.containers => InitMadeFrom(t.containers["mounts"], sc)
  BY <1>2, <1>5, Zenon DEF InitMadeFrom
<1> QED BY <1>1, <1>3, <1>4, <1>6, Zenon DEF MadeFrom, t

\* A template that UpdateAdditionalMounts changes
LEMMA MadeByUpdate ==
    ASSUME PoliciesInv, TypesInv, ValidatedOK, MadeFrom(template, sc),
           template # NoTemplate, registered # 0,
           ~AdditionalMountInitContainerFails(spec, Installed)
    PROVE  MadeFrom(WithAdditionalMounts(template), sc)
<1> DEFINE t == WithAdditionalMounts(template)
           init == AdditionalMountInitContainer(spec, Installed, config.image)
<1>1. DOMAIN template = {"label", "version", "volumes", "containers"}
  BY DEF MadeFrom
<1>2. /\ DOMAIN t = {"label", "version", "volumes", "containers"}
      /\ DOMAIN t.containers = DOMAIN template.containers \cup {"mounts"}
      /\ t.containers["mounts"] = init
      /\ "dogu" \in DOMAIN template.containers =>
             t.containers["dogu"] = template.containers["dogu"]
  BY <1>1 DEF WithAdditionalMounts
<1> HIDE DEF t
<1>3. /\ spec \in sc.specs /\ config \in Configs /\ registered \in DOMAIN sc.descriptors
      /\ Installed = sc.descriptors[registered]
      /\ spec.version \in DOMAIN sc.descriptors
      /\ \A m \in Range(spec.mounts) : Mountable(sc.descriptors[spec.version], m.volume)
  BY Scenario, Zenon DEF PoliciesInv, TypesInv, Installed, ValidatedOK, ForResource
<1>4. InitMadeFrom(t.containers["mounts"], sc)
  BY <1>2, <1>3, Zenon DEF InitMadeFrom
<1>5. \E v \in DOMAIN sc.descriptors :
          /\ "dogu" \in DOMAIN t.containers
          /\ DoguVolumeMounts(sc.descriptors[v], Blank) \subseteq t.containers["dogu"].mounts
  <2>1. PICK v \in DOMAIN sc.descriptors :
            /\ "dogu" \in DOMAIN template.containers
            /\ DoguVolumeMounts(sc.descriptors[v], Blank)
               \subseteq template.containers["dogu"].mounts
    BY DEF MadeFrom
  <2> QED BY <1>2, <2>1, Zenon
<1> QED BY <1>2, <1>4, <1>5, Zenon DEF MadeFrom, t

\* Behind the step that creates the deployment there is one.
CopiesInv ==
    /\ MadeFrom(template, sc)
    /\ pc = "additionalMounts" => template # NoTemplate

\* Each step keeps the invariant.
LEMMA CopiesStep ==
    ASSUME PoliciesInv, TypesInv, SettledInv, CopiesInv, [Next]_vars
    PROVE  CopiesInv'
<1> USE DEF CopiesInv, user, objects, process
<1>a. UNCHANGED number => UNCHANGED sc
  BY DEF sc
<1>w. ASSUME NEW new, NEW next, WriteTemplate(new, next), MadeFrom(new, sc),
             UNCHANGED number
      PROVE  MadeFrom(template', sc')
  BY <1>w, <1>a DEF WriteTemplate
<1>v. pc \in {"deployment", "additionalMounts", "updateVersion", "regenerate"} => ValidatedOK
  BY DEF SettledInv, Steps
<1>f. /\ spec.version \in DOMAIN sc.descriptors
      /\ ForResource = sc.descriptors[spec.version]
  BY Scenario DEF ForResource
<1>1. CASE UNCHANGED vars
  BY <1>1, <1>a DEF vars
<1>2. CASE StartPass
  BY <1>2, <1>a DEF StartPass
<1>3. CASE Validation
  BY <1>3, <1>a DEF Validation
<1>4. CASE RegisterDoguVersion
  BY <1>4, <1>a DEF RegisterDoguVersion
<1>5. CASE Service
  BY <1>5, <1>a DEF Service
<1>6. CASE NetworkPoliciesWritten
  BY <1>6, <1>a DEF NetworkPoliciesWritten
<1>7. CASE NetworkPoliciesFail
  BY <1>7, <1>a DEF NetworkPoliciesFail
<1>8. CASE CreateDeployment
  <2> USE <1>8 DEF CreateDeployment
  <2> DEFINE new == PodTemplate(spec, Installed, config.image)
  <2>1. registered \in DOMAIN sc.descriptors /\ Installed = sc.descriptors[registered]
    BY Zenon DEF PoliciesInv, Steps, Installed
  <2>2. ~PodTemplateFails(spec, Installed) => MadeFrom(new, sc)
    BY <1>v, <2>1, MadeByGenerator
  <2>3. MadeFrom(template', sc')
    <3> HIDE DEF new
    <3>1. CASE UNCHANGED template
      BY <1>a, <3>1
    <3>2. CASE ~PodTemplateFails(spec, Installed) /\ WriteTemplate(new, "additionalMounts")
      BY <1>w, <2>2, <3>2
    <3> QED BY <3>1, <3>2 DEF new
  <2>4. new # NoTemplate
    <3>1. new.label = spec.version /\ spec.version # 0
      BY <1>f, Scenario, ObjectsAssumption DEF PodTemplate
    <3> QED BY <3>1 DEF NoTemplate
  <2>5. pc' = "additionalMounts" => template' # NoTemplate
    <3> HIDE DEF new
    <3>1. CASE template # NoTemplate
      BY <3>1
    <3>2. CASE WriteTemplate(new, "additionalMounts")
      BY <2>4, <3>2, Zenon DEF WriteTemplate
    <3>3. CASE pc' = "error"
      BY <3>3
    <3> QED BY <3>1, <3>2, <3>3 DEF new
  <2> QED BY <2>3, <2>5
<1>9. CASE AdditionalMounts
  <2> USE <1>9 DEF AdditionalMounts
  <2> DEFINE new == WithAdditionalMounts(template)
  <2>1. registered # 0 /\ template # NoTemplate
    BY Zenon DEF PoliciesInv, Steps
  <2>2. ~AdditionalMountInitContainerFails(spec, Installed) => MadeFrom(new, sc)
    BY <1>v, <2>1, MadeByUpdate
  <2>3. MadeFrom(template', sc')
    <3> HIDE DEF new
    <3>1. CASE UNCHANGED template
      BY <1>a, <3>1
    <3>2. CASE /\ ~AdditionalMountInitContainerFails(spec, Installed)
               /\ WriteTemplate(new, "updateVersion")
      BY <1>w, <2>2, <3>2, Zenon
    <3> QED BY <3>1, <3>2 DEF new
  <2>4. pc' # "additionalMounts"
    BY DEF WriteTemplate
  <2> QED BY <2>3, <2>4
<1>10. CASE UpdateDeploymentVersion
  <2> USE <1>10 DEF UpdateDeploymentVersion
  <2> DEFINE new == PodTemplate(spec, ForResource, config.image)
  <2>1. ~PodTemplateFails(spec, ForResource) => MadeFrom(new, sc)
    BY <1>f, <1>v, MadeByGenerator, Zenon
  <2>2. MadeFrom(template', sc')
    <3> HIDE DEF new
    <3>1. CASE UNCHANGED template
      BY <1>a, <3>1, Zenon
    <3>2. CASE ~PodTemplateFails(spec, ForResource) /\ WriteTemplate(new, "requeue")
      BY <1>w, <2>1, <3>2, Zenon
    <3> QED BY <3>1, <3>2, Zenon DEF new
  <2>3. pc' # "additionalMounts"
    BY Zenon DEF WriteTemplate
  <2> QED BY <2>2, <2>3, Zenon
<1>11. CASE UpgradeRegisterDoguVersion
  BY <1>11, <1>a DEF UpgradeRegisterDoguVersion
<1>12. CASE RegenerateDeployment
  <2> USE <1>12 DEF RegenerateDeployment
  <2> DEFINE new == PodTemplate(spec, ForResource, config.image)
  <2>1. ~PodTemplateFails(spec, ForResource) => MadeFrom(new, sc)
    BY <1>f, <1>v, MadeByGenerator, Zenon
  <2>2. MadeFrom(template', sc')
    <3> HIDE DEF new
    <3>1. CASE UNCHANGED template
      BY <1>a, <3>1
    <3>2. CASE ~PodTemplateFails(spec, ForResource) /\ WriteTemplate(new, "applied")
      BY <1>w, <2>1, <3>2, Zenon
    <3> QED BY <3>1, <3>2 DEF new
  <2>3. pc' # "additionalMounts"
    BY DEF WriteTemplate
  <2> QED BY <2>2, <2>3
<1>13. CASE FinishPass
  BY <1>13, <1>a DEF FinishPass
<1>14. CASE StepFails
  BY <1>14, <1>a DEF StepFails
<1>15. CASE Restart
  BY <1>15, <1>a DEF Restart
<1>16. CASE EditSpec
  BY <1>16, <1>a DEF EditSpec
<1>17. CASE EditSource
  BY <1>17, <1>a DEF EditSource
<1>18. CASE OtherEvent
  BY <1>18, <1>a DEF OtherEvent
<1> QED
  BY <1>1, <1>2, <1>3, <1>4, <1>5, <1>6, <1>7, <1>8, <1>9, <1>10, <1>11, <1>12,
     <1>13, <1>14, <1>15, <1>16, <1>17, <1>18 DEF Next, Pass

\* A volume that a spec may mount into is in all versions, and their containers
\* mount it in the same way.
KeepsVolumes(s) ==
    \A e \in s.specs : \A m \in Range(e.mounts) : \A v, w \in DOMAIN s.descriptors :
        LET dogu == s.descriptors[v]
            other == s.descriptors[w]
        IN  Mountable(dogu, m.volume) =>
              /\ HasVolume(other, m.volume)
              /\ DoguVolumeMount(VolumeByName(other, m.volume), Blank)
                 = DoguVolumeMount(VolumeByName(dogu, m.volume), Blank)

\* What the init container of any deployed template copies comes from where it
\* mounts the source and goes to where the dogu's container mounts the same
\* volume, in all states between the steps of any pass, as long as upgrades keep
\* the volumes that are mounted into.  Otherwise one that stops between
\* UpdateDeploymentVersionStep and RegisterDoguVersionStep may leave a template
\* of the new version whose init container UpdateAdditionalMounts then makes from
\* the installed one.
THEOREM CopiesAreVisible ==
    ASSUME \A i \in DOMAIN Scenarios : KeepsVolumes(Scenarios[i])
    PROVE  Spec => []CopiesVisible
<1>1. PoliciesInv /\ CopiesInv => CopiesVisible
  <2> SUFFICES ASSUME PoliciesInv, CopiesInv, ~NoAdditionalMounts(template)
               PROVE  CopiesVisible
    BY Zenon DEF CopiesVisible
  <2> DEFINE c == template.containers
             d == sc.descriptors
  <2>1. "mounts" \in DOMAIN c
    BY DEF NoAdditionalMounts
  <2>2. template # NoTemplate
    BY <2>1 DEF NoTemplate
  <2>3. InitMadeFrom(c["mounts"], sc)
    BY <2>1 DEF CopiesInv, MadeFrom
  <2>4. PICK e \in sc.specs, conf \in Configs :
            \E v, x \in DOMAIN d :
                /\ ~AdditionalMountInitContainerFails(e, d[v])
                /\ c["mounts"] = AdditionalMountInitContainer(e, d[v], conf.image)
                /\ \A m \in Range(e.mounts) : Mountable(d[x], m.volume)
    BY <2>3, Zenon DEF InitMadeFrom
  <2>5. PICK v \in DOMAIN d, x \in DOMAIN d :
            /\ ~AdditionalMountInitContainerFails(e, d[v])
            /\ c["mounts"] = AdditionalMountInitContainer(e, d[v], conf.image)
            /\ \A m \in Range(e.mounts) : Mountable(d[x], m.volume)
    BY <2>4, Zenon
  <2>6. PICK w \in DOMAIN d : DoguVolumeMounts(d[w], Blank) \subseteq c["dogu"].mounts
    BY <2>2, Zenon DEF CopiesInv, MadeFrom
  <2>7. IsSequence(d[v].volumes) /\ IsSequence(d[w].volumes)
    BY Scenario, Zenon DEF ProperDescriptor
  <2>8. KeepsVolumes(sc)
    BY DEF PoliciesInv, sc
  <2> DEFINE dogu == d[v]
             other == d[w]
             image == conf.image
  <2>9. ASSUME NEW m \in Range(e.mounts)
        PROVE  /\ HasVolume(dogu, m.volume)
               /\ DoguVolumeMount(VolumeByName(dogu, m.volume), Blank) \in c["dogu"].mounts
    <3>1. Mountable(d[x], m.volume)
      BY <2>5, Zenon
    <3>2. /\ HasVolume(other, m.volume)
          /\ DoguVolumeMount(VolumeByName(other, m.volume), Blank)
             = DoguVolumeMount(VolumeByName(d[x], m.volume), Blank)
      BY <2>8, <3>1, Zenon DEF KeepsVolumes
    <3>3. /\ HasVolume(dogu, m.volume)
          /\ DoguVolumeMount(VolumeByName(dogu, m.volume), Blank)
             = DoguVolumeMount(VolumeByName(d[x], m.volume), Blank)
      BY <2>8, <3>1, Zenon DEF KeepsVolumes
    <3>4. VolumeByName(other, m.volume) \in Range(other.volumes)
      <4> HIDE DEF d, other
      <4> QED BY <2>7, <3>2, VolumeFound, Zenon DEF other
    <3>5. DoguVolumeMount(VolumeByName(other, m.volume), Blank) \in c["dogu"].mounts
      BY <2>6, <3>4, Zenon DEF DoguVolumeMounts
    <3> QED BY <3>2, <3>3, <3>5, Zenon
  <2>10. /\ c["mounts"] = AdditionalMountInitContainer(e, dogu, image)
         /\ IsSequence(dogu.volumes)
    BY <2>5, <2>7, Zenon
  <2> DEFINE others == c["dogu"].mounts
  <2> HIDE DEF c, d, dogu, image
  <2>11. ASSUME NEW a \in Range(c["mounts"].args)
         PROVE  CopyMounted(a, c["mounts"].mounts, others)
    <3>1. a \in Range(AdditionalMountInitContainer(e, dogu, image).args)
      BY <2>10
    <3>2. \A m \in Range(e.mounts) :
              /\ HasVolume(dogu, m.volume)
              /\ DoguVolumeMount(VolumeByName(dogu, m.volume), Blank) \in others
      BY <2>9
    <3> HIDE DEF others
    <3>3. CopyMounted(a, AdditionalMountInitContainer(e, dogu, image).mounts, others)
      BY <2>10, <3>1, <3>2, CopiesMounted, Zenon
    <3> QED BY <2>10, <3>3, Zenon
  <2> QED BY <2>11, Zenon DEF CopiesVisible, CopyMounted, c
<1>2. Init => CopiesInv
  BY MadeInit DEF Init, CopiesInv
<1> QED BY <1>1, <1>2, PoliciesInit, PoliciesStep, TypesInit, TypesStep, SettledInit,
        SettledStep, CopiesStep, PTL DEF Spec

\* When the dogu is settled, this holds without the assumption: the whole
\* template is of one version then, whatever happened before
\* (RegenerateDeploymentStep).
THEOREM SettledCopiesAreVisible == Spec => [](Settled => CopiesVisible)
<1>1. PoliciesInv /\ SettledInv => (Settled => CopiesVisible)
  <2> SUFFICES ASSUME PoliciesInv, SettledInv, Settled, ~NoAdditionalMounts(template)
               PROVE  CopiesVisible
    BY Zenon DEF CopiesVisible
  <2> DEFINE c == template.containers
             dogu == ForResource
  <2>1. TemplateOK
    BY DEF SettledInv
  <2>2. PICK conf \in Configs : template = PodTemplate(spec, dogu, conf.image)
    BY <2>1 DEF TemplateOK
  <2>3. "mounts" \in DOMAIN c
    BY DEF NoAdditionalMounts
  <2>4. HasLocalConfigVolume(dogu)
    BY <2>2, <2>3 DEF PodTemplate
  <2>5. ~AdditionalMountInitContainerFails(spec, dogu)
    BY <2>1, <2>4 DEF TemplateOK, PodTemplateFails
  <2> DEFINE image == conf.image
             init == AdditionalMountInitContainer(spec, dogu, image)
  <2>6. c["mounts"] = init /\ c["dogu"].mounts = VolumeMounts(dogu)
    BY <2>2, <2>4 DEF PodTemplate, Container
  <2>7. IsSequence(dogu.volumes)
    BY Scenario, Zenon DEF ForResource, ProperDescriptor
  <2> HIDE DEF c, dogu, image
  <2>8. ASSUME NEW a \in Range(c["mounts"].args)
        PROVE  CopyMounted(a, c["mounts"].mounts, c["dogu"].mounts)
    <3>1. a \in Range(AdditionalMountInitContainer(spec, dogu, image).args)
      BY <2>6
    <3>2. \A m \in Range(spec.mounts) :
              /\ HasVolume(dogu, m.volume)
              /\ DoguVolumeMount(VolumeByName(dogu, m.volume), Blank) \in c["dogu"].mounts
      <4> SUFFICES ASSUME NEW m \in Range(spec.mounts)
                   PROVE  /\ HasVolume(dogu, m.volume)
                          /\ DoguVolumeMount(VolumeByName(dogu, m.volume), Blank)
                             \in c["dogu"].mounts
        BY Zenon
      <4>1. HasVolume(dogu, m.volume)
        BY <2>5, Zenon DEF AdditionalMountInitContainerFails
      <4>2. VolumeByName(dogu, m.volume) \in Range(dogu.volumes)
        BY <2>7, <4>1, VolumeFound, Zenon
      <4> QED BY <2>6, <4>1, <4>2, Zenon DEF VolumeMounts, DoguVolumeMounts
    <3> DEFINE others == c["dogu"].mounts
    <3> HIDE DEF others
    <3>3. CopyMounted(a, AdditionalMountInitContainer(spec, dogu, image).mounts, others)
      BY <2>7, <3>1, <3>2, CopiesMounted, Zenon DEF others
    <3> QED BY <2>6, <3>3 DEF others
  <2> QED BY <2>8, Zenon DEF CopiesVisible, CopyMounted, c
<1> QED BY <1>1, SettledInvariance, PTL
=============================================================================
