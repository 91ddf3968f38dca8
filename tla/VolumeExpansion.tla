--------------------------- MODULE VolumeExpansion ---------------------------
(* The data volume of one dogu: its claim, its expansion by                   *)
(* VolumeExpanderStep, and StartStopStep, which stops the dogu for it.  The   *)
(* user changes minDataVolumeSize and stopped at any moment, the storage      *)
(* controller follows the claim in its own time.                              *)
EXTENDS Naturals

CONSTANTS
    MaxSize,    \* sizes are 1..MaxSize
    Online,     \* the storage expands a volume that is in use
    RoundsUp,   \* the storage may provide more than a claim asks for
    Stops,      \* the user may stop and start the dogu
    MaxEdits,   \* bound on the number of edits
    MaxFaults   \* bound on the number of failed calls and crashes

ASSUME VolumeAssumption ==
    /\ MaxSize \in Nat \ {0}
    /\ {Online, RoundsUp, Stops} \subseteq BOOLEAN
    /\ MaxEdits \in Nat /\ MaxFaults \in Nat

VARIABLES
    spec,      \* the spec of the dogu resource: min and stopped
    res,       \* the spec in the pass's copy of the resource
    pc,        \* the step a pass is at, or "idle"
    quantity,  \* the size VolumeExpanderStep has read from the copy
    queued,    \* the dogu is in the work queue
    request,   \* the size the claim asks for, 0 if there is no claim
    capacity,  \* the size in the status of the claim, 0 if it is not bound
    deployed,  \* the deployment exists
    replicas,  \* the replicas of the deployment
    pod,       \* the dogu's pod is running
    meetsMin,  \* the condition MeetsMinVolumeSize is True
    dataSize,  \* status.dataVolumeSize, 0 if unset
    edits,     \* number of edits so far
    faults     \* number of faults so far

vars == <<spec, res, pc, quantity, queued, request, capacity, deployed,
          replicas, pod, meetsMin, dataSize, edits, faults>>

Sizes == 1..MaxSize
Specs == [min : Sizes, stopped : BOOLEAN]

claim == <<request, capacity>>
deployment == <<deployed, replicas>>
status == <<meetsMin, dataSize>>

Init ==
    /\ spec \in {s \in Specs : ~s.stopped}
    /\ res = spec
    /\ pc = "idle" /\ quantity = spec.min /\ queued = TRUE
    /\ request = 0 /\ capacity = 0
    /\ deployed = FALSE /\ replicas = 0 /\ pod = FALSE
    /\ meetsMin = FALSE /\ dataSize = 0
    /\ edits = 0 /\ faults = 0

\* Mutated: a dogu that is started gets two replicas.
OneReplicaTooMany(stopped) == IF stopped THEN 0 ELSE 2

ReplicasFor(stopped) == IF stopped THEN 0 ELSE 1

Fault ==
    /\ faults < MaxFaults
    /\ faults' = faults + 1
-----------------------------------------------------------------------------
(* A pass.                                                                    *)

StartPass ==
    /\ pc = "idle" /\ queued
    /\ queued' = FALSE
    /\ res' = spec
    /\ pc' = "createVolume"
    /\ UNCHANGED <<spec, quantity, claim, deployment, pod, status, edits, faults>>

\* CreateVolumeStep: an existing claim is kept.
CreateVolume ==
    /\ pc = "createVolume"
    /\ pc' = "createDeployment"
    /\ request' = IF request = 0 THEN res.min ELSE request
    /\ queued' = (queued \/ request = 0)
    /\ UNCHANGED <<spec, res, quantity, capacity, deployment, pod, status, edits,
                   faults>>

\* CreateDeploymentStep: an existing deployment is kept.
CreateDeployment ==
    /\ pc = "createDeployment"
    /\ pc' = "startStop"
    /\ deployed' = TRUE
    /\ replicas' = IF deployed THEN replicas ELSE ReplicasFor(res.stopped)
    /\ queued' = (queued \/ ~deployed)
    /\ UNCHANGED <<spec, res, quantity, claim, pod, status, edits, faults>>

\* Mutated: the dogu is not stopped for an expansion.
StoppedByUserOnly(r) == r.stopped

\* Whether the claim still has to be raised; its capacity is not looked at.
ShouldBeStopped(r) == r.stopped \/ request < r.min

\* StartStopStep: scales the deployment and ends the pass, or goes on unless
\* the user has stopped the dogu.
StartStop ==
    /\ pc = "startStop"
    /\ IF replicas = ReplicasFor(ShouldBeStopped(res))
       THEN /\ pc' = IF res.stopped THEN "idle" ELSE "volumeExpander"
            /\ UNCHANGED <<res, replicas, queued>>
       ELSE /\ replicas' = ReplicasFor(ShouldBeStopped(res))
            /\ res' = spec
            /\ queued' = TRUE
            /\ pc' = "idle"
    /\ UNCHANGED <<spec, quantity, claim, deployed, pod, status, edits, faults>>

\* Mutated: the claim is compared instead of the volume.
ClaimResized(q) == request >= q

\* VolumeExpanderStep.isPvcStorageResized
IsPvcStorageResized(q) == capacity >= q

\* VolumeExpanderStep up to SetCurrentDataVolumeSize.  Its comparison of the
\* encoded sizes of the claim's spec and of the quantity is never true: the
\* spec contains a quantity.
VolumeExpander ==
    /\ pc = "volumeExpander"
    /\ quantity' = res.min
    /\ IF IsPvcStorageResized(res.min)
       THEN meetsMin' = TRUE /\ res' = spec /\ pc' = "regenerate"
       ELSE pc' = "setSize" /\ UNCHANGED <<meetsMin, res>>
    /\ UNCHANGED <<spec, queued, claim, deployment, pod, dataSize, edits, faults>>

\* SetCurrentDataVolumeSize: a claim below the size of its volume is raised to
\* it.  An error is dropped by VolumeExpanderStep.
RaiseToCapacity ==
    /\ pc = "setSize"
    /\ \/ /\ request' = IF request < capacity THEN capacity ELSE request
          /\ queued' = (queued \/ request' # request)
          /\ pc' = "writeSize"
          /\ UNCHANGED faults
       \/ Fault /\ pc' = "updateClaim" /\ UNCHANGED <<request, queued>>
    /\ UNCHANGED <<spec, res, quantity, capacity, deployment, pod, status, edits>>

\* SetCurrentDataVolumeSize: then the status is written.  The condition is set
\* in the copy only and is lost if the write has to be repeated.
SetCurrentDataVolumeSize ==
    /\ pc = "writeSize"
    /\ pc' = "updateClaim"
    /\ \/ /\ dataSize' = capacity
          /\ meetsMin' \in {FALSE, meetsMin}
          /\ res' = spec
          /\ UNCHANGED faults
       \/ Fault /\ UNCHANGED <<dataSize, meetsMin, res>>
    /\ UNCHANGED <<spec, quantity, queued, claim, deployment, pod, edits>>

\* Mutated: the pass is not repeated until the volume has been expanded.
ExpansionNotAwaited ==
    /\ pc = "updateClaim"
    /\ request' = IF quantity > request THEN quantity ELSE request
    /\ queued' = (queued \/ request' # request)
    /\ pc' = "idle"
    /\ UNCHANGED <<spec, res, quantity, capacity, deployment, pod, status, edits,
                   faults>>

\* Mutated: the new request is not sent.
ClaimNotRaised ==
    /\ pc = "updateClaim"
    /\ queued' = TRUE
    /\ pc' = "idle"
    /\ UNCHANGED <<spec, res, quantity, claim, deployment, pod, status, edits,
                   faults>>

\* The claim asks for the quantity read before.  A smaller claim is refused.
UpdateClaim ==
    /\ pc = "updateClaim"
    /\ request' = IF quantity > request THEN quantity ELSE request
    /\ queued' = TRUE
    /\ pc' = "idle"
    /\ UNCHANGED <<spec, res, quantity, capacity, deployment, pod, status, edits,
                   faults>>

\* RegenerateDeploymentStep: the replicas follow the copy.
RegenerateDeployment ==
    /\ pc = "regenerate"
    /\ replicas' = ReplicasFor(res.stopped)
    /\ queued' = (queued \/ replicas' # replicas)
    /\ pc' = "idle"
    /\ UNCHANGED <<spec, res, quantity, claim, deployed, pod, status, edits,
                   faults>>

\* A step fails, or the operator is killed: the dogu is queued again.
PassFails ==
    /\ pc # "idle"
    /\ Fault
    /\ pc' = "idle"
    /\ queued' = TRUE
    /\ UNCHANGED <<spec, res, quantity, claim, deployment, pod, status, edits>>

\* StartStopStep has scaled the deployment and fails to write the status.
ScaledOnly ==
    /\ pc = "startStop"
    /\ Fault
    /\ replicas' = ReplicasFor(ShouldBeStopped(res))
    /\ pc' = "idle"
    /\ queued' = TRUE
    /\ UNCHANGED <<spec, res, quantity, claim, deployed, pod, status, edits>>
-----------------------------------------------------------------------------
(* The environment.                                                           *)

\* The storage provides a volume of the size asked for, or more (then the size
\* of the volume exceeds its claim, as SetCurrentDataVolumeSize expects).
Bind ==
    /\ request # 0 /\ capacity = 0
    /\ capacity' \in IF RoundsUp THEN request..MaxSize ELSE {request}
    /\ queued' = TRUE
    /\ UNCHANGED <<spec, res, pc, quantity, request, deployment, pod, status,
                   edits, faults>>

Expand ==
    /\ capacity # 0 /\ capacity < request
    /\ Online \/ ~pod
    /\ capacity' = request
    /\ queued' = TRUE
    /\ UNCHANGED <<spec, res, pc, quantity, request, deployment, pod, status,
                   edits, faults>>

\* The pod follows the replicas; it needs the volume.
PodUp ==
    /\ replicas = 1 /\ ~pod /\ capacity # 0
    /\ pod' = TRUE
    /\ queued' = TRUE
    /\ UNCHANGED <<spec, res, pc, quantity, claim, deployment, status, edits,
                   faults>>

PodDown ==
    /\ replicas = 0 /\ pod
    /\ pod' = FALSE
    /\ queued' = TRUE
    /\ UNCHANGED <<spec, res, pc, quantity, claim, deployment, status, edits,
                   faults>>

EditSpec ==
    /\ edits < MaxEdits
    /\ edits' = edits + 1
    /\ spec' \in Specs \ {spec}
    /\ Stops \/ ~spec'.stopped
    /\ queued' = TRUE
    /\ UNCHANGED <<res, pc, quantity, claim, deployment, pod, status, faults>>

Pass ==
    \/ StartPass \/ CreateVolume \/ CreateDeployment \/ StartStop
    \/ VolumeExpander \/ RaiseToCapacity \/ SetCurrentDataVolumeSize
    \/ UpdateClaim \/ RegenerateDeployment

Next ==
    \/ Pass \/ PassFails \/ ScaledOnly
    \/ Bind \/ Expand \/ PodUp \/ PodDown \/ EditSpec

Spec == Init /\ [][Next]_vars

\* The operator works off its queue, the cluster follows its objects.
Fairness ==
    /\ WF_vars(Pass) /\ WF_vars(Bind) /\ WF_vars(Expand)
    /\ WF_vars(PodUp) /\ WF_vars(PodDown)

FairSpec == Spec /\ Fairness
-----------------------------------------------------------------------------
(* Properties                                                                 *)

\* The state has its shape.
TypeOK ==
    /\ spec \in Specs /\ res \in Specs
    /\ pc \in {"idle", "createVolume", "createDeployment", "startStop",
               "volumeExpander", "setSize", "writeSize", "updateClaim",
               "regenerate"}
    /\ quantity \in Sizes
    /\ request \in 0..MaxSize /\ capacity \in 0..MaxSize
    /\ replicas \in {0, 1}
    /\ dataSize \in 0..MaxSize
    /\ queued \in BOOLEAN /\ deployed \in BOOLEAN /\ pod \in BOOLEAN
    /\ meetsMin \in BOOLEAN
    /\ edits \in 0..MaxEdits /\ faults \in 0..MaxFaults

Settled == pc = "idle" /\ ~queued

\* When the operator has nothing left to do, the dogu runs or is stopped as the
\* user asked, and one that runs has its minimal volume size and says so,
\* although the expansion stops the dogu on its own and the spec is re-read in
\* the middle of it.
SettledAsAsked ==
    Settled => /\ replicas = ReplicasFor(spec.stopped)
               /\ ~spec.stopped => capacity >= spec.min /\ meetsMin

\* SettledAsAsked made inductive: a pass that nothing has disturbed works on the
\* current spec, and has checked what lies behind it.
VolumeInv ==
    /\ TypeOK
    /\ pc # "idle" /\ ~queued => res = spec
    /\ pc \in {"volumeExpander", "setSize", "writeSize", "updateClaim", "regenerate"}
           => queued \/ ~spec.stopped
    /\ pc = "regenerate" /\ ~queued => capacity >= spec.min /\ meetsMin
    /\ SettledAsAsked

\* A claim is raised while no replica is asked for, if it had been bound: the
\* deployment is scaled to 0 before (VolumeExpanderStep).
RaisedWhileStopped ==
    [][capacity # 0 /\ request' > request /\ request' > capacity
            => replicas = 0]_vars

\* A dogu that is not stopped for good comes to run with the size asked for.
ExpansionCompletes ==
    <>[](~spec.stopped) => <>[](pod /\ capacity >= spec.min)
=============================================================================
