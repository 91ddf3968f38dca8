------------------------ MODULE VolumeExpansionProofs ------------------------
(* The settled states of VolumeExpansion, for every range of sizes, every     *)
(* kind of storage and any number of edits and faults.                        *)
EXTENDS VolumeExpansion, TLAPS

\* A step of the operator, the storage, the cluster or the user keeps the shape
\* of the state.
LEMMA VolumeTypeStep == TypeOK /\ [Next]_vars => TypeOK'
<1> SUFFICES ASSUME TypeOK, [Next]_vars PROVE TypeOK'
  OBVIOUS
<1> USE VolumeAssumption DEF TypeOK, Specs, Sizes, ReplicasFor, Fault
<1>1. CASE StartPass
  BY <1>1, Zenon DEF StartPass, claim, deployment, status
<1>2. CASE CreateVolume
  BY <1>2 DEF CreateVolume, deployment, status
<1>3. CASE CreateDeployment
  BY <1>3 DEF CreateDeployment, claim, status
<1>4. CASE StartStop
  BY <1>4, Zenon DEF StartStop, ShouldBeStopped, claim, status
<1>5. CASE VolumeExpander
  BY <1>5, Zenon DEF VolumeExpander, claim, deployment
<1>6. CASE SetCurrentDataVolumeSize
  <2>1. meetsMin' \in BOOLEAN
    BY <1>6, Zenon DEF SetCurrentDataVolumeSize
  <2>2. /\ dataSize' \in 0..MaxSize /\ res' \in Specs
        /\ faults' \in 0..MaxFaults
    <3>1. \/ dataSize' = capacity /\ res' = spec /\ faults' = faults
          \/ /\ faults < MaxFaults /\ faults' = faults + 1
             /\ UNCHANGED <<dataSize, res>>
      BY <1>6, Zenon DEF SetCurrentDataVolumeSize
    <3>2. QED
      BY <3>1
  <2>3. /\ UNCHANGED <<spec, quantity, queued, request, capacity, deployed,
                       replicas, pod, edits>>
        /\ pc' = "updateClaim"
    BY <1>6 DEF SetCurrentDataVolumeSize, claim, deployment
  <2>4. QED
    BY <2>1, <2>2, <2>3, Zenon
<1>p. CASE RaiseToCapacity
  <2>1. queued' \in BOOLEAN /\ pc' \in {"writeSize", "updateClaim"}
    BY <1>p, Zenon DEF RaiseToCapacity
  <2>2. request' \in 0..MaxSize /\ faults' \in 0..MaxFaults
    <3>1. /\ request' = request \/ request' = capacity
          /\ faults' = faults \/ (faults < MaxFaults /\ faults' = faults + 1)
      BY <1>p, Zenon DEF RaiseToCapacity
    <3>2. QED
      BY <3>1
  <2>3. UNCHANGED <<spec, res, quantity, capacity, deployed, replicas, pod,
                    meetsMin, dataSize, edits>>
    BY <1>p DEF RaiseToCapacity, deployment, status
  <2>4. QED
    BY <2>1, <2>2, <2>3, Zenon
<1>7. CASE UpdateClaim
  BY <1>7 DEF UpdateClaim, deployment, status
<1>8. CASE RegenerateDeployment
  BY <1>8 DEF RegenerateDeployment, claim, status
<1>9. CASE PassFails
  BY <1>9 DEF PassFails, claim, deployment, status
<1>10. CASE ScaledOnly
  BY <1>10 DEF ScaledOnly, ShouldBeStopped, claim, status
<1>11. CASE Bind
  BY <1>11 DEF Bind, deployment, status
<1>12. CASE Expand
  BY <1>12 DEF Expand, deployment, status
<1>13. CASE PodUp \/ PodDown
  BY <1>13, Zenon DEF PodUp, PodDown, claim, deployment, status
<1>14. CASE EditSpec
  BY <1>14 DEF EditSpec, claim, deployment, status
<1>15. CASE UNCHANGED vars
  BY <1>15 DEF vars
<1>16. QED
  BY <1>1, <1>2, <1>3, <1>4, <1>5, <1>6, <1>7, <1>8, <1>9, <1>10, <1>11,
     <1>12, <1>13, <1>14, <1>15, <1>p DEF Next, Pass

\* The first pass over a new dogu starts with VolumeInv.
LEMMA VolumeInit == Init => VolumeInv
<1> SUFFICES ASSUME Init PROVE VolumeInv
  OBVIOUS
<1>1. TypeOK
  <2>1. spec \in Specs /\ res \in Specs /\ quantity \in Sizes
    BY DEF Init, Specs
  <2>2. /\ queued \in BOOLEAN /\ deployed \in BOOLEAN /\ pod \in BOOLEAN
        /\ meetsMin \in BOOLEAN
    BY Zenon DEF Init
  <2>3. /\ request \in 0..MaxSize /\ capacity \in 0..MaxSize
        /\ replicas \in {0, 1} /\ dataSize \in 0..MaxSize
        /\ edits \in 0..MaxEdits /\ faults \in 0..MaxFaults
    BY VolumeAssumption DEF Init
  <2>4. QED
    BY <2>1, <2>2, <2>3, Zenon DEF TypeOK, Init
<1>2. QED
  BY <1>1 DEF Init, VolumeInv, SettledAsAsked, Settled

\* VolumeInv holds in every state: it is inductive.
THEOREM VolumeInvariance == Spec => []VolumeInv
<1>1. Init => VolumeInv
  BY VolumeInit
<1>2. VolumeInv /\ [Next]_vars => VolumeInv'
  <2> SUFFICES ASSUME VolumeInv, [Next]_vars PROVE VolumeInv'
    OBVIOUS
  <2>1. TypeOK /\ TypeOK'
    BY VolumeTypeStep DEF VolumeInv
  <2> USE <2>1 DEF VolumeInv, SettledAsAsked, Settled, ReplicasFor
  <2>2. CASE StartPass
    BY <2>2 DEF StartPass, claim, deployment, status
  <2>3. CASE CreateVolume
    BY <2>3, Zenon DEF CreateVolume, deployment, status
  <2>4. CASE CreateDeployment
    BY <2>4, Zenon DEF CreateDeployment, claim, status
  <2>5. CASE StartStop
    BY <2>5 DEF StartStop, ShouldBeStopped, claim, status
  <2>6. CASE VolumeExpander
    BY <2>6 DEF VolumeExpander, IsPvcStorageResized, claim, deployment
  <2>7. CASE SetCurrentDataVolumeSize
    BY <2>7, Zenon DEF SetCurrentDataVolumeSize, claim, deployment
  <2>p. CASE RaiseToCapacity
    BY <2>p, Zenon DEF RaiseToCapacity, deployment, status
  <2>8. CASE UpdateClaim
    BY <2>8 DEF UpdateClaim, deployment, status
  <2>9. CASE RegenerateDeployment
    BY <2>9, Zenon DEF RegenerateDeployment, claim, status
  <2>10. CASE PassFails \/ ScaledOnly
    BY <2>10 DEF PassFails, ScaledOnly, claim, deployment, status
  <2>11. CASE Bind \/ Expand \/ PodUp \/ PodDown \/ EditSpec
    BY <2>11 DEF Bind, Expand, PodUp, PodDown, EditSpec, claim, deployment,
       status
  <2>12. CASE UNCHANGED vars
    BY <2>12 DEF vars
  <2>13. QED
    BY <2>2, <2>3, <2>4, <2>5, <2>6, <2>7, <2>p, <2>8, <2>9, <2>10, <2>11, <2>12
    DEF Next, Pass
<1>3. QED
  BY <1>1, <1>2, PTL DEF Spec

\* Sizes, replicas and the step of a pass keep their types, the size of the
\* claim included: it is one that was asked for or that the claim had.
THEOREM VolumeTypes == Spec => []TypeOK
<1>1. VolumeInv => TypeOK
  BY DEF VolumeInv
<1>2. QED
  BY VolumeInvariance, <1>1, PTL

\* When the operator has nothing left to do, the dogu runs or is stopped as the
\* user asked, and a running one has its minimal volume size.
THEOREM SettlesAsAsked == Spec => []SettledAsAsked
<1>1. VolumeInv => SettledAsAsked
  BY DEF VolumeInv
<1>2. QED
  BY VolumeInvariance, <1>1, PTL

\* RaisedWhileStopped made inductive: behind StartStopStep a claim that is still
\* below the quantity the pass goes by belongs to a deployment scaled to 0.
RaiseInv ==
    /\ TypeOK
    /\ request = 0 => capacity = 0
    /\ pc = "volumeExpander" => res.min <= request \/ replicas = 0
    /\ pc \in {"setSize", "writeSize", "updateClaim"} =>
           quantity <= request \/ replicas = 0

\* Steps of the operator, the storage, the cluster and the user keep RaiseInv.
LEMMA RaiseInvStep == RaiseInv /\ [Next]_vars => RaiseInv'
<1> SUFFICES ASSUME RaiseInv, [Next]_vars PROVE RaiseInv'
  OBVIOUS
<1>1. TypeOK /\ TypeOK'
  BY VolumeTypeStep DEF RaiseInv
<1> USE <1>1, VolumeAssumption DEF RaiseInv, TypeOK, Specs, Sizes
<1>2. CASE StartPass
  BY <1>2 DEF StartPass, claim, deployment, status
<1>3. CASE CreateVolume
  BY <1>3 DEF CreateVolume, deployment, status
<1>4. CASE CreateDeployment
  BY <1>4 DEF CreateDeployment, claim, status
<1>5. CASE StartStop
  BY <1>5 DEF StartStop, ShouldBeStopped, ReplicasFor, claim, status
<1>6. CASE VolumeExpander
  BY <1>6 DEF VolumeExpander, claim, deployment
<1>7. CASE SetCurrentDataVolumeSize
  <2>1. /\ UNCHANGED <<quantity, request, capacity, replicas>>
        /\ pc = "writeSize" /\ pc' = "updateClaim"
    BY <1>7, Zenon DEF SetCurrentDataVolumeSize, claim, deployment
  <2>2. QED
    BY <2>1
<1>p. CASE RaiseToCapacity
  <2>1. /\ request' = request \/ (request < capacity /\ request' = capacity)
        /\ UNCHANGED <<quantity, capacity, replicas>>
        /\ pc = "setSize" /\ pc' \in {"writeSize", "updateClaim"}
    BY <1>p, Zenon DEF RaiseToCapacity, deployment
  <2>2. QED
    BY <2>1
<1>8. CASE UpdateClaim
  BY <1>8 DEF UpdateClaim, deployment, status
<1>9. CASE RegenerateDeployment
  BY <1>9 DEF RegenerateDeployment, claim, status
<1>10. CASE PassFails \/ ScaledOnly
  BY <1>10 DEF PassFails, ScaledOnly, claim, deployment, status
<1>11. CASE Bind \/ Expand \/ PodUp \/ PodDown \/ EditSpec
  BY <1>11 DEF Bind, Expand, PodUp, PodDown, EditSpec, claim, deployment, status
<1>12. CASE UNCHANGED vars
  BY <1>12 DEF vars
<1>13. QED
  BY <1>2, <1>3, <1>4, <1>5, <1>6, <1>7, <1>p, <1>8, <1>9, <1>10, <1>11, <1>12
  DEF Next, Pass

\* A claim that has its volume is raised only while no replica is asked for,
\* whatever is edited or fails during the pass that stops the dogu.
THEOREM RaisesWhileStopped == Spec => RaisedWhileStopped
<1>1. Init => RaiseInv
  <2>1. Init => VolumeInv
    BY VolumeInit
  <2>2. QED
    BY <2>1 DEF VolumeInv, RaiseInv, Init
<1>2. RaiseInv /\ [Next]_vars =>
        [capacity # 0 /\ request' > request /\ request' > capacity
            => replicas = 0]_vars
  <2> SUFFICES ASSUME RaiseInv, Next,
                      capacity # 0, request' > request, request' > capacity
               PROVE  replicas = 0
    BY DEF vars
  <2> USE VolumeAssumption DEF RaiseInv, TypeOK, Specs, Sizes
  <2>1. CASE CreateVolume
    BY <2>1 DEF CreateVolume
  <2>2. CASE RaiseToCapacity
    <3>1. request' = request \/ request' = capacity
      BY <2>2, Zenon DEF RaiseToCapacity
    <3>2. QED
      BY <3>1
  <2>3. CASE UpdateClaim
    BY <2>3 DEF UpdateClaim
  <2>4. CASE /\ ~CreateVolume /\ ~RaiseToCapacity /\ ~UpdateClaim
    <3>1. request' = request
      BY <2>4 DEF Next, Pass, StartPass, CreateDeployment, StartStop,
         VolumeExpander, SetCurrentDataVolumeSize, RegenerateDeployment,
         PassFails, ScaledOnly, Bind, Expand, PodUp, PodDown, EditSpec, claim
    <3>2. QED
      BY <3>1
  <2>5. QED
    BY <2>1, <2>2, <2>3, <2>4
<1>3. QED
  BY <1>1, <1>2, RaiseInvStep, PTL DEF Spec, RaisedWhileStopped
=============================================================================
