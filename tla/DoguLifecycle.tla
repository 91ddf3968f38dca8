---------------------------- MODULE DoguLifecycle ----------------------------
(* What the reconciliation of a dogu promises about its versions, whatever    *)
(* the order of passes, edits, failures and crashes.  The version is kept in  *)
(* three places: the deployment (label of the pod template), the local        *)
(* registry and the status of the dogu resource.  They are moved one after    *)
(* the other, and none of the later two ever runs ahead: a version is         *)
(* registered anew only if it is the deployed one, and it is shown as         *)
(* installed only if it is deployed and registered.                           *)
CONSTANT Versions

VARIABLES
    deployed,    \* the version of the deployment, 0 if there is none
    registered,  \* the version enabled in the local registry, 0 if none
    installed    \* the version in the status, 0 if none

vars == <<deployed, registered, installed>>

Init == deployed = 0 /\ registered = 0 /\ installed = 0

\* The first registration precedes the deployment.
RegisterNew ==
    /\ deployed = 0 /\ registered = 0
    /\ registered' \in Versions
    /\ UNCHANGED <<deployed, installed>>

Deploy ==
    /\ registered # 0
    /\ deployed' \in Versions
    /\ UNCHANGED <<registered, installed>>

Register ==
    /\ deployed # 0
    /\ registered' = deployed
    /\ UNCHANGED <<deployed, installed>>

Confirm ==
    /\ deployed # 0 /\ registered = deployed
    /\ installed' = registered
    /\ UNCHANGED <<deployed, registered>>

Next == RegisterNew \/ Deploy \/ Register \/ Confirm

Spec == Init /\ [][Next]_vars
=============================================================================
