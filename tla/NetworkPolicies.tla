--------------------------- MODULE NetworkPolicies ---------------------------
(* The network policies of one dogu, as its upserter and their generator      *)
(* compute them.  A policy is told apart by its name, which is made of its    *)
(* kind and its dependency; it lets the pods selected by from reach the ones  *)
(* selected by to, and has the dependency as a label.                         *)
EXTENDS GoCollections

NoDependency == "none"

Nobody == <<"nobody", "">>

TheDogu == <<"dogu", "dogu">>

\* The gateway takes the requests to the ces services.
Gateway == <<"component", "k8s-ces-gateway">>

\* generateNetPol with getSelectors, for a dependency
Policy(type, name) ==
    [kind |-> type, dependency |-> name, from |-> TheDogu, to |-> <<type, name>>]

\* generateIngressNetPol
Ingress == [kind |-> "ingress", dependency |-> NoDependency,
            from |-> Gateway, to |-> TheDogu]

\* generateDenyAllPolicy
DenyAll == [kind |-> "deny-all", dependency |-> NoDependency,
            from |-> Nobody, to |-> TheDogu]

DependencyNames(dogu) == {dep.name : dep \in Range(dogu.dependencies)}

\* upsertNetworkPoliciesForDependencies: dependencies on packages or clients
\* get no policy.
DependencyPolicies(dogu) ==
    {Policy(dep.type, dep.name) :
        dep \in {d \in Range(dogu.dependencies) :
                   d.type \in {"dogu", "component"}}}

\* upsertServiceAnnotationNetworkPolicy
ServiceAnnotationPolicies(annotated) == IF annotated THEN {Ingress} ELSE {}

\* Mutated: policies of dependencies that are gone are kept.
KeepsNonExistent(policies, dogu) == {}

\* deleteNonExistentDependencyPolicies: what it deletes.  The names are
\* compared, not the kinds, and only policies with a dependency.
NonExistentDependencyPolicies(policies, dogu) ==
    {p \in policies : /\ p.dependency # NoDependency
                      /\ p.dependency \notin DependencyNames(dogu)}

\* The policies UpsertDoguNetworkPolicies writes while they are enabled
WrittenPolicies(dogu, annotated) ==
    {DenyAll} \cup DependencyPolicies(dogu)
    \cup ServiceAnnotationPolicies(annotated)

\* UpsertDoguNetworkPolicies, when every call succeeds
UpsertDoguNetworkPolicies(policies, dogu, annotated, enabled) ==
    IF ~enabled THEN {}
    ELSE LET upserted == policies \cup WrittenPolicies(dogu, annotated)
         IN  upserted \ NonExistentDependencyPolicies(upserted, dogu)

\* What it may leave behind when some calls fail: their errors are joined, and
\* the other calls are made.
PartlyUpserted(policies, dogu, annotated, enabled) ==
    IF ~enabled THEN {policies \ deleted : deleted \in SUBSET policies}
    ELSE {(policies \cup written) \ deleted :
            written \in SUBSET WrittenPolicies(dogu, annotated),
            deleted \in SUBSET NonExistentDependencyPolicies(policies, dogu)}

-----------------------------------------------------------------------------
(* What the policies are for                                                  *)

\* Whom the pods selected by peer may reach, as far as policies say
ReachedBy(policies, peer) == {p.to : p \in {q \in policies : q.from = peer}}

\* The dogu is isolated, reaches its dependencies and nobody else, and is
\* reached by the gateway if it has web applications.
Guarded(policies, dogu, webapps) ==
    LET reached == ReachedBy(policies, TheDogu)
    IN  /\ \E p \in policies : p.to = TheDogu /\ p.from = Nobody
        /\ \A d \in Range(dogu.dependencies) :
               d.type \in {"dogu", "component"} <=> <<d.type, d.name>> \in reached
        /\ \A to \in reached :
               \E d \in Range(dogu.dependencies) : d.name = to[2]
        /\ webapps => TheDogu \in ReachedBy(policies, Gateway)
=============================================================================
