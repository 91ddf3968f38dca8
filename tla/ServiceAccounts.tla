--------------------------- MODULE ServiceAccounts ---------------------------
(* The service accounts of one dogu, the consumer, at other dogus and         *)
(* components, the providers: created by AuthRegistrationStep and             *)
(* ServiceAccountStep in every pass, removed by the steps of                  *)
(* DoguDeleteUseCase.  The credentials are kept in the consumer's sensitive   *)
(* config.  A provider is called before the config is written, and either     *)
(* call may fail.  The config and the auth registration are owned by the      *)
(* consumer: a write of either queues it.                                     *)
EXTENDS Naturals, FiniteSets

CONSTANTS
    DoguAccounts,  \* accounts of kind dogu, numbered in the descriptor's order
    Components,    \* accounts of kind component, numbered in the same row
    CAS,           \* the CAS account, which an auth registration may replace
    Optional,      \* accounts at optional dependencies
    Restorable,    \* the consumer may have been restored from a backup
    Removable,     \* accounts at providers that may be uninstalled
    MaxDowns,      \* bound on the number of times a provider goes down
    FaultKinds,    \* the calls that may fail
    MaxFaults      \* bound on the number of faults

Accounts == DoguAccounts \cup Components

ASSUME AccountsAssumption ==
    /\ Accounts = 1..Cardinality(Accounts)
    /\ Accounts # {} /\ IsFiniteSet(Accounts)
    /\ DoguAccounts \cap Components = {}
    /\ CAS \subseteq DoguAccounts
    /\ Optional \subseteq Accounts /\ Removable \subseteq Accounts
    /\ Restorable \in BOOLEAN
    /\ MaxDowns \in Nat /\ MaxFaults \in Nat
    /\ FaultKinds \subseteq {"command", "answer", "writeConfig", "step",
                             "crash"}

VARIABLES
    cas,       \* CAS, if the operator runs with auth registrations, or {}
    provider,  \* "absent", "down" (registered but not ready) or "ready"
    announce,  \* providers whose own pass has still to announce them
    valid,     \* the credentials that a provider accepts, 0 if no account
    made,      \* number of accounts created at each provider so far
    creds,     \* the credentials in the sensitive config, 0 if none
    cfg,       \* the copy of the config a pass works on
    config,    \* the sensitive config exists
    status,    \* of the consumer: "live", "deleting" (by its user) or "gone"
    restored,  \* the annotation wasRestored of the consumer
    health,    \* the consumer has an entry in the health config map
    authReg,   \* its auth registration: "none", "open" or "completed"
    pc,        \* the step a pass is at, or "idle"
    at,        \* the account that step works on
    whole,     \* the removal is RemoveAll, not RemoveAllFromComponents
    problem,   \* the removal has met an error
    queued,    \* the consumer is in the work queue
    downs,     \* number of times a provider went down so far
    faults     \* number of faults so far

vars == <<cas, provider, announce, valid, made, creds, cfg, config, status,
          health, restored, authReg, pc, at, whole, problem, queued, downs,
          faults>>

providers == <<cas, provider, announce, downs>>
consumer == <<config, status, restored, health, authReg>>
removal == <<at, whole, problem>>

None == [a \in Accounts |-> 0]

\* A new dogu has no accounts.  A restored one has kept the credentials of the
\* backup; the components, which are not part of it, have no such account or
\* one with other credentials.  If the operator runs with auth registrations,
\* there is none yet that CAS credentials of the backup would belong to.
Init ==
    /\ cas \in {{}, CAS}
    /\ provider \in [Accounts -> {"absent", "ready"}]
    /\ announce = {}
    /\ restored \in {FALSE, Restorable}
    /\ \E kept \in SUBSET Accounts :
       \E other \in SUBSET (kept \cap Components) :
        /\ kept # {} => restored
        /\ \A a \in kept \ cas : provider[a] = "ready"
        /\ creds = [a \in Accounts |-> IF a \in kept THEN 1 ELSE 0]
        /\ made = [a \in Accounts |-> IF a \in other THEN 2 ELSE creds[a]]
        /\ valid = [a \in Accounts |->
                      IF a \in other \cup (DoguAccounts \ cas) THEN made[a] ELSE 0]
    /\ cfg = None
    /\ config = TRUE /\ status = "live"
    /\ health = FALSE /\ authReg = "none"
    /\ pc = "idle" /\ at = 1 /\ whole = TRUE /\ problem = FALSE
    /\ queued = TRUE
    /\ downs = 0 /\ faults = 0

Fault(kind) ==
    /\ kind \in FaultKinds
    /\ faults < MaxFaults
    /\ faults' = faults + 1

\* A failed pass is requeued, unless the dogu is being deleted (handleRequeue).
PassFails ==
    /\ pc' = "idle"
    /\ queued' = (queued \/ status = "live")

\* Mutated: the loop goes one account too far.
AdvanceTooFar(a, next) ==
    IF a \in Accounts THEN at' = a + 1 /\ UNCHANGED pc
    ELSE pc' = next /\ UNCHANGED at

\* The next account, or the step after the last one.
Advance(a, next) ==
    IF a + 1 \in Accounts THEN at' = a + 1 /\ UNCHANGED pc
    ELSE pc' = next /\ UNCHANGED at

-----------------------------------------------------------------------------
(* A pass over the live consumer: CreateAll.                                  *)

\* Reconcile decides between the two use cases by the deletion timestamp.
\* HealthCheckStep enters a dogu that has pods into the health config map.
StartChange ==
    /\ pc = "idle" /\ queued /\ status = "live"
    /\ queued' = FALSE
    /\ health' \in {health, TRUE}
    /\ pc' = IF restored THEN "restored" ELSE "auth"
    /\ UNCHANGED <<providers, valid, made, creds, cfg, config, status, restored,
                   authReg, removal, faults>>

\* RemoveServiceAccountStep of a restored dogu: RemoveAllFromComponents reads
\* the config.
RemoveAllFromComponents ==
    /\ pc = "restored"
    /\ pc' = "remove"
    /\ at' = 1 /\ whole' = FALSE /\ problem' = FALSE
    /\ cfg' = creds
    /\ UNCHANGED <<providers, valid, made, creds, consumer, queued, faults>>

\* The end of RemoveServiceAccountStep: the annotation goes.
RemoveAnnotation ==
    /\ pc = "unmark"
    /\ restored' = FALSE
    /\ pc' = "auth"
    /\ UNCHANGED <<providers, valid, made, creds, cfg, config, status, health,
                   authReg, removal, queued, faults>>

\* EnsureAuthRegistration with SyncCredentials: the pass fails until the
\* registration is completed, then its credentials go into the config.
EnsureAuthRegistration ==
    /\ pc = "auth"
    /\ \/ /\ cas = {}
          /\ pc' = "read"
          /\ UNCHANGED <<authReg, creds, queued, faults>>
       \/ /\ cas # {} /\ authReg # "completed"
          /\ authReg' = "open"
          /\ pc' = "idle"
          /\ queued' = (queued \/ status = "live" \/ authReg = "none")
          /\ UNCHANGED <<creds, faults>>
       \/ /\ cas # {} /\ authReg = "completed"
          /\ \/ /\ creds' = [a \in Accounts |->
                                 IF a \in cas THEN valid[a] ELSE creds[a]]
                /\ queued' = (queued \/ creds' # creds)
                /\ pc' = "read"
                /\ UNCHANGED faults
             \/ Fault("writeConfig") /\ PassFails /\ UNCHANGED creds
          /\ UNCHANGED authReg
    /\ UNCHANGED <<providers, valid, made, cfg, config, status, restored, health,
                   removal>>

\* CreateAll reads the config.
ReadConfig ==
    /\ pc = "read"
    /\ cfg' = creds
    /\ pc' = "create" /\ at' = 1
    /\ UNCHANGED <<providers, valid, made, creds, consumer, whole, problem,
                   queued, faults>>

\* Mutated: the credentials in the config are not looked at.
NeverExists(a) == a \notin Accounts

\* serviceAccountExists: the config has credentials for the account.
ServiceAccountExists(a) == cfg[a] # 0

\* createDoguServiceAccount and createComponentServiceAccount: the CAS account
\* of an auth registration is skipped, and so is one at an optional provider
\* that is not there; a provider that is not ready refuses the command.  The
\* answer of a command that was run may be lost.
CreateAccount ==
    /\ pc = "create"
    /\ \/ /\ \/ at \in cas \/ ServiceAccountExists(at)
             \/ provider[at] = "absent" /\ at \in Optional
          /\ Advance(at, "installed")
          /\ UNCHANGED <<valid, made, queued, faults>>
       \/ /\ at \notin cas /\ ~ServiceAccountExists(at)
          /\ \/ provider[at] = "absent" /\ at \notin Optional /\ UNCHANGED faults
             \/ provider[at] = "down" /\ UNCHANGED faults
             \/ provider[at] = "ready" /\ Fault("command")
          /\ PassFails
          /\ UNCHANGED <<valid, made, at>>
       \/ /\ at \notin cas /\ ~ServiceAccountExists(at)
          /\ provider[at] = "ready"
          /\ made' = [made EXCEPT ![at] = @ + 1]
          /\ valid' = [valid EXCEPT ![at] = made'[at]]
          /\ \/ pc' = "store" /\ UNCHANGED <<queued, faults>>
             \/ Fault("answer") /\ PassFails
          /\ UNCHANGED at
    /\ UNCHANGED <<providers, creds, cfg, consumer, whole, problem>>

\* writeServiceAccounts: the credentials the provider has answered with.
StoreCredentials ==
    /\ pc = "store"
    /\ cfg' = [cfg EXCEPT ![at] = made[at]]
    /\ \/ /\ creds' = cfg'
          /\ IF at + 1 \in Accounts THEN pc' = "create" /\ at' = at + 1
             ELSE pc' = "installed" /\ UNCHANGED at
          /\ queued' = TRUE
          /\ UNCHANGED faults
       \/ /\ Fault("writeConfig")
          /\ PassFails
          /\ UNCHANGED <<creds, at>>
    /\ UNCHANGED <<providers, valid, made, consumer, whole, problem>>

\* The other steps of the pass fail (StepFails) or succeed.
FinishChange ==
    /\ pc = "installed"
    /\ pc' = "idle"
    /\ UNCHANGED <<providers, valid, made, creds, cfg, consumer, removal, queued,
                   faults>>

-----------------------------------------------------------------------------
(* A pass over the consumer that is being deleted.                            *)

\* StatusStep and AuthRegistrationRemoverStep.  What the registration had set
\* up goes with it.
RemoveAuthRegistration ==
    /\ pc = "idle" /\ queued /\ status = "deleting"
    /\ queued' = (authReg # "none")
    /\ authReg' = "none"
    /\ valid' = IF authReg = "none" THEN valid
                ELSE [a \in Accounts |-> IF a \in cas THEN 0 ELSE valid[a]]
    /\ pc' = "fetchConfig"
    /\ UNCHANGED <<providers, made, creds, cfg, config, status, restored, health,
                   removal, faults>>

\* Mutated: RemoveAll fails without a config.
MissingConfigFails ==
    /\ pc = "fetchConfig"
    /\ pc' = IF config THEN "remove" ELSE "idle"
    /\ at' = 1 /\ whole' = TRUE /\ problem' = FALSE
    /\ cfg' = creds
    /\ UNCHANGED <<providers, valid, made, creds, consumer, queued, faults>>

\* RemoveAll reads the config; without one there is nothing to remove.
FetchConfig ==
    /\ pc = "fetchConfig"
    /\ pc' = IF config THEN "remove" ELSE "health"
    /\ at' = 1 /\ whole' = TRUE /\ problem' = FALSE
    /\ cfg' = creds
    /\ UNCHANGED <<providers, valid, made, creds, consumer, queued, faults>>

\* removeDoguServiceAccount and removeComponentServiceAccount up to the config:
\* an absent dogu is skipped, an absent component is an error.  For a restored
\* dogu only the accounts at components are removed.
RemoveAccount ==
    /\ pc = "remove"
    /\ \/ /\ \/ cfg[at] = 0
             \/ at \in DoguAccounts /\ ~whole
             \/ at \in DoguAccounts /\ provider[at] = "absent"
          /\ Advance(at, "removed")
          /\ UNCHANGED <<valid, problem, faults>>
       \/ /\ cfg[at] # 0 /\ (whole \/ at \in Components)
          /\ \/ at \in Components /\ provider[at] = "absent" /\ UNCHANGED faults
             \/ provider[at] = "down" /\ UNCHANGED faults
             \/ provider[at] = "ready" /\ Fault("command")
          /\ problem' = TRUE
          /\ Advance(at, "removed")
          /\ UNCHANGED valid
       \/ /\ cfg[at] # 0 /\ (whole \/ at \in Components)
          /\ provider[at] = "ready"
          /\ valid' = [valid EXCEPT ![at] = 0]
          /\ \/ pc' = "forget" /\ UNCHANGED <<at, problem, faults>>
             \/ Fault("answer") /\ problem' = TRUE /\ Advance(at, "removed")
    /\ UNCHANGED <<providers, made, creds, cfg, consumer, whole, queued>>

\* The write of the config without the account's credentials.  If it fails,
\* the copy has lost them nevertheless.
ForgetCredentials ==
    /\ pc = "forget"
    /\ cfg' = [cfg EXCEPT ![at] = 0]
    /\ \/ creds' = cfg' /\ queued' = TRUE /\ UNCHANGED <<problem, faults>>
       \/ Fault("writeConfig") /\ problem' = TRUE /\ UNCHANGED <<creds, queued>>
    /\ IF at + 1 \in Accounts THEN pc' = "remove" /\ at' = at + 1
       ELSE pc' = "removed" /\ UNCHANGED at
    /\ UNCHANGED <<providers, valid, made, consumer, whole>>

\* Mutated: the problems of RemoveAll are dropped.
ProblemsIgnored ==
    /\ pc = "removed"
    /\ IF problem /\ ~whole THEN PassFails
       ELSE pc' = (IF whole THEN "health" ELSE "unmark") /\ UNCHANGED queued
    /\ UNCHANGED <<providers, valid, made, creds, cfg, consumer, removal, faults>>

\* Mutated: a failed removal is skipped and only the finalizer is left to do.
FinalizerAfterFailure ==
    /\ pc = "removed"
    /\ IF problem /\ ~whole THEN PassFails
       ELSE /\ pc' = IF problem THEN "finalizer"
                     ELSE IF whole THEN "health" ELSE "unmark"
            /\ UNCHANGED queued
    /\ UNCHANGED <<providers, valid, made, creds, cfg, consumer, removal, faults>>

\* ServiceAccountRemoverStep and RemoveServiceAccountStep: a problem with one
\* account ends the pass.
AccountsRemoved ==
    /\ pc = "removed"
    /\ IF problem THEN PassFails
       ELSE pc' = (IF whole THEN "health" ELSE "unmark") /\ UNCHANGED queued
    /\ UNCHANGED <<providers, valid, made, creds, cfg, consumer, removal, faults>>

\* DeleteOutOfHealthConfigMapStep
DeleteOutOfHealthConfigMap ==
    /\ pc = "health"
    /\ health' = FALSE
    /\ pc' = "config"
    /\ UNCHANGED <<providers, valid, made, creds, cfg, config, status, restored,
                   authReg, removal, queued, faults>>

\* RemoveSensitiveDoguConfigStep: a config that is not found is fine.
RemoveSensitiveConfig ==
    /\ pc = "config"
    /\ config' = FALSE
    /\ creds' = None
    /\ queued' = (queued \/ config)
    /\ pc' = "finalizer"
    /\ UNCHANGED <<providers, valid, made, cfg, status, restored, health, authReg,
                   removal, faults>>

\* RemoveFinalizerStep: now the dogu resource goes.
RemoveFinalizer ==
    /\ pc = "finalizer"
    /\ status' = "gone"
    /\ pc' = "idle"
    /\ UNCHANGED <<providers, valid, made, creds, cfg, config, restored, health,
                   authReg, removal, queued, faults>>

StepFails ==
    /\ pc \in {"restored", "unmark", "read", "installed", "fetchConfig", "health",
               "config", "finalizer"}
    /\ Fault("step")
    /\ PassFails
    /\ UNCHANGED <<providers, valid, made, creds, cfg, consumer, removal>>

-----------------------------------------------------------------------------
(* The environment.                                                           *)

\* The operator is killed.  After its start every dogu is reconciled.
Crash ==
    /\ Fault("crash")
    /\ pc' = "idle"
    /\ queued' = TRUE
    /\ UNCHANGED <<providers, valid, made, creds, cfg, consumer, removal>>

DeleteDogu ==
    /\ status = "live"
    /\ status' = "deleting"
    /\ queued' = TRUE
    /\ UNCHANGED <<providers, valid, made, creds, cfg, config, restored, health,
                   authReg, pc, removal, faults>>

\* The controller of auth registrations completes one.
AuthRegistrationCompleted ==
    /\ authReg = "open"
    /\ authReg' = "completed"
    /\ made' = [a \in Accounts |-> IF a \in cas THEN made[a] + 1 ELSE made[a]]
    /\ valid' = [a \in Accounts |-> IF a \in cas THEN made'[a] ELSE valid[a]]
    /\ queued' = TRUE
    /\ UNCHANGED <<providers, creds, cfg, config, status, restored, health, pc,
                   removal, faults>>

\* A provider is installed, or comes back.  A dogu's own pass will announce it.
ProviderUp(a) ==
    /\ provider[a] # "ready"
    /\ provider' = [provider EXCEPT ![a] = "ready"]
    /\ announce' = announce \cup ({a} \cap DoguAccounts)
    /\ UNCHANGED <<cas, valid, made, creds, cfg, consumer, pc, removal, queued,
                   downs, faults>>

ProviderDown(a) ==
    /\ provider[a] = "ready" /\ downs < MaxDowns
    /\ provider' = [provider EXCEPT ![a] = "down"]
    /\ downs' = downs + 1
    /\ UNCHANGED <<cas, announce, valid, made, creds, cfg, consumer, pc, removal,
                   queued, faults>>

\* The provider is uninstalled, and its accounts with it.
ProviderGone(a) ==
    /\ a \in Removable /\ provider[a] = "ready" /\ downs < MaxDowns
    /\ provider' = [provider EXCEPT ![a] = "absent"]
    /\ announce' = announce \ {a}
    /\ valid' = [valid EXCEPT ![a] = 0]
    /\ downs' = downs + 1
    /\ UNCHANGED <<cas, made, creds, cfg, consumer, pc, removal, queued, faults>>

\* Mutated: the announcement reaches no consumer.
AnnounceNobody(a) ==
    /\ a \in announce /\ provider[a] = "ready"
    /\ announce' = announce \ {a}
    /\ UNCHANGED <<cas, provider, downs, valid, made, creds, cfg, consumer, pc, removal,
                   queued, faults>>

\* RetroactiveServiceAccountStep of the provider's pass: the dogus whose
\* descriptor asks for an account at it are put into the work queue.
RetroactiveServiceAccount(a) ==
    /\ a \in announce /\ provider[a] = "ready"
    /\ announce' = announce \ {a}
    /\ queued' = (queued \/ status # "gone")
    /\ UNCHANGED <<cas, provider, downs, valid, made, creds, cfg, consumer, pc, removal,
                   faults>>

Pass ==
    \/ StartChange \/ RemoveAllFromComponents \/ RemoveAnnotation
    \/ EnsureAuthRegistration \/ ReadConfig
    \/ CreateAccount \/ StoreCredentials \/ FinishChange
    \/ RemoveAuthRegistration \/ FetchConfig \/ RemoveAccount
    \/ ForgetCredentials \/ AccountsRemoved \/ DeleteOutOfHealthConfigMap
    \/ RemoveSensitiveConfig \/ RemoveFinalizer

Next ==
    \/ Pass \/ StepFails \/ Crash \/ DeleteDogu \/ AuthRegistrationCompleted
    \/ \E a \in Accounts : \/ ProviderUp(a) \/ ProviderDown(a) \/ ProviderGone(a)
                           \/ RetroactiveServiceAccount(a)

Spec == Init /\ [][Next]_vars

\* The operator works off its queue, and the passes of the providers end.  Auth
\* registrations are completed, and a provider that is down comes back.
Fairness ==
    /\ WF_vars(Pass)
    /\ WF_vars(AuthRegistrationCompleted)
    /\ \A a \in Accounts : /\ WF_vars(RetroactiveServiceAccount(a))
                           /\ WF_vars(provider[a] = "down" /\ ProviderUp(a))

FairSpec == Spec /\ Fairness
-----------------------------------------------------------------------------
(* Properties                                                                 *)

\* The state has its shape: providers, credentials, the consumer and its pass.
TypeOK ==
    /\ cas \subseteq CAS
    /\ provider \in [Accounts -> {"absent", "down", "ready"}]
    /\ announce \subseteq DoguAccounts
    /\ {valid, made, creds, cfg} \subseteq [Accounts -> Nat]
    /\ status \in {"live", "deleting", "gone"}
    /\ {config, restored, health, whole, problem, queued} \subseteq BOOLEAN
    /\ authReg \in {"none", "open", "completed"}
    /\ pc \in {"idle", "restored", "unmark", "auth", "read", "create", "store",
               "installed", "fetchConfig", "remove", "forget", "removed", "health",
               "config", "finalizer"}
    /\ at \in Accounts
    /\ downs \in 0..MaxDowns /\ faults \in 0..MaxFaults

\* AuthRegistrationStep is behind the pass, or no pass is due.
AuthSettled ==
    pc \in {"read", "create", "store", "installed"} \/ (pc = "idle" /\ ~queued)

\* The credentials for the account are to be the ones its provider accepts.
Relied(a) ==
    /\ creds[a] # 0
    /\ IF a \in cas THEN AuthSettled ELSE provider[a] # "absent"

\* The credentials of a live dogu are the ones its provider accepts, although
\* commands, writes of the config and the operator itself fail in between.
\* A restored dogu gets there by the time the annotation is gone; for CAS with
\* auth registrations, before any step behind AuthRegistrationStep is reached.
CredentialsValid ==
    status = "live" /\ ~restored =>
        \A a \in Accounts : Relied(a) => creds[a] = valid[a]

\* When the dogu resource is gone, nothing the operator made for it is left:
\* config, auth registration and the entry in the health config map.
GoneMeansClean ==
    status = "gone" => ~config /\ ~health /\ authReg = "none"

\* Credentials are dropped from the config only when their account is gone,
\* since they are the only record of it (RemoveAll, RemoveAllFromComponents
\* and the removal of the config at the end of a deletion).
ForgottenOnceRemoved ==
    [][\A a \in Accounts : creds[a] # 0 /\ creds'[a] = 0 => valid[a] = 0]_vars

\* A live dogu gets its accounts at every provider that stays ready, also at a
\* dogu it needs only optionally and that is installed later; CAS credentials
\* that a restore has brought back are replaced by those of the auth
\* registration.  Only optional components, which announce nothing, are left out.
AccountsFollow ==
    \A a \in Accounts \ (Components \cap Optional) :
        <>[](/\ status = "live" /\ (a \in cas \/ provider[a] = "ready")
             /\ \A b \in Accounts \ (cas \cup Optional) : provider[b] = "ready")
            => <>(creds[a] # 0 /\ (a \in cas => creds[a] = valid[a]))

\* The deletion of a dogu comes to its end, if every dogu it has an account at
\* is ready again and again: a pass that fails because one is down is not
\* requeued (handleRequeue), and goes on with the provider's next announcement.
\* Components announce nothing, so those have to be ready during the deletion.
DeletionCompletes ==
    (/\ \A a \in DoguAccounts : []<>(creds[a] = 0 \/ provider[a] = "ready")
     /\ \A c \in Components :
            [](status = "deleting" => creds[c] = 0 \/ provider[c] = "ready"))
        => (status = "deleting" ~> status = "gone")
=============================================================================
