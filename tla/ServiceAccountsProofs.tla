------------------------ MODULE ServiceAccountsProofs ------------------------
(* Creation and removal of the accounts of ServiceAccounts, for any accounts  *)
(* and providers and any number of outages, faults and crashes.               *)
EXTENDS ServiceAccounts, FiniteSetTheorems, TLAPS

Removing == {"remove", "forget", "removed"}

Deletion == {"fetchConfig", "health", "config", "finalizer"}

\* The pass is one over a dogu that is being deleted.
DeletionPass == pc \in Deletion \/ (pc \in Removing /\ whole)

\* The removal of the account is behind the pass.
Past(a) == a < at \/ pc = "removed"

\* A pass of the deletion has removed the auth registration, and the steps
\* behind it what they are for.
DeletionInv ==
    /\ DeletionPass => status = "deleting" /\ authReg = "none"
    /\ pc \in {"config", "finalizer"} => ~health
    /\ pc = "finalizer" => ~config
    /\ status = "gone" => pc = "idle"
    /\ GoneMeansClean

\* The copy of the config agrees with the config, but for accounts that are
\* gone and whose removal could not be written.
CopyInv ==
    /\ pc \in {"create", "store"} => cfg = creds
    /\ pc = "store" => creds[at] = 0
    /\ pc \in {"remove", "forget"} =>
        \A a \in Accounts :
            cfg[a] = creds[a] \/ (/\ a < at /\ cfg[a] = 0 /\ valid[a] = 0
                                  /\ whole \/ a \in Components)
    /\ pc = "forget" => valid[at] = 0 /\ (whole \/ at \in Components)

\* What a removal without a problem has left.
RemovedInv ==
    /\ \A a \in Accounts :
        provider[a] = "absent" /\ (a \notin cas \/ authReg = "none")
            => valid[a] = 0
    /\ pc \in Removing /\ whole /\ ~problem =>
        \A a \in Accounts : Past(a) /\ creds[a] # 0 => valid[a] = 0
    /\ pc \in {"health", "config"} =>
        \A a \in Accounts : creds[a] # 0 => valid[a] = 0
    /\ ~config => /\ status # "live" /\ creds = None
                  /\ pc \in Deletion \cup {"idle"}

AccountsInv == TypeOK /\ DeletionInv /\ CopyInv /\ RemovedInv

\* CredentialsValid made inductive, for providers that are not uninstalled.
CredentialsInv ==
    /\ pc \in {"restored", "unmark"} \cup Removing => restored \/ DeletionPass
    /\ pc \in Removing /\ ~whole /\ ~problem =>
        \A a \in Components : Past(a) => creds[a] = 0
    /\ pc = "unmark" => \A a \in Components : creds[a] = 0
    /\ pc = "store" => at \notin cas /\ valid[at] = made[at]
    /\ status = "live" /\ cas # {} /\ AuthSettled =>
        authReg = "completed" /\ \A a \in cas : creds[a] = valid[a]
    /\ status = "live" =>
        \A a \in Accounts \ cas :
            creds[a] # 0 /\ (a \in DoguAccounts \/ ~restored)
                => creds[a] = valid[a]
-----------------------------------------------------------------------------
(* What the steps with several outcomes do.                                   *)

MayFault == faults' = faults \/ (faults < MaxFaults /\ faults' = faults + 1)

\* EnsureAuthRegistration opens the registration or takes its credentials.
LEMMA EnsureEffect ==
    ASSUME EnsureAuthRegistration
    PROVE  /\ pc = "auth" /\ pc' \in {"read", "idle"}
           /\ UNCHANGED <<cas, provider, announce, downs, valid, made, cfg,
                          config, status, restored, health, at, whole, problem>>
           /\ \/ creds' = creds /\ authReg' = authReg
              \/ creds' = creds /\ authReg # "completed" /\ authReg' = "open"
              \/ /\ authReg = "completed" /\ authReg' = authReg
                 /\ creds' = [a \in Accounts |->
                                IF a \in cas THEN valid[a] ELSE creds[a]]
           /\ MayFault
<1>1. /\ pc = "auth"
      /\ UNCHANGED <<cas, provider, announce, downs, valid, made, cfg, config,
                     status, restored, health, at, whole, problem>>
  BY DEF EnsureAuthRegistration, providers, removal
<1>2. QED
  BY <1>1, Zenon DEF EnsureAuthRegistration, MayFault, Fault, PassFails

\* It lets the pass go on only with the credentials of a completed registration.
LEMMA EnsureOutcome ==
    ASSUME EnsureAuthRegistration
    PROVE  \/ cas = {}
           \/ pc' = "idle" /\ (status = "live" => queued')
           \/ /\ pc' = "read" /\ authReg' = "completed"
              /\ creds' = [a \in Accounts |->
                             IF a \in cas THEN valid[a] ELSE creds[a]]
BY Zenon DEF EnsureAuthRegistration, PassFails

\* CreateAccount passes an account, fails, or has a new one created.
LEMMA CreateEffect ==
    ASSUME CreateAccount
    PROVE  /\ pc = "create"
           /\ UNCHANGED <<cas, provider, announce, downs, creds, cfg, config,
                          status, restored, health, authReg, whole, problem>>
           /\ \/ /\ valid' = valid /\ made' = made
                 /\ \/ Advance(at, "installed")
                    \/ pc' = "idle" /\ at' = at
              \/ /\ at \notin cas /\ cfg[at] = 0 /\ provider[at] = "ready"
                 /\ made' = [made EXCEPT ![at] = @ + 1]
                 /\ valid' = [valid EXCEPT ![at] = made'[at]]
                 /\ pc' \in {"store", "idle"} /\ at' = at
           /\ MayFault
<1>1. /\ pc = "create"
      /\ UNCHANGED <<cas, provider, announce, downs, creds, cfg, config, status,
                     restored, health, authReg, whole, problem>>
  BY DEF CreateAccount, providers, consumer
<1>2. QED
  BY <1>1, Zenon DEF CreateAccount, ServiceAccountExists, MayFault, Fault,
     PassFails

\* StoreCredentials writes the copy with the new credentials, or fails.
LEMMA StoreEffect ==
    ASSUME StoreCredentials
    PROVE  /\ pc = "store"
           /\ UNCHANGED <<cas, provider, announce, downs, valid, made, config,
                          status, restored, health, authReg, whole, problem>>
           /\ cfg' = [cfg EXCEPT ![at] = made[at]]
           /\ \/ creds' = cfg' /\ pc' \in {"create", "installed"}
              \/ creds' = creds /\ pc' = "idle"
           /\ at' = at \/ (at' = at + 1 /\ at + 1 \in Accounts)
           /\ MayFault
<1>1. /\ pc = "store"
      /\ UNCHANGED <<cas, provider, announce, downs, valid, made, config, status,
                     restored, health, authReg, whole, problem>>
      /\ cfg' = [cfg EXCEPT ![at] = made[at]]
  BY DEF StoreCredentials, providers, consumer
<1>2. QED
  BY <1>1, Zenon DEF StoreCredentials, MayFault, Fault, PassFails

\* RemoveAccount passes an account, meets a problem, or has removed one.
LEMMA RemoveEffect ==
    ASSUME RemoveAccount
    PROVE  /\ pc = "remove"
           /\ UNCHANGED <<cas, provider, announce, downs, made, creds, cfg, config,
                          status, restored, health, authReg, whole>>
           /\ \/ /\ valid' = valid /\ problem' = problem
                 /\ \/ cfg[at] = 0 \/ (at \in DoguAccounts /\ ~whole)
                    \/ at \in DoguAccounts /\ provider[at] = "absent"
                 /\ Advance(at, "removed")
              \/ /\ valid' \in {valid, [valid EXCEPT ![at] = 0]}
                 /\ problem' = TRUE
                 /\ Advance(at, "removed")
              \/ /\ whole \/ at \in Components
                 /\ valid' = [valid EXCEPT ![at] = 0]
                 /\ pc' = "forget" /\ at' = at /\ problem' = problem
           /\ MayFault
<1>1. /\ pc = "remove"
      /\ UNCHANGED <<cas, provider, announce, downs, made, creds, cfg, config,
                     status, restored, health, authReg, whole>>
  BY DEF RemoveAccount, providers, consumer
<1>2. QED
  BY <1>1, Zenon DEF RemoveAccount, MayFault, Fault

\* ForgetCredentials writes the copy without the credentials, or has a problem.
LEMMA ForgetEffect ==
    ASSUME ForgetCredentials
    PROVE  /\ pc = "forget"
           /\ UNCHANGED <<cas, provider, announce, downs, valid, made, config,
                          status, restored, health, authReg, whole>>
           /\ cfg' = [cfg EXCEPT ![at] = 0]
           /\ \/ creds' = cfg' /\ problem' = problem
              \/ creds' = creds /\ problem' = TRUE
           /\ \/ at + 1 \in Accounts /\ pc' = "remove" /\ at' = at + 1
              \/ at + 1 \notin Accounts /\ pc' = "removed" /\ at' = at
           /\ MayFault
<1>1. /\ pc = "forget"
      /\ UNCHANGED <<cas, provider, announce, downs, valid, made, config, status,
                     restored, health, authReg, whole>>
      /\ cfg' = [cfg EXCEPT ![at] = 0]
  BY DEF ForgetCredentials, providers, consumer
<1>2. QED
  BY <1>1, Zenon DEF ForgetCredentials, MayFault, Fault

-----------------------------------------------------------------------------
(* The shape of the state.                                                    *)

\* The accounts are the numbers 1 to the number of accounts.
LEMMA AccountNumbers ==
    /\ Cardinality(Accounts) \in Nat
    /\ Accounts = 1..Cardinality(Accounts)
    /\ 1 \in Accounts
    /\ cas \subseteq CAS => cas \subseteq DoguAccounts
<1>1. IsFiniteSet(Accounts) /\ Accounts # {} /\ CAS \subseteq DoguAccounts
      /\ Accounts = 1..Cardinality(Accounts)
  BY AccountsAssumption
<1>2. Cardinality(Accounts) \in Nat
  BY <1>1, FS_CardinalityType
<1>3. QED
  BY <1>1, <1>2

Flags == {config, restored, health, whole, problem, queued} \subseteq BOOLEAN

Maps ==
    /\ valid \in [Accounts -> Nat] /\ made \in [Accounts -> Nat]
    /\ creds \in [Accounts -> Nat] /\ cfg \in [Accounts -> Nat]

Steps ==
    /\ cas \subseteq CAS
    /\ provider \in [Accounts -> {"absent", "down", "ready"}]
    /\ announce \subseteq DoguAccounts
    /\ status \in {"live", "deleting", "gone"}
    /\ authReg \in {"none", "open", "completed"}
    /\ pc \in {"idle", "restored", "unmark", "auth", "read", "create", "store",
               "installed", "fetchConfig", "remove", "forget", "removed", "health",
               "config", "finalizer"}
    /\ at \in Accounts
    /\ downs \in 0..MaxDowns /\ faults \in 0..MaxFaults

\* The flags of the consumer and of its pass stay Boolean.
LEMMA FlagsStep == TypeOK /\ [Next]_vars => Flags'
<1> SUFFICES ASSUME TypeOK, [Next]_vars PROVE Flags'
  OBVIOUS
<1> USE DEF TypeOK, Flags, PassFails, providers, consumer, removal
<1>1. CASE StartChange
  BY <1>1, Zenon DEF StartChange
<1>2. CASE RemoveAllFromComponents
  BY <1>2, Zenon DEF RemoveAllFromComponents
<1>3. CASE RemoveAnnotation
  BY <1>3, Zenon DEF RemoveAnnotation
<1>4. CASE EnsureAuthRegistration
  BY <1>4, Zenon DEF EnsureAuthRegistration
<1>5. CASE ReadConfig
  BY <1>5, Zenon DEF ReadConfig
<1>6. CASE CreateAccount
  BY <1>6, Zenon DEF CreateAccount
<1>7. CASE StoreCredentials
  BY <1>7, Zenon DEF StoreCredentials
<1>8. CASE FinishChange
  BY <1>8, Zenon DEF FinishChange
<1>9. CASE RemoveAuthRegistration
  BY <1>9, Zenon DEF RemoveAuthRegistration
<1>10. CASE FetchConfig
  BY <1>10, Zenon DEF FetchConfig
<1>11. CASE RemoveAccount
  BY <1>11, Zenon DEF RemoveAccount
<1>12. CASE ForgetCredentials
  BY <1>12, Zenon DEF ForgetCredentials
<1>13. CASE AccountsRemoved
  BY <1>13, Zenon DEF AccountsRemoved
<1>14. CASE DeleteOutOfHealthConfigMap
  BY <1>14, Zenon DEF DeleteOutOfHealthConfigMap
<1>15. CASE RemoveSensitiveConfig
  BY <1>15, Zenon DEF RemoveSensitiveConfig
<1>16. CASE RemoveFinalizer
  BY <1>16, Zenon DEF RemoveFinalizer
<1>17. CASE StepFails
  BY <1>17, Zenon DEF StepFails
<1>18. CASE Crash
  BY <1>18, Zenon DEF Crash
<1>19. CASE DeleteDogu
  BY <1>19, Zenon DEF DeleteDogu
<1>20. CASE AuthRegistrationCompleted
  BY <1>20, Zenon DEF AuthRegistrationCompleted
<1>21. ASSUME NEW a \in Accounts,
             \/ ProviderUp(a) \/ ProviderDown(a) \/ ProviderGone(a)
             \/ RetroactiveServiceAccount(a)
      PROVE  Flags'
  BY <1>21, Zenon DEF ProviderUp, ProviderDown, ProviderGone,
     RetroactiveServiceAccount
<1>22. CASE UNCHANGED vars
  BY <1>22, Zenon DEF vars
<1>23. QED
  BY <1>1, <1>2, <1>3, <1>4, <1>5, <1>6, <1>7, <1>8, <1>9, <1>10, <1>11,
     <1>12, <1>13, <1>14, <1>15, <1>16, <1>17, <1>18, <1>19, <1>20, <1>21,
     <1>22
  DEF Next, Pass

\* Credentials stay numbers, one for each account.
LEMMA MapsStep == TypeOK /\ [Next]_vars => Maps'
<1> SUFFICES ASSUME TypeOK, [Next]_vars PROVE Maps'
  OBVIOUS
<1>a. Maps /\ at \in Accounts /\ made[at] + 1 \in Nat
  BY DEF TypeOK, Maps
<1> USE <1>a DEF Maps, None, providers, consumer
<1>1. CASE StartChange
  BY <1>1 DEF StartChange
<1>2. CASE RemoveAllFromComponents
  BY <1>2 DEF RemoveAllFromComponents
<1>3. CASE RemoveAnnotation
  BY <1>3 DEF RemoveAnnotation
<1>4. CASE EnsureAuthRegistration
  BY <1>4, EnsureEffect
<1>5. CASE ReadConfig
  BY <1>5 DEF ReadConfig
<1>6. CASE CreateAccount
  BY <1>6, CreateEffect
<1>7. CASE StoreCredentials
  BY <1>7, StoreEffect
<1>8. CASE FinishChange
  BY <1>8 DEF FinishChange
<1>9. CASE RemoveAuthRegistration
  BY <1>9 DEF RemoveAuthRegistration
<1>10. CASE FetchConfig
  BY <1>10 DEF FetchConfig
<1>11. CASE RemoveAccount
  <2>1. UNCHANGED <<made, creds, cfg>> /\ valid' \in {valid, [valid EXCEPT ![at] = 0]}
    BY <1>11, RemoveEffect, Zenon
  <2>2. QED
    BY <2>1
<1>12. CASE ForgetCredentials
  <2>1. UNCHANGED <<valid, made>> /\ cfg' = [cfg EXCEPT ![at] = 0]
        /\ creds' \in {cfg', creds}
    BY <1>12, ForgetEffect, Zenon
  <2>2. QED
    BY <2>1
<1>13. CASE AccountsRemoved
  BY <1>13 DEF AccountsRemoved
<1>14. CASE DeleteOutOfHealthConfigMap
  BY <1>14 DEF DeleteOutOfHealthConfigMap
<1>15. CASE RemoveSensitiveConfig
  BY <1>15 DEF RemoveSensitiveConfig
<1>16. CASE RemoveFinalizer
  BY <1>16 DEF RemoveFinalizer
<1>17. CASE StepFails
  BY <1>17 DEF StepFails
<1>18. CASE Crash
  BY <1>18 DEF Crash
<1>19. CASE DeleteDogu
  BY <1>19 DEF DeleteDogu
<1>20. CASE AuthRegistrationCompleted
  BY <1>20 DEF AuthRegistrationCompleted
<1>21. ASSUME NEW a \in Accounts,
             \/ ProviderUp(a) \/ ProviderDown(a) \/ ProviderGone(a)
             \/ RetroactiveServiceAccount(a)
      PROVE  Maps'
  BY <1>21 DEF ProviderUp, ProviderDown, ProviderGone,
     RetroactiveServiceAccount
<1>22. CASE UNCHANGED vars
  BY <1>22 DEF vars
<1>23. QED
  BY <1>1, <1>2, <1>3, <1>4, <1>5, <1>6, <1>7, <1>8, <1>9, <1>10, <1>11,
     <1>12, <1>13, <1>14, <1>15, <1>16, <1>17, <1>18, <1>19, <1>20, <1>21,
     <1>22
  DEF Next, Pass

\* The providers, the consumer's status and the pass keep their values.
LEMMA StepsStep == TypeOK /\ [Next]_vars => Steps'
<1> SUFFICES ASSUME TypeOK, [Next]_vars PROVE Steps'
  OBVIOUS
<1>a. 1 \in Accounts /\ MaxDowns \in Nat /\ MaxFaults \in Nat
  BY AccountNumbers, AccountsAssumption
<1> USE <1>a
    DEF TypeOK, Steps, Fault, PassFails, Advance, providers, consumer, removal
<1>1. CASE StartChange
  BY <1>1 DEF StartChange
<1>2. CASE RemoveAllFromComponents
  BY <1>2 DEF RemoveAllFromComponents
<1>3. CASE RemoveAnnotation
  BY <1>3 DEF RemoveAnnotation
<1>4. CASE EnsureAuthRegistration
  BY <1>4, EnsureEffect DEF MayFault
<1>5. CASE ReadConfig
  BY <1>5 DEF ReadConfig
<1>6. CASE CreateAccount
  BY <1>6, CreateEffect DEF MayFault
<1>7. CASE StoreCredentials
  BY <1>7, StoreEffect DEF MayFault
<1>8. CASE FinishChange
  BY <1>8 DEF FinishChange
<1>9. CASE RemoveAuthRegistration
  BY <1>9 DEF RemoveAuthRegistration
<1>10. CASE FetchConfig
  BY <1>10 DEF FetchConfig
<1>11. CASE RemoveAccount
  <2>1. /\ UNCHANGED <<cas, provider, announce, downs, status, authReg>>
        /\ Advance(at, "removed") \/ (pc' = "forget" /\ at' = at)
        /\ MayFault
    BY <1>11, RemoveEffect, Zenon
  <2>2. QED
    BY <2>1 DEF MayFault
<1>12. CASE ForgetCredentials
  BY <1>12, ForgetEffect DEF MayFault
<1>13. CASE AccountsRemoved
  BY <1>13 DEF AccountsRemoved
<1>14. CASE DeleteOutOfHealthConfigMap
  BY <1>14 DEF DeleteOutOfHealthConfigMap
<1>15. CASE RemoveSensitiveConfig
  BY <1>15 DEF RemoveSensitiveConfig
<1>16. CASE RemoveFinalizer
  BY <1>16 DEF RemoveFinalizer
<1>17. CASE StepFails
  BY <1>17 DEF StepFails
<1>18. CASE Crash
  BY <1>18 DEF Crash
<1>19. CASE DeleteDogu
  BY <1>19 DEF DeleteDogu
<1>20. CASE AuthRegistrationCompleted
  BY <1>20 DEF AuthRegistrationCompleted
<1>21. ASSUME NEW a \in Accounts,
             \/ ProviderUp(a) \/ ProviderDown(a) \/ ProviderGone(a)
             \/ RetroactiveServiceAccount(a)
      PROVE  Steps'
  BY <1>21 DEF ProviderUp, ProviderDown, ProviderGone,
     RetroactiveServiceAccount
<1>22. CASE UNCHANGED vars
  BY <1>22 DEF vars
<1>23. QED
  BY <1>1, <1>2, <1>3, <1>4, <1>5, <1>6, <1>7, <1>8, <1>9, <1>10, <1>11,
     <1>12, <1>13, <1>14, <1>15, <1>16, <1>17, <1>18, <1>19, <1>20, <1>21,
     <1>22, Zenon
  DEF Next, Pass

\* A step of the operator, a provider or the user keeps the shape of the state.
LEMMA AccountsTypeStep == TypeOK /\ [Next]_vars => TypeOK'
  BY FlagsStep, MapsStep, StepsStep, Zenon DEF TypeOK, Flags, Maps, Steps

-----------------------------------------------------------------------------
(* The inductive invariants.                                                   *)

\* The steps of a deletion leave behind them what they are to remove.
LEMMA DeletionStep == TypeOK /\ DeletionInv /\ [Next]_vars => DeletionInv'
<1> SUFFICES ASSUME TypeOK, DeletionInv, [Next]_vars PROVE DeletionInv'
  OBVIOUS
<1> USE DEF TypeOK, DeletionInv, DeletionPass, Deletion, Removing, GoneMeansClean,
        Fault, PassFails, Advance, providers, consumer, removal
<1>1. CASE StartChange
  BY <1>1 DEF StartChange
<1>2. CASE RemoveAllFromComponents
  BY <1>2 DEF RemoveAllFromComponents
<1>3. CASE RemoveAnnotation
  BY <1>3 DEF RemoveAnnotation
<1>4. CASE EnsureAuthRegistration
  BY <1>4, EnsureEffect
<1>5. CASE ReadConfig
  BY <1>5 DEF ReadConfig
<1>6. CASE CreateAccount
  BY <1>6, CreateEffect
<1>7. CASE StoreCredentials
  BY <1>7, StoreEffect
<1>8. CASE FinishChange
  BY <1>8 DEF FinishChange
<1>9. CASE RemoveAuthRegistration
  BY <1>9 DEF RemoveAuthRegistration
<1>10. CASE FetchConfig
  BY <1>10 DEF FetchConfig
<1>11. CASE RemoveAccount
  <2>1. /\ pc = "remove"
        /\ UNCHANGED <<whole, status, authReg, health, config>>
        /\ Advance(at, "removed") \/ pc' = "forget"
    BY <1>11, RemoveEffect, Zenon
  <2>2. QED
    BY <2>1
<1>12. CASE ForgetCredentials
  BY <1>12, ForgetEffect
<1>13. CASE AccountsRemoved
  BY <1>13 DEF AccountsRemoved
<1>14. CASE DeleteOutOfHealthConfigMap
  BY <1>14 DEF DeleteOutOfHealthConfigMap
<1>15. CASE RemoveSensitiveConfig
  BY <1>15 DEF RemoveSensitiveConfig
<1>16. CASE RemoveFinalizer
  BY <1>16 DEF RemoveFinalizer
<1>17. CASE StepFails
  BY <1>17 DEF StepFails
<1>18. CASE Crash
  BY <1>18 DEF Crash
<1>19. CASE DeleteDogu
  BY <1>19 DEF DeleteDogu
<1>20. CASE AuthRegistrationCompleted
  BY <1>20 DEF AuthRegistrationCompleted
<1>21. ASSUME NEW a \in Accounts,
              \/ ProviderUp(a) \/ ProviderDown(a) \/ ProviderGone(a)
              \/ RetroactiveServiceAccount(a)
       PROVE  DeletionInv'
  BY <1>21 DEF ProviderUp, ProviderDown, ProviderGone,
     RetroactiveServiceAccount
<1>22. CASE UNCHANGED vars
  BY <1>22 DEF vars
<1>23. QED
  BY <1>1, <1>2, <1>3, <1>4, <1>5, <1>6, <1>7, <1>8, <1>9, <1>10, <1>11,
     <1>12, <1>13, <1>14, <1>15, <1>16, <1>17, <1>18, <1>19, <1>20, <1>21,
     <1>22, Zenon
  DEF Next, Pass

\* What the shape of the state says about accounts.
LEMMA AccountFacts ==
    ASSUME TypeOK
    PROVE  /\ Maps /\ cas \subseteq DoguAccounts
           /\ at \in Accounts /\ Accounts \subseteq Nat
           /\ \A a \in Accounts : ~(a < 1)
           /\ at + 1 \notin Accounts => \A a \in Accounts : a = at \/ a < at
           /\ Accounts = DoguAccounts \cup Components
           /\ DoguAccounts \cap Components = {}
<1>1. /\ Accounts \subseteq Nat /\ \A a \in Accounts : ~(a < 1)
      /\ \A b \in Accounts : b + 1 \notin Accounts =>
            \A a \in Accounts : a = b \/ a < b
  BY AccountNumbers
<1>2. Maps /\ cas \subseteq CAS /\ at \in Accounts
  BY DEF TypeOK, Maps
<1>3. CAS \subseteq DoguAccounts /\ DoguAccounts \cap Components = {}
  BY AccountsAssumption
<1>4. QED
  BY <1>1, <1>2, <1>3 DEF Accounts

\* The copy of the config loses only accounts that are gone.
LEMMA CopyStep == TypeOK /\ DeletionInv /\ CopyInv /\ [Next]_vars => CopyInv'
<1> SUFFICES ASSUME TypeOK, DeletionInv, CopyInv, [Next]_vars PROVE CopyInv'
  OBVIOUS
<1> USE AccountFacts DEF CopyInv, Maps, providers, consumer, removal
<1>1. CASE StartChange
  BY <1>1 DEF StartChange
<1>2. CASE RemoveAllFromComponents
  BY <1>2 DEF RemoveAllFromComponents
<1>3. CASE RemoveAnnotation
  BY <1>3 DEF RemoveAnnotation
<1>4. CASE EnsureAuthRegistration
  BY <1>4, EnsureEffect
<1>5. CASE ReadConfig
  BY <1>5 DEF ReadConfig
<1>6. CASE CreateAccount
  BY <1>6, CreateEffect DEF Advance
<1>7. CASE StoreCredentials
  BY <1>7, StoreEffect
<1>8. CASE FinishChange
  BY <1>8 DEF FinishChange
<1>9. CASE RemoveAuthRegistration
  BY <1>9 DEF RemoveAuthRegistration
<1>10. CASE FetchConfig
  BY <1>10 DEF FetchConfig
<1>11. CASE RemoveAccount
  <2>1. /\ pc = "remove" /\ UNCHANGED <<creds, cfg, whole>>
        /\ valid' \in {valid, [valid EXCEPT ![at] = 0]}
        /\ \/ Advance(at, "removed")
           \/ /\ whole \/ at \in Components
              /\ valid' = [valid EXCEPT ![at] = 0]
              /\ pc' = "forget" /\ at' = at
    BY <1>11, RemoveEffect, Zenon
  <2>2. \A a \in Accounts : valid[a] = 0 => valid'[a] = 0
    BY <2>1
  <2>3. QED
    BY <2>1, <2>2 DEF Advance
<1>12. CASE ForgetCredentials
  <2>1. /\ pc = "forget" /\ UNCHANGED <<valid, whole>>
        /\ cfg' = [cfg EXCEPT ![at] = 0]
        /\ creds' \in {cfg', creds}
        /\ (pc' = "remove" /\ at' = at + 1) \/ pc' = "removed"
    BY <1>12, ForgetEffect, Zenon
  <2>2. QED
    BY <2>1
<1>13. CASE AccountsRemoved
  BY <1>13 DEF AccountsRemoved, PassFails
<1>14. CASE DeleteOutOfHealthConfigMap
  BY <1>14 DEF DeleteOutOfHealthConfigMap
<1>15. CASE RemoveSensitiveConfig
  BY <1>15 DEF RemoveSensitiveConfig
<1>16. CASE RemoveFinalizer
  BY <1>16 DEF RemoveFinalizer
<1>17. CASE StepFails
  BY <1>17 DEF StepFails, PassFails
<1>18. CASE Crash
  BY <1>18 DEF Crash
<1>19. CASE DeleteDogu
  BY <1>19 DEF DeleteDogu
<1>20. CASE AuthRegistrationCompleted
  <2>1. /\ authReg = "open" /\ UNCHANGED <<pc, at, creds, cfg, whole>>
        /\ \A a \in Accounts \ cas : valid'[a] = valid[a]
    BY <1>20 DEF AuthRegistrationCompleted
  <2>2. ~DeletionPass
    BY <2>1 DEF DeletionInv
  <2>3. QED
    BY <2>1, <2>2 DEF DeletionPass, Removing
<1>21. ASSUME NEW a \in Accounts,
              \/ ProviderUp(a) \/ ProviderDown(a) \/ ProviderGone(a)
              \/ RetroactiveServiceAccount(a)
       PROVE  CopyInv'
  BY <1>21, Zenon DEF ProviderUp, ProviderDown, ProviderGone,
     RetroactiveServiceAccount
<1>22. CASE UNCHANGED vars
  BY <1>22 DEF vars
<1>23. QED
  BY <1>1, <1>2, <1>3, <1>4, <1>5, <1>6, <1>7, <1>8, <1>9, <1>10, <1>11,
     <1>12, <1>13, <1>14, <1>15, <1>16, <1>17, <1>18, <1>19, <1>20, <1>21,
     <1>22, Zenon
  DEF Next, Pass

\* A removal without a problem leaves no account whose credentials are known.
LEMMA RemovedStep == AccountsInv /\ [Next]_vars => RemovedInv'
<1> SUFFICES ASSUME AccountsInv, [Next]_vars PROVE RemovedInv'
  OBVIOUS
<1> USE AccountFacts DEF AccountsInv, RemovedInv, Maps, Past, Removing, Deletion,
        None, providers, consumer, removal
<1>1. CASE StartChange
  BY <1>1 DEF StartChange
<1>2. CASE RemoveAllFromComponents
  BY <1>2 DEF RemoveAllFromComponents
<1>3. CASE RemoveAnnotation
  BY <1>3 DEF RemoveAnnotation
<1>4. CASE EnsureAuthRegistration
  BY <1>4, EnsureEffect
<1>5. CASE ReadConfig
  BY <1>5 DEF ReadConfig
<1>6. CASE CreateAccount
  BY <1>6, CreateEffect DEF Advance
<1>7. CASE StoreCredentials
  BY <1>7, StoreEffect
<1>8. CASE FinishChange
  BY <1>8 DEF FinishChange
<1>9. CASE RemoveAuthRegistration
  BY <1>9 DEF RemoveAuthRegistration
<1>10. CASE FetchConfig
  <2>1. ~config => \A a \in Accounts : creds[a] = 0
    OBVIOUS
  <2>2. QED
    BY <1>10, <2>1 DEF FetchConfig
<1>11. CASE RemoveAccount
  <2>1. /\ pc = "remove"
        /\ UNCHANGED <<cas, provider, creds, config, status, authReg, whole>>
        /\ valid' \in {valid, [valid EXCEPT ![at] = 0]}
        /\ Advance(at, "removed") \/ (pc' = "forget" /\ at' = at)
    BY <1>11, RemoveEffect, Zenon
  <2>2. ~problem' => ~problem
    BY <1>11, RemoveEffect, Zenon
  <2>3. \A a \in Accounts : valid[a] = 0 => valid'[a] = 0
    BY <2>1
  <2>4. config
    BY <2>1
  <2>5. whole /\ ~problem' /\ pc' # "forget" =>
          cfg[at] = 0 \/ (at \in DoguAccounts /\ provider[at] = "absent")
    BY <1>11, RemoveEffect, Zenon
  <2>6. whole => authReg = "none"
    BY <2>1 DEF DeletionInv, DeletionPass
  <2>7. cfg[at] = creds[at]
    BY <2>1 DEF CopyInv
  <2>8. whole /\ ~problem' /\ pc' # "forget" => creds[at] = 0 \/ valid'[at] = 0
    BY <2>3, <2>5, <2>6, <2>7
  <2>9. ASSUME pc' \in Removing, whole', ~problem', NEW a \in Accounts,
               a < at' \/ pc' = "removed", creds'[a] # 0
        PROVE  valid'[a] = 0
    <3>1. a < at \/ (a = at /\ pc' # "forget")
      BY <2>1, <2>9 DEF Advance
    <3>2. a < at => valid[a] = 0
      BY <2>1, <2>2, <2>9
    <3>3. QED
      BY <2>1, <2>3, <2>8, <2>9, <3>1, <3>2
  <2>10. pc' \in Removing
    BY <2>1 DEF Advance
  <2>11. QED
    BY <2>1, <2>3, <2>4, <2>9, <2>10
<1>12. CASE ForgetCredentials
  <2>1. /\ pc = "forget"
        /\ UNCHANGED <<cas, provider, valid, config, status, authReg, whole>>
        /\ cfg' = [cfg EXCEPT ![at] = 0]
        /\ creds' \in {cfg', creds}
        /\ \/ at + 1 \in Accounts /\ pc' = "remove" /\ at' = at + 1
           \/ at + 1 \notin Accounts /\ pc' = "removed" /\ at' = at
    BY <1>12, ForgetEffect, Zenon
  <2>2. ~problem' => ~problem
    BY <1>12, ForgetEffect, Zenon
  <2>3. config
    BY <2>1
  <2>4. valid[at] = 0 /\ \A a \in Accounts : cfg[a] # 0 => creds[a] = cfg[a]
    BY <2>1 DEF CopyInv
  <2>5. ASSUME whole', ~problem', NEW a \in Accounts,
               a < at' \/ pc' = "removed", creds'[a] # 0
        PROVE  valid'[a] = 0
    <3>1. a = at \/ a < at
      BY <2>1, <2>5
    <3>2. creds[a] # 0
      BY <2>1, <2>4, <2>5
    <3>3. QED
      BY <2>1, <2>2, <2>4, <2>5, <3>1, <3>2
  <2>6. QED
    BY <2>1, <2>3, <2>5
<1>13. CASE AccountsRemoved
  BY <1>13 DEF AccountsRemoved, PassFails
<1>14. CASE DeleteOutOfHealthConfigMap
  BY <1>14 DEF DeleteOutOfHealthConfigMap
<1>15. CASE RemoveSensitiveConfig
  BY <1>15 DEF RemoveSensitiveConfig, DeletionInv, DeletionPass
<1>16. CASE RemoveFinalizer
  BY <1>16 DEF RemoveFinalizer
<1>17. CASE StepFails
  BY <1>17 DEF StepFails, PassFails
<1>18. CASE Crash
  BY <1>18 DEF Crash
<1>19. CASE DeleteDogu
  BY <1>19 DEF DeleteDogu
<1>20. CASE AuthRegistrationCompleted
  <2>1. /\ authReg = "open" /\ authReg' = "completed"
        /\ UNCHANGED <<cas, provider, pc, at, creds, config, status, whole>>
        /\ \A a \in Accounts \ cas : valid'[a] = valid[a]
    BY <1>20 DEF AuthRegistrationCompleted
  <2>2. ~DeletionPass
    BY <2>1 DEF DeletionInv
  <2>3. QED
    BY <2>1, <2>2 DEF DeletionPass
<1>21. ASSUME NEW a \in Accounts,
              \/ ProviderUp(a) \/ ProviderDown(a) \/ ProviderGone(a)
              \/ RetroactiveServiceAccount(a)
       PROVE  RemovedInv'
  <2>1. UNCHANGED <<cas, authReg, pc, at, creds, config, status, whole, problem>>
    BY <1>21, Zenon DEF ProviderUp, ProviderDown, ProviderGone, RetroactiveServiceAccount
  <2>2. \A b \in Accounts : valid[b] = 0 => valid'[b] = 0
    BY <1>21, Zenon DEF ProviderUp, ProviderDown, ProviderGone, RetroactiveServiceAccount
  <2>3. \A b \in Accounts :
          provider'[b] = "absent" => provider[b] = "absent" \/ valid'[b] = 0
    BY <1>21, Zenon DEF TypeOK, ProviderUp, ProviderDown, ProviderGone,
       RetroactiveServiceAccount
  <2>4. QED
    BY <2>1, <2>2, <2>3
<1>22. CASE UNCHANGED vars
  BY <1>22 DEF vars
<1>23. QED
  BY <1>1, <1>2, <1>3, <1>4, <1>5, <1>6, <1>7, <1>8, <1>9, <1>10, <1>11,
     <1>12, <1>13, <1>14, <1>15, <1>16, <1>17, <1>18, <1>19, <1>20, <1>21,
     <1>22, Zenon
  DEF Next, Pass

\* Credentials in use stay the ones the provider accepts.
LEMMA CredentialsStep == Removable = {} /\ AccountsInv /\ CredentialsInv /\ [Next]_vars => CredentialsInv'
<1> SUFFICES ASSUME Removable = {}, AccountsInv, CredentialsInv, [Next]_vars PROVE CredentialsInv'
  OBVIOUS
<1> USE AccountFacts DEF AccountsInv, CredentialsInv, AuthSettled, DeletionPass, Maps,
        Past, Removing, Deletion, providers, consumer, removal
<1>1. CASE StartChange
  BY <1>1 DEF StartChange
<1>2. CASE RemoveAllFromComponents
  BY <1>2 DEF RemoveAllFromComponents
<1>3. CASE RemoveAnnotation
  BY <1>3 DEF RemoveAnnotation
<1>4. CASE EnsureAuthRegistration
  <2>1. /\ pc = "auth" /\ pc' \in {"read", "idle"}
        /\ UNCHANGED <<cas, valid, made, status, restored, at, whole, problem>>
        /\ \A a \in Accounts \ cas : creds'[a] = creds[a]
    BY <1>4, EnsureEffect
  <2>2. status = "live" /\ cas # {} /\ AuthSettled' =>
          authReg' = "completed" /\ \A a \in cas : creds'[a] = valid[a]
    BY <1>4, <2>1, EnsureOutcome
  <2>3. QED
    BY <2>1, <2>2
<1>5. CASE ReadConfig
  BY <1>5 DEF ReadConfig
<1>6. CASE CreateAccount
  BY <1>6, CreateEffect DEF Advance, CopyInv
<1>7. CASE StoreCredentials
  BY <1>7, StoreEffect DEF CopyInv
<1>8. CASE FinishChange
  BY <1>8, Zenon DEF FinishChange
<1>9. CASE RemoveAuthRegistration
  BY <1>9, Zenon DEF RemoveAuthRegistration
<1>10. CASE FetchConfig
  BY <1>10, Zenon DEF FetchConfig
<1>11. CASE RemoveAccount
  <2>1. /\ pc = "remove"
        /\ UNCHANGED <<cas, creds, restored, status, authReg, whole>>
        /\ valid' \in {valid, [valid EXCEPT ![at] = 0]}
        /\ Advance(at, "removed") \/ (pc' = "forget" /\ at' = at)
    BY <1>11, RemoveEffect, Zenon
  <2>2. ~problem' => ~problem
    BY <1>11, RemoveEffect, Zenon
  <2>3. at \in DoguAccounts /\ ~whole => valid' = valid
    BY <1>11, Zenon DEF RemoveAccount
  <2>4. at \in Components /\ ~problem' /\ ~whole /\ pc' # "forget" => cfg[at] = 0
    BY <1>11, RemoveEffect, Zenon
  <2>5. cfg[at] = creds[at]
    BY <2>1 DEF CopyInv
  <2>6. ASSUME ~whole', ~problem', NEW a \in Components, a < at' \/ pc' = "removed"
        PROVE  creds'[a] = 0
    <3>1. a < at \/ (a = at /\ pc' # "forget")
      BY <2>1, <2>6 DEF Advance
    <3>2. QED
      BY <2>1, <2>2, <2>4, <2>5, <2>6, <3>1
  <2>7. status = "live" =>
          \A a \in Accounts : a \in DoguAccounts \/ ~restored => valid'[a] = valid[a]
    BY <2>1, <2>3 DEF DeletionInv
  <2>8. pc' \in Removing
    BY <2>1 DEF Advance
  <2>9. QED
    BY <2>1, <2>6, <2>7, <2>8, Zenon
<1>12. CASE ForgetCredentials
  <2>1. /\ pc = "forget"
        /\ UNCHANGED <<cas, valid, restored, status, authReg, whole>>
        /\ cfg' = [cfg EXCEPT ![at] = 0]
        /\ \/ at + 1 \in Accounts /\ pc' = "remove" /\ at' = at + 1
           \/ at + 1 \notin Accounts /\ pc' = "removed" /\ at' = at
    BY <1>12, ForgetEffect, Zenon
  <2>2. ~problem' => ~problem /\ creds' = cfg'
    BY <1>12, ForgetEffect, Zenon
  <2>3. creds' \in {cfg', creds}
    BY <1>12, ForgetEffect, Zenon
  <2>4. \A a \in Accounts : cfg[a] # 0 => creds[a] = cfg[a]
    BY <2>1 DEF CopyInv
  <2>5. \A a \in Accounts : creds'[a] = 0 \/ creds'[a] = creds[a]
    BY <2>1, <2>3, <2>4
  <2>6. QED
    BY <2>1, <2>2, <2>5
<1>13. CASE AccountsRemoved
  BY <1>13, Zenon DEF AccountsRemoved, PassFails
<1>14. CASE DeleteOutOfHealthConfigMap
  BY <1>14, Zenon DEF DeleteOutOfHealthConfigMap
<1>15. CASE RemoveSensitiveConfig
  BY <1>15, Zenon DEF RemoveSensitiveConfig, DeletionInv
<1>16. CASE RemoveFinalizer
  BY <1>16 DEF RemoveFinalizer
<1>17. CASE StepFails
  BY <1>17, Zenon DEF StepFails, PassFails
<1>18. CASE Crash
  BY <1>18, Zenon DEF Crash
<1>19. CASE DeleteDogu
  BY <1>19, Zenon DEF DeleteDogu
<1>20. CASE AuthRegistrationCompleted
  BY <1>20, Zenon DEF AuthRegistrationCompleted
<1>21. ASSUME NEW a \in Accounts,
              \/ ProviderUp(a) \/ ProviderDown(a) \/ ProviderGone(a)
              \/ RetroactiveServiceAccount(a)
       PROVE  CredentialsInv'
  <2>1. ~ProviderGone(a)
    BY Zenon DEF ProviderGone
  <2>2. UNCHANGED <<cas, valid, made, creds, status, restored, authReg, pc, at,
                    whole, problem>>
    BY <1>21, <2>1, Zenon DEF ProviderUp, ProviderDown, RetroactiveServiceAccount
  <2>3. queued => queued'
    BY <1>21, <2>1, Zenon DEF ProviderUp, ProviderDown, RetroactiveServiceAccount
  <2>4. QED
    BY <2>2, <2>3, Zenon
<1>22. CASE UNCHANGED vars
  BY <1>22, Zenon DEF vars
<1>23. QED
  BY <1>1, <1>2, <1>3, <1>4, <1>5, <1>6, <1>7, <1>8, <1>9, <1>10, <1>11,
     <1>12, <1>13, <1>14, <1>15, <1>16, <1>17, <1>18, <1>19, <1>20, <1>21,
     <1>22, Zenon
  DEF Next, Pass

-----------------------------------------------------------------------------
(* Theorems.                                                                  *)

\* A new dogu and a restored one start with both invariants.
LEMMA AccountsInit == Init => AccountsInv /\ CredentialsInv
<1> SUFFICES ASSUME Init PROVE AccountsInv /\ CredentialsInv
  OBVIOUS
<1>1. PICK kept \in SUBSET Accounts :
        \E other \in SUBSET (kept \cap Components) :
            /\ kept # {} => restored
            /\ \A a \in kept \ cas : provider[a] = "ready"
            /\ creds = [a \in Accounts |-> IF a \in kept THEN 1 ELSE 0]
            /\ made = [a \in Accounts |-> IF a \in other THEN 2 ELSE creds[a]]
            /\ valid = [a \in Accounts |->
                          IF a \in other \cup (DoguAccounts \ cas)
                          THEN made[a] ELSE 0]
  BY Zenon DEF Init
<1>2. Maps
  BY <1>1 DEF Init, Maps, None
<1>3. Flags
  BY AccountsAssumption, Zenon DEF Init, Flags
<1>4. Steps
  BY AccountNumbers, AccountsAssumption DEF Init, Steps
<1>5. TypeOK
  BY <1>2, <1>3, <1>4, Zenon DEF TypeOK, Flags, Maps, Steps
<1>6. DeletionInv /\ CopyInv
  BY DEF Init, DeletionInv, DeletionPass, Deletion, Removing, GoneMeansClean,
     CopyInv
<1>7. RemovedInv
  <2>1. \A a \in Accounts : provider[a] = "absent" => valid[a] = 0
    <3>1. SUFFICES ASSUME NEW a \in Accounts, a \notin kept \ cas PROVE valid[a] = 0
      BY <1>1, Zenon
    <3>2. a \in cas => a \notin Components
      BY <1>5, AccountFacts, AccountsAssumption, Zenon DEF TypeOK
    <3>3. QED
      BY <1>1, <3>1, <3>2
  <2>2. QED
    BY <2>1 DEF Init, RemovedInv, Removing
<1>8. CredentialsInv
  <2>1. ~AuthSettled
    BY DEF Init, AuthSettled
  <2>2. \A a \in Accounts \ cas :
          creds[a] # 0 /\ (a \in DoguAccounts \/ ~restored) => creds[a] = valid[a]
    <3>1. SUFFICES ASSUME NEW a \in Accounts \ cas, a \in kept, a \in DoguAccounts
                   PROVE  creds[a] = valid[a]
      BY <1>1
    <3>2. a \notin Components
      BY <1>5, <3>1, AccountFacts
    <3>3. QED
      BY <1>1, <3>1, <3>2
  <2>3. QED
    BY <2>1, <2>2, Zenon DEF Init, CredentialsInv, Removing
<1>9. QED
  BY <1>5, <1>6, <1>7, <1>8 DEF AccountsInv

\* AccountsInv holds in every state: it is inductive.
THEOREM AccountsInvariance == Spec => []AccountsInv
<1>1. Init => AccountsInv
  BY AccountsInit
<1>2. AccountsInv /\ [Next]_vars => AccountsInv'
  BY AccountsTypeStep, DeletionStep, CopyStep, RemovedStep DEF AccountsInv
<1>3. QED
  BY <1>1, <1>2, PTL DEF Spec

\* The shape of the state is kept.
THEOREM AccountsTypes == Spec => []TypeOK
<1>1. AccountsInv => TypeOK
  BY DEF AccountsInv
<1>2. QED
  BY AccountsInvariance, <1>1, PTL

\* When the dogu resource is gone, config, auth registration and health entry
\* are gone, whatever failed in the passes of the deletion.
THEOREM GoneIsClean == Spec => []GoneMeansClean
<1>1. AccountsInv => GoneMeansClean
  BY DEF AccountsInv, DeletionInv
<1>2. QED
  BY AccountsInvariance, <1>1, PTL

\* The stored credentials of a live dogu are the ones the provider accepts, if
\* no provider is uninstalled.
THEOREM CredentialsStayValid ==
    ASSUME Removable = {}
    PROVE  Spec => []CredentialsValid
<1>1. Init => AccountsInv /\ CredentialsInv
  BY AccountsInit
<1>2. AccountsInv /\ CredentialsInv /\ [Next]_vars => (AccountsInv /\ CredentialsInv)'
  BY AccountsTypeStep, DeletionStep, CopyStep, RemovedStep, CredentialsStep
  DEF AccountsInv
<1>3. CredentialsInv => CredentialsValid
  BY DEF CredentialsInv, CredentialsValid, Relied
<1>4. QED
  BY <1>1, <1>2, <1>3, PTL DEF Spec

\* No credentials are dropped before their account is gone: not by a removal
\* that meets problems, nor by the removal of the whole config.
THEOREM ForgetsOnceRemoved == Spec => ForgottenOnceRemoved
<1>1. AccountsInv /\ [Next]_vars =>
        [\A a \in Accounts : creds[a] # 0 /\ creds'[a] = 0 => valid[a] = 0]_vars
  <2> SUFFICES ASSUME AccountsInv, Next, NEW a \in Accounts,
                      creds[a] # 0, creds'[a] = 0
               PROVE  valid[a] = 0
    BY Zenon DEF vars
  <2> USE AccountFacts DEF AccountsInv, Maps
  <2>1. CASE EnsureAuthRegistration
    BY <2>1, EnsureEffect
  <2>2. CASE StoreCredentials
    <3>1. /\ pc = "store" /\ cfg' = [cfg EXCEPT ![at] = made[at]]
          /\ creds' \in {cfg', creds}
      BY <2>2, StoreEffect, Zenon
    <3>2. QED
      BY <3>1 DEF CopyInv
  <2>3. CASE ForgetCredentials
    <3>1. /\ pc = "forget" /\ cfg' = [cfg EXCEPT ![at] = 0]
          /\ creds' \in {cfg', creds}
      BY <2>3, ForgetEffect, Zenon
    <3>2. QED
      BY <3>1 DEF CopyInv
  <2>4. CASE RemoveSensitiveConfig
    BY <2>4, Zenon DEF RemoveSensitiveConfig, RemovedInv
  <2>5. CASE /\ ~EnsureAuthRegistration /\ ~StoreCredentials
             /\ ~ForgetCredentials /\ ~RemoveSensitiveConfig
    <3>1. creds' = creds
      BY <2>5, Zenon DEF Next, Pass, StartChange, RemoveAllFromComponents,
         RemoveAnnotation, ReadConfig, CreateAccount, FinishChange,
         RemoveAuthRegistration, FetchConfig, RemoveAccount, AccountsRemoved,
         DeleteOutOfHealthConfigMap, RemoveFinalizer, StepFails, Crash,
         DeleteDogu, AuthRegistrationCompleted, ProviderUp, ProviderDown,
         ProviderGone, RetroactiveServiceAccount
    <3>2. QED
      BY <3>1
  <2>6. QED
    BY <2>1, <2>2, <2>3, <2>4, <2>5
<1>2. QED
  BY <1>1, AccountsInvariance, PTL DEF Spec, ForgottenOnceRemoved
=============================================================================
