-------------------------- MODULE DoguRestartProofs --------------------------
(* A restart is completed only after the dogu was reported stopped and then   *)
(* started, and the history of restarts is kept within its limits, newest     *)
(* first, for every number of restarts, edits and faults and every limit.     *)
EXTENDS DoguRestart, FiniteSetTheorems, WellFoundedInduction, TLAPS

USE DEF worker, dogu, doguController

\* The invariant without its type part.
Progress ==
    LET Down == {"Stopped", "FailedStart", "Starting"} IN
    /\ \A r \in queue : phase[r] # "none"
    /\ pc # "idle" => cur \in Restarts /\ phase[cur] \notin Gone
    /\ \A r \in Restarts : phase[r] \in Down => reported \/ r \in restarted
    /\ pc = "start" \/ (pc = "update" /\ target \in Down) =>
           reported \/ cur \in restarted
    /\ pc = "update" /\ target = "Completed" => cur \in restarted
    /\ CompletedMeansRestarted

\* The shape of the state is kept by every step of either controller, of the
\* user and of a fault.
LEMMA RestartTypeStep ==
    ASSUME RestartInv, [Next]_vars
    PROVE  TypeOK'
<1> USE RestartAssumption DEF RestartInv, TypeOK, Fault, Phases, Failed, Gone, Write
<1>1. CASE UNCHANGED vars
  BY <1>1 DEF vars
<1>2. ASSUME NEW r \in Restarts, Take(r) PROVE TypeOK'
  <2>1. pc' \in {"idle", "stop", "start", "update", "gc"}
    BY <1>2, Zenon DEF Take
  <2>2. target' \in Phases
    BY <1>2, Zenon DEF Take
  <2>3. cur' \in Restarts \cup {0} /\ queue' \subseteq Restarts
    BY <1>2 DEF Take
  <2>4. faults' \in 0..MaxFaults
    BY <1>2 DEF Take
  <2>5. UNCHANGED <<phase, dogu, doguController, restarted, edits>>
    BY <1>2 DEF Take
  <2> QED BY <2>1, <2>2, <2>3, <2>4, <2>5
<1>3. CASE UpdateDoguSpecStopped
  <2>1. stopped' \in BOOLEAN /\ doguQueued' \in BOOLEAN
    BY <1>3, Zenon DEF UpdateDoguSpecStopped
  <2> QED BY <1>3, <2>1 DEF UpdateDoguSpecStopped
<1>4. CASE UpdatePhase
  BY <1>4 DEF UpdatePhase
<1>5. CASE DoGarbageCollection
  <2> DEFINE old == Truncated({"Completed"}, SuccessfulLimit)
                        \cup Truncated(Failed, FailedLimit)
  <2>1. old \subseteq Restarts
    BY DEF Truncated, With
  <2> HIDE DEF old
  <2>2. PICK done \in SUBSET old :
            /\ phase' = [r \in Restarts |->
                            IF r \in done THEN "deleted" ELSE phase[r]]
            /\ queue' \subseteq queue \cup done \cup {cur}
    BY <1>5, Zenon DEF DoGarbageCollection, old
  <2>3. phase' \in [Restarts -> Phases \cup Gone]
    BY <2>2
  <2>4. queue' \subseteq Restarts
    BY <1>5, <2>1, <2>2 DEF DoGarbageCollection
  <2>5. faults' \in 0..MaxFaults /\ pc' = "idle"
    BY <1>5 DEF DoGarbageCollection
  <2> QED BY <1>5, <2>3, <2>4, <2>5 DEF DoGarbageCollection
<1>6. CASE PassStarts
  <2>1. UNCHANGED <<phase, queue, pc, cur, target, exists, stopped, reported,
                    replicas, restarted, edits, faults>>
    BY <1>6 DEF PassStarts
  <2>2. doguQueued' \in BOOLEAN /\ copy' \in BOOLEAN /\ pass' = "startStop"
    BY <1>6, Zenon DEF PassStarts
  <2> QED BY <2>1, <2>2
<1>7. CASE Scale
  <2>1. replicas' \in {0, 1} /\ pass' \in {"idle", "startStop", "scaled", "later"}
    BY <1>7, Zenon DEF Scale
  <2>2. doguQueued' \in BOOLEAN
    BY <1>7, Zenon DEF Scale
  <2> QED BY <1>7, <2>1, <2>2 DEF Scale
<1>8. CASE ReportStopped
  BY <1>8 DEF ReportStopped
<1>9. CASE RegenerateDeployment
  <2>1. doguQueued' \in BOOLEAN
    BY <1>9, Zenon DEF RegenerateDeployment
  <2> QED BY <1>9, <2>1 DEF RegenerateDeployment
<1>10. ASSUME NEW r \in Restarts, CreateRestart(r) PROVE TypeOK'
  BY <1>10 DEF CreateRestart
<1>11. CASE EditStopped
  BY <1>11 DEF EditStopped
<1>12. CASE DoguEvent
  BY <1>12 DEF DoguEvent
<1>13. CASE DeleteDogu
  <2>1. UNCHANGED <<phase, queue, pc, cur, target, stopped, reported, replicas,
                    copy, restarted, edits, faults>>
    BY <1>13 DEF DeleteDogu
  <2>2. exists' \in BOOLEAN /\ doguQueued' \in BOOLEAN /\ pass' = "idle"
    BY <1>13, Zenon DEF DeleteDogu
  <2> QED BY <2>1, <2>2
<1>14. CASE Crash
  BY <1>14 DEF Crash
<1> QED
  BY <1>1, <1>2, <1>3, <1>4, <1>5, <1>6, <1>7, <1>8, <1>9, <1>10, <1>11,
     <1>12, <1>13, <1>14 DEF Next, RestartController, DoguController

\* What the phases and the pending write say about the dogu's status survives
\* every step, in particular the report of the other controller.
LEMMA ProgressStep ==
    ASSUME RestartInv, [Next]_vars, TypeOK'
    PROVE  Progress'
<1> USE RestartAssumption DEF RestartInv, TypeOK, Progress, CompletedMeansRestarted,
        Gone, Write
<1>1. CASE UNCHANGED vars
  BY <1>1 DEF vars
<1>2. ASSUME NEW r \in Restarts, Take(r) PROVE Progress'
  <2>1. UNCHANGED <<phase, reported, restarted>> /\ queue' \subseteq queue
    BY <1>2 DEF Take
  <2>2. pc' # "idle" => cur' = r /\ phase[r] \notin Gone
    BY <1>2 DEF Take, RestartOperation
  <2>3. pc' = "start" => phase[r] \in {"Stopped", "FailedStart"}
    BY <1>2 DEF Take, RestartOperation
  <2>4. pc' = "update" /\ target' \in {"Stopped", "FailedStart", "Starting"} =>
            reported
    BY <1>2 DEF Take
  <2>5. pc' = "update" /\ target' = "Completed" =>
            ~reported /\ phase[r] = "Starting"
    BY <1>2, Zenon DEF Take, RestartOperation
  <2> QED BY <2>1, <2>2, <2>3, <2>4, <2>5
<1>3. CASE UpdateDoguSpecStopped
  BY <1>3 DEF UpdateDoguSpecStopped
<1>4. CASE UpdatePhase
  BY <1>4 DEF UpdatePhase, Phases, Failed
<1>5. CASE DoGarbageCollection
  BY <1>5 DEF DoGarbageCollection
<1>6. CASE PassStarts
  BY <1>6 DEF PassStarts
<1>7. CASE Scale
  BY <1>7 DEF Scale
<1>8. CASE ReportStopped
  BY <1>8 DEF ReportStopped
<1>9. CASE RegenerateDeployment
  BY <1>9 DEF RegenerateDeployment
<1>10. ASSUME NEW r \in Restarts, CreateRestart(r) PROVE Progress'
  BY <1>10 DEF CreateRestart
<1>11. CASE EditStopped
  BY <1>11 DEF EditStopped
<1>12. CASE DoguEvent
  BY <1>12 DEF DoguEvent
<1>13. CASE DeleteDogu
  BY <1>13 DEF DeleteDogu
<1>14. CASE Crash
  BY <1>14 DEF Crash
<1> QED
  BY <1>1, <1>2, <1>3, <1>4, <1>5, <1>6, <1>7, <1>8, <1>9, <1>10, <1>11,
     <1>12, <1>13, <1>14 DEF Next, RestartController, DoguController

\* RestartInv holds in every reachable state.
THEOREM RestartInvariance == Spec => []RestartInv
<1>1. Init => RestartInv
  <2> SUFFICES ASSUME Init PROVE RestartInv
    OBVIOUS
  <2>1. TypeOK
    <3>1. phase \in [Restarts -> Phases \cup Gone] /\ target \in Phases
      BY DEF Init, Phases, Gone
    <3>2. edits \in 0..MaxEdits /\ faults \in 0..MaxFaults
      BY RestartAssumption DEF Init
    <3>3. exists \in BOOLEAN /\ stopped \in BOOLEAN /\ reported \in BOOLEAN
              /\ doguQueued \in BOOLEAN /\ copy \in BOOLEAN
      BY Zenon DEF Init
    <3> QED BY <3>1, <3>2, <3>3 DEF Init, TypeOK
  <2>2. CompletedMeansRestarted
    BY DEF Init, CompletedMeansRestarted
  <2> QED BY <2>1, <2>2 DEF Init, RestartInv
<1>2. RestartInv /\ [Next]_vars => RestartInv'
  <2> SUFFICES ASSUME RestartInv, [Next]_vars PROVE RestartInv'
    OBVIOUS
  <2>1. TypeOK'
    BY RestartTypeStep
  <2>2. Progress'
    BY <2>1, ProgressStep
  <2> QED BY <2>1, <2>2 DEF RestartInv, Progress
<1> QED BY <1>1, <1>2, PTL DEF Spec

\* A restart is marked Completed only if the dogu's controller has reported,
\* since the restart was created, that the dogu was started after it had been
\* reported stopped (checkStartStop).
THEOREM CompletionIsRestart == Spec => []CompletedMeansRestarted
<1>1. RestartInv => CompletedMeansRestarted
  BY DEF RestartInv
<1> QED BY <1>1, RestartInvariance, PTL

\* The state always has its shape, whatever the bounds.
THEOREM RestartTypes == Spec => []TypeOK
<1>1. RestartInv => TypeOK
  BY DEF RestartInv
<1> QED BY <1>1, RestartInvariance, PTL

-----------------------------------------------------------------------------
(* The history of restarts: what garbage collection keeps.                    *)

\* A non-empty set of numbers has a least one.
LEMMA Least ==
    ASSUME NEW T \in SUBSET Nat, T # {}
    PROVE  \E x \in T : \A y \in T : x <= y
<1> DEFINE R == {p \in Nat \X Nat : p[1] < p[2]}
<1>1. IsWellFoundedOn(R, Nat)
  BY NatLessThanWellFounded DEF OpToRel
<1> HIDE DEF R
<1>2. PICK x \in T : \A y \in T : <<y, x>> \notin R
  BY <1>1, WFMin, Zenon
<1>3. \A y \in T : x <= y
  <2> TAKE y \in T
  <2>1. <<y, x>> \notin R
    BY <1>2
  <2>2. ~(y < x)
    BY <2>1 DEF R
  <2> QED BY <2>2
<1> QED BY <1>3

\* A non-empty set of numbers up to n has a greatest one.
LEMMA Greatest ==
    ASSUME NEW n \in Nat, NEW T \in SUBSET (1..n), T # {}
    PROVE  \E x \in T : \A y \in T : y <= x
<1> DEFINE D == {d \in Nat : n - d \in T}
<1>1. D # {}
  <2>1. PICK t \in T : TRUE
    BY Zenon
  <2>2. n - t \in D
    OBVIOUS
  <2> QED BY <2>2, Zenon
<1>2. PICK d \in D : \A e \in D : d <= e
  <2> HIDE DEF D
  <2>1. D \in SUBSET Nat
    BY DEF D
  <2> QED BY <1>1, <2>1, Least
<1>3. \A y \in T : y <= n - d
  <2> TAKE y \in T
  <2>1. n - y \in D
    OBVIOUS
  <2> QED BY <1>2, <2>1
<1> QED BY <1>2, <1>3

\* Of a set of restarts, those with fewer than n newer ones: at most n.
LEMMA NewestAtMost ==
    ASSUME NEW m \in Nat, NEW S \in SUBSET (1..m), NEW n \in Nat,
           NEW K, K = {r \in S : ~(Cardinality({s \in S : s > r}) >= n)}
    PROVE  Cardinality(K) <= n
<1>1. IsFiniteSet(S) /\ S \subseteq Nat
  <2>1. IsFiniteSet(1..m)
    BY FS_Interval
  <2>2. IsFiniteSet(S)
    BY <2>1, FS_Subset, Zenon
  <2> QED BY <2>2
<1>2. CASE K = {}
  <2>1. Cardinality(K) = 0
    BY <1>2, FS_EmptySet, Zenon
  <2> QED BY <2>1
<1>3. CASE K # {}
  <2>1. PICK x \in K : \A y \in K : x <= y
    <3>1. K \in SUBSET Nat
      BY <1>1, Zenon
    <3> QED BY <1>3, <3>1, Least, Zenon
  <2> DEFINE newer == {s \in S : s > x}
  <2>2. IsFiniteSet(newer) /\ Cardinality(newer) \in Nat
    BY <1>1, FS_Subset, FS_CardinalityType
  <2>3. K \subseteq newer \cup {x}
    <3> SUFFICES ASSUME NEW y \in K, y # x PROVE y \in newer
      BY Zenon
    <3>1. x \in Nat /\ y \in Nat /\ x <= y
      BY <1>1, <2>1
    <3> QED BY <3>1
  <2>4. ~(Cardinality(newer) >= n) /\ x \notin newer
    BY <2>1
  <2> HIDE DEF newer
  <2>5. IsFiniteSet(newer \cup {x})
            /\ Cardinality(newer \cup {x}) = Cardinality(newer) + 1
    BY <2>2, <2>4, FS_AddElement
  <2>6. Cardinality(K) <= Cardinality(newer \cup {x}) /\ IsFiniteSet(K)
    BY <2>3, <2>5, FS_Subset, Zenon
  <2>7. Cardinality(K) \in Nat
    BY <2>6, FS_CardinalityType
  <2> QED BY <2>2, <2>4, <2>5, <2>6, <2>7
<1> QED BY <1>2, <1>3

\* If one has n newer ones, then n of the newer ones have fewer than n.
LEMMA NewestAtLeast ==
    ASSUME NEW m \in Nat, NEW S \in SUBSET (1..m), NEW n \in Nat,
           NEW r \in S, Cardinality({s \in S : s > r}) >= n,
           NEW K, K = {t \in S : t > r /\ ~(Cardinality({s \in S : s > t}) >= n)}
    PROVE  IsFiniteSet(K) /\ Cardinality(K) >= n
<1> DEFINE Many(t) == Cardinality({s \in S : s > t}) >= n
           T == {t \in S : t >= r /\ Many(t)}
<1>1. IsFiniteSet(S) /\ S \subseteq Nat
  <2>1. IsFiniteSet(1..m)
    BY FS_Interval
  <2>2. IsFiniteSet(S)
    BY <2>1, FS_Subset, Zenon
  <2> QED BY <2>2
<1>2. PICK x \in T : \A y \in T : y <= x
  <2>1. r \in T
    BY <1>1
  <2>2. T \in SUBSET (1..m)
    BY Zenon
  <2> HIDE DEF T
  <2> QED BY <2>1, <2>2, Greatest, Zenon
<1>3. {s \in S : s > x} \subseteq K
  <2> SUFFICES ASSUME NEW y \in S, y > x PROVE y \in K
    BY Zenon
  <2>1. x \in Nat /\ y \in Nat /\ r \in Nat /\ x >= r
    BY <1>1, <1>2
  <2>2. y \notin T
    BY <1>2, <2>1
  <2> QED BY <2>1, <2>2
<1>4. K \in SUBSET S
  OBVIOUS
<1>5. IsFiniteSet(K) /\ Cardinality(K) \in Nat
  BY <1>1, <1>4, FS_Subset, FS_CardinalityType, Zenon
<1>6. Cardinality({s \in S : s > x}) <= Cardinality(K)
  BY <1>3, <1>5, FS_Subset, Zenon
<1>7. Cardinality({s \in S : s > x}) \in Nat
  BY <1>1, FS_Subset, FS_CardinalityType
<1>8. Many(x)
  BY <1>2
<1> QED BY <1>5, <1>6, <1>7, <1>8

\* The restarts of a kind are finitely many.
LEMMA WithFinite ==
    ASSUME NEW P
    PROVE  With(P) \in SUBSET (1..MaxRestarts) /\ IsFiniteSet(With(P))
<1>1. IsFiniteSet(1..MaxRestarts)
  BY RestartAssumption, FS_Interval
<1>2. With(P) \in SUBSET (1..MaxRestarts)
  BY DEF With, Restarts
<1> QED BY <1>1, <1>2, FS_Subset, Zenon

\* If no restart of a kind is added to those that wait for no reconciliation,
\* their number stays within the limit of the kind.
LEMMA FewerSettled ==
    ASSUME NEW P, NEW n \in Nat, Cardinality(With(P) \ Waiting) <= n,
           With(P)' \ Waiting' \subseteq With(P) \ Waiting
    PROVE  Cardinality(With(P)' \ Waiting') <= n
<1>1. IsFiniteSet(With(P) \ Waiting)
  BY WithFinite, FS_Subset
<1>2. IsFiniteSet(With(P)' \ Waiting')
          /\ Cardinality(With(P)' \ Waiting') <= Cardinality(With(P) \ Waiting)
  BY <1>1, FS_Subset
<1> QED BY <1>1, <1>2, FS_CardinalityType

\* A garbage collection that deletes all it is to delete leaves no more of a
\* kind than the limit, so no more of them wait for nothing.
LEMMA CollectedWithinLimit ==
    ASSUME NEW P, NEW n \in Nat,
           With(P)' \subseteq With(P) \ Truncated(P, n)
    PROVE  Cardinality(With(P)' \ Waiting') <= n
<1> DEFINE S == With(P)
           K == {r \in S : ~(Cardinality({s \in S : s > r}) >= n)}
<1>1. S \in SUBSET (1..MaxRestarts) /\ IsFiniteSet(S)
  BY WithFinite
<1>2. With(P)' \ Waiting' \subseteq K
  BY DEF Truncated
<1>3. Cardinality(K) <= n
  <2> HIDE DEF S
  <2> QED BY <1>1, RestartAssumption, NewestAtMost, Zenon
<1>4. K \in SUBSET S
  OBVIOUS
<1> HIDE DEF S, K
<1>5. IsFiniteSet(K)
  BY <1>1, <1>4, FS_Subset, Zenon
<1>6. IsFiniteSet(With(P)' \ Waiting')
          /\ Cardinality(With(P)' \ Waiting') <= Cardinality(K)
  BY <1>2, <1>5, FS_Subset
<1> QED BY <1>3, <1>5, <1>6, FS_CardinalityType

\* Every step but a garbage collection keeps the restarts that wait for no
\* reconciliation among those that did so before: a restart whose phase is
\* written is queued, and one in hand is requeued when a call fails.
LEMMA SettledStep ==
    ASSUME RestartInv, [Next]_vars, NEW P, P \in {{"Completed"}, Failed},
           ~DoGarbageCollection
    PROVE  With(P)' \ Waiting' \subseteq With(P) \ Waiting
<1> USE DEF Waiting, With
<1>0. "New" \notin P /\ "deleted" \notin P /\ "none" \notin P
  BY DEF Failed
<1>1. CASE UNCHANGED vars
  BY <1>1 DEF vars
<1>2. ASSUME NEW r \in Restarts, Take(r)
      PROVE  With(P)' \ Waiting' \subseteq With(P) \ Waiting
  <2>1. UNCHANGED phase
    BY <1>2 DEF Take
  <2>2. pc = "idle" /\ queue \ {r} = queue'
    BY <1>2 DEF Take
  <2>3. phase[r] = "deleted" \/ (pc' # "idle" /\ cur' = r)
    BY <1>2 DEF Take, Write
  <2> QED BY <1>0, <2>1, <2>2, <2>3
<1>3. CASE UpdateDoguSpecStopped
  BY <1>3 DEF UpdateDoguSpecStopped, Write
<1>4. CASE UpdatePhase
  <2>1. cur \in Restarts /\ phase \in [Restarts -> Phases \cup Gone]
    BY <1>4 DEF UpdatePhase, RestartInv, TypeOK
  <2>2. \A r \in Restarts : r # cur => phase'[r] = phase[r]
    BY <1>4, <2>1 DEF UpdatePhase
  <2>3. queue \subseteq queue' /\ cur' = cur /\ (cur \in queue' \/ pc' = "gc")
    BY <1>4 DEF UpdatePhase
  <2>4. pc = "update"
    BY <1>4 DEF UpdatePhase
  <2> QED BY <2>2, <2>3, <2>4
<1>5. CASE DoguController
  BY <1>5 DEF DoguController, PassStarts, Scale, ReportStopped, RegenerateDeployment
<1>6. ASSUME NEW r \in Restarts, CreateRestart(r)
      PROVE  With(P)' \ Waiting' \subseteq With(P) \ Waiting
  BY <1>0, <1>6 DEF CreateRestart, RestartInv, TypeOK
<1>7. CASE EditStopped \/ DoguEvent \/ DeleteDogu
  BY <1>7 DEF EditStopped, DoguEvent, DeleteDogu
<1>8. CASE Crash
  <2>1. UNCHANGED phase /\ queue' = queue \cup {r \in Restarts : phase[r] \notin Gone}
    BY <1>8 DEF Crash
  <2>2. With(P)' \subseteq Waiting'
    BY <1>0, <2>1 DEF Gone
  <2> QED BY <2>2
<1> QED
  BY <1>1, <1>2, <1>3, <1>4, <1>5, <1>6, <1>7, <1>8
     DEF Next, RestartController

\* The restarts beyond the limits.
Expired == Truncated({"Completed"}, SuccessfulLimit)
               \cup Truncated(Failed, FailedLimit)

\* What garbage collection does: it deletes some restarts beyond the limits,
\* and all of them unless it fails and requeues the restart in hand.
LEMMA CollectionEffect ==
    ASSUME DoGarbageCollection
    PROVE  \E done \in SUBSET Expired :
              /\ phase' = [r \in Restarts |->
                              IF r \in done THEN "deleted" ELSE phase[r]]
              /\ done = Expired \/ queue' = queue \cup done \cup {cur}
              /\ cur' = cur /\ pc' = "idle"
<1>1. CASE UNCHANGED faults /\ phase' = [r \in Restarts |->
                              IF r \in Expired THEN "deleted" ELSE phase[r]]
  <2>1. cur' = cur /\ pc' = "idle"
    BY DEF DoGarbageCollection
  <2> QED BY <1>1, <2>1
<1>2. CASE \E done \in SUBSET Expired :
              /\ phase' = [r \in Restarts |->
                              IF r \in done THEN "deleted" ELSE phase[r]]
              /\ queue' = queue \cup done \cup {cur}
  <2>1. cur' = cur /\ pc' = "idle"
    BY DEF DoGarbageCollection
  <2> QED BY <1>2, <2>1
<1> QED BY <1>1, <1>2 DEF DoGarbageCollection, Expired

\* Garbage collection keeps each kind within its limit, or requeues.
LEMMA CollectionStep ==
    ASSUME RestartInv, HistoryInv, DoGarbageCollection,
           NEW P, NEW n \in Nat,
           (P = {"Completed"} /\ n = SuccessfulLimit)
               \/ (P = Failed /\ n = FailedLimit)
    PROVE  Cardinality(With(P)' \ Waiting') <= n
<1>0. "deleted" \notin P
  BY DEF Failed
<1>1. PICK done \in SUBSET Expired :
          /\ phase' = [r \in Restarts |->
                          IF r \in done THEN "deleted" ELSE phase[r]]
          /\ done = Expired \/ queue' = queue \cup done \cup {cur}
          /\ cur' = cur /\ pc' = "idle"
  BY CollectionEffect
<1>2. With(P)' \subseteq With(P) \ done
  BY <1>0, <1>1 DEF With
<1>3. CASE done = Expired
  <2>1. Truncated(P, n) \subseteq done
    BY <1>3 DEF Expired
  <2>2. With(P)' \subseteq With(P) \ Truncated(P, n)
    BY <1>2, <2>1
  <2> QED BY <2>2, CollectedWithinLimit
<1>4. CASE queue' = queue \cup done \cup {cur}
  <2>1. Waiting \subseteq Waiting'
    BY <1>1, <1>4 DEF Waiting
  <2>2. Cardinality(With(P) \ Waiting) <= n
    BY DEF HistoryInv
  <2> QED BY <1>2, <2>1, <2>2, FewerSettled
<1> QED BY <1>1, <1>3, <1>4

\* HistoryInv holds in every reachable state.
THEOREM HistoryInvariance == Spec => []HistoryInv
<1>1. Init => HistoryInv
  <2> SUFFICES ASSUME Init PROVE HistoryInv
    OBVIOUS
  <2>1. With({"Completed"}) \ Waiting = {} /\ With(Failed) \ Waiting = {}
    BY DEF Init, With, Failed
  <2>2. Cardinality({}) = 0
    BY FS_EmptySet
  <2> QED BY <2>1, <2>2, RestartAssumption DEF HistoryInv
<1>2. RestartInv /\ HistoryInv /\ [Next]_vars => HistoryInv'
  <2> SUFFICES ASSUME RestartInv, HistoryInv, [Next]_vars PROVE HistoryInv'
    OBVIOUS
  <2>1. ASSUME NEW P, NEW n \in Nat,
               (P = {"Completed"} /\ n = SuccessfulLimit)
                   \/ (P = Failed /\ n = FailedLimit)
        PROVE  Cardinality(With(P)' \ Waiting') <= n
    <3>1. CASE DoGarbageCollection
      BY <2>1, <3>1, CollectionStep
    <3>2. CASE ~DoGarbageCollection
      <4>1. Cardinality(With(P) \ Waiting) <= n
        BY <2>1 DEF HistoryInv
      <4>2. With(P)' \ Waiting' \subseteq With(P) \ Waiting
        BY <2>1, <3>2, SettledStep
      <4> QED BY <4>1, <4>2, FewerSettled
    <3> QED BY <3>1, <3>2
  <2>2. Cardinality(With({"Completed"})' \ Waiting') <= SuccessfulLimit
    BY <2>1, RestartAssumption
  <2>3. Cardinality(With(Failed)' \ Waiting') <= FailedLimit
    BY <2>1, RestartAssumption
  <2> QED BY <2>2, <2>3 DEF HistoryInv
<1> QED BY <1>1, <1>2, RestartInvariance, PTL DEF Spec

\* With no reconciliation of a restart pending, the restarts kept are within
\* the history limits, for every number of restarts and faults
\* (DoGarbageCollection and the requeues around it).
THEOREM HistoryWithinLimits == Spec => []HistoryBounded
<1>1. HistoryInv => HistoryBounded
  <2> SUFFICES ASSUME HistoryInv, pc = "idle", queue = {}
               PROVE  /\ Cardinality(With({"Completed"})) <= SuccessfulLimit
                      /\ Cardinality(With(Failed)) <= FailedLimit
    BY DEF HistoryBounded
  <2>1. Waiting = {}
    BY DEF Waiting
  <2>2. With({"Completed"}) \ Waiting = With({"Completed"})
            /\ With(Failed) \ Waiting = With(Failed)
    BY <2>1
  <2> QED BY <2>2 DEF HistoryInv
<1> QED BY <1>1, HistoryInvariance, PTL

\* If nothing of a kind but what is beyond its limit is deleted, as many
\* restarts newer than any of those as the limit allows are kept.
LEMMA NewerOnesKept ==
    ASSUME NEW P, NEW n \in Nat, NEW r \in Truncated(P, n),
           \A s \in With(P) : s \notin Truncated(P, n) => phase'[s] # "deleted"
    PROVE  NewerKept(r, P) >= n
<1> DEFINE S == With(P)
           K == {t \in S : t > r /\ ~(Cardinality({s \in S : s > t}) >= n)}
           Kept == {s \in S : s > r /\ phase'[s] # "deleted"}
<1>1. S \in SUBSET (1..MaxRestarts) /\ IsFiniteSet(S)
  BY WithFinite
<1>2. r \in S /\ Cardinality({s \in S : s > r}) >= n
  BY DEF Truncated
<1>3. K \subseteq Kept /\ Kept \in SUBSET S
  BY DEF Truncated
<1>4. IsFiniteSet(K) /\ Cardinality(K) >= n
  <2> HIDE DEF S
  <2> QED BY <1>1, <1>2, RestartAssumption, NewestAtLeast, Zenon
<1>5. Cardinality(Kept) = NewerKept(r, P)
  BY DEF NewerKept
<1> HIDE DEF S, K, Kept
<1>6. IsFiniteSet(Kept)
  BY <1>1, <1>3, FS_Subset, Zenon
<1>7. Cardinality(K) <= Cardinality(Kept)
  BY <1>3, <1>6, FS_Subset
<1>8. Cardinality(K) \in Nat /\ Cardinality(Kept) \in Nat
  BY <1>4, <1>6, FS_CardinalityType
<1> QED BY <1>4, <1>5, <1>7, <1>8

\* Only garbage collection deletes a restart, and only one that as many newer
\* ones of its kind outlive as the limit allows (truncateDoguRestartHistory),
\* even if the deletions fail half-way.
THEOREM NewestAreKept == Spec => NewestKept
<1> DEFINE Kept(r) ==
        phase[r] # "deleted" /\ phase'[r] = "deleted" =>
            \/ /\ phase[r] = "Completed"
               /\ NewerKept(r, {"Completed"}) >= SuccessfulLimit
            \/ phase[r] \in Failed /\ NewerKept(r, Failed) >= FailedLimit
<1>1. RestartInv /\ [Next]_vars => [\A r \in Restarts : Kept(r)]_vars
  <2> SUFFICES ASSUME RestartInv, [Next]_vars, NEW r \in Restarts,
                      phase[r] # "deleted", phase'[r] = "deleted"
               PROVE  \/ /\ phase[r] = "Completed"
                         /\ NewerKept(r, {"Completed"}) >= SuccessfulLimit
                      \/ phase[r] \in Failed /\ NewerKept(r, Failed) >= FailedLimit
    OBVIOUS
  <2>1. DoGarbageCollection
    <3>1. UNCHANGED phase \/ UpdatePhase \/ DoGarbageCollection
              \/ \E s \in Restarts : CreateRestart(s)
      BY Zenon DEF Next, RestartController, DoguController, Take,
             UpdateDoguSpecStopped, PassStarts, Scale, ReportStopped,
             RegenerateDeployment, EditStopped, DoguEvent, DeleteDogu, Crash,
             vars
    <3>2. ~UpdatePhase
      BY DEF UpdatePhase, RestartInv, TypeOK, Phases, Failed
    <3>3. ASSUME NEW s \in Restarts, CreateRestart(s) PROVE FALSE
      BY <3>3 DEF CreateRestart, RestartInv, TypeOK
    <3> QED BY <3>1, <3>2, <3>3
  <2>2. PICK done \in SUBSET Expired :
            phase' = [s \in Restarts |->
                          IF s \in done THEN "deleted" ELSE phase[s]]
    BY <2>1, CollectionEffect
  <2>3. r \in done
    BY <2>2
  <2>4. ASSUME NEW P, NEW n, NEW Q, NEW m, Expired = Truncated(P, n) \cup Truncated(Q, m),
               P \cap Q = {}, "deleted" \notin P
        PROVE  \A s \in With(P) : s \notin Truncated(P, n) => phase'[s] # "deleted"
    BY <2>2, <2>4, Zenon DEF With, Truncated
  <2>5. CASE r \in Truncated({"Completed"}, SuccessfulLimit)
    <3>1. \A s \in With({"Completed"}) :
              s \notin Truncated({"Completed"}, SuccessfulLimit) =>
                  phase'[s] # "deleted"
      BY <2>4 DEF Expired, Failed
    <3>2. phase[r] = "Completed"
      BY <2>5 DEF Truncated, With
    <3> QED BY <2>5, <3>1, <3>2, NewerOnesKept, RestartAssumption
  <2>6. CASE r \in Truncated(Failed, FailedLimit)
    <3>1. \A s \in With(Failed) :
              s \notin Truncated(Failed, FailedLimit) => phase'[s] # "deleted"
      BY <2>4 DEF Expired, Failed
    <3>2. phase[r] \in Failed
      BY <2>6 DEF Truncated, With
    <3> QED BY <2>6, <3>1, <3>2, NewerOnesKept, RestartAssumption
  <2> QED BY <2>3, <2>5, <2>6 DEF Expired
<1> QED BY <1>1, RestartInvariance, PTL DEF Spec, NewestKept
=============================================================================
