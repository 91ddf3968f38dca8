----------------------------- MODULE DoguRestart -----------------------------
(* The restart of a dogu: DoguRestartReconciler stops and starts the dogu by  *)
(* writing spec.stopped, and follows status.stopped, which the dogu's own     *)
(* controller writes.  Both controllers have one worker and run side by side. *)
(* The garbage collector removes old restarts at the end of a reconciliation. *)
EXTENDS Naturals, FiniteSets

CONSTANTS
    MaxRestarts,       \* bound on the number of DoguRestart resources
    SuccessfulLimit,   \* DOGU_RESTART_SUCCESSFUL_HISTORY_LIMIT
    FailedLimit,       \* DOGU_RESTART_FAILED_HISTORY_LIMIT
    WritesDuringPass,  \* restarts write the dogu's spec during a pass over it
    MaxEdits,          \* bound on user edits of spec.stopped
    Deletable,         \* the dogu may be deleted
    FaultKinds,        \* the calls that may fail
    MaxFaults          \* bound on the number of faults

ASSUME RestartAssumption ==
    /\ MaxRestarts \in Nat /\ MaxEdits \in Nat /\ MaxFaults \in Nat
    /\ SuccessfulLimit \in Nat /\ FailedLimit \in Nat
    /\ WritesDuringPass \in BOOLEAN
    /\ Deletable \in BOOLEAN
    /\ FaultKinds \subseteq {"getDogu", "updateSpec", "updatePhase", "delete",
                             "reportStopped", "crash"}

VARIABLES
    phase,      \* status.phase of each restart; "none" before it is created
    queue,      \* restarts in the work queue, now or by timer
    pc,         \* what the restart worker is about to do
    cur,        \* the restart it works on
    target,     \* the phase it is about to write
    exists,     \* the dogu resource exists
    stopped,    \* spec.stopped of the dogu
    reported,   \* status.stopped of the dogu
    replicas,   \* the replicas of the dogu's deployment
    doguQueued, \* the dogu is in its controller's work queue
    pass,       \* where the pass over the dogu is
    copy,       \* spec.stopped in the copy of the dogu the pass works on
    restarted,  \* restarts during whose life the dogu was reported started
    edits,      \* number of user edits so far
    faults      \* number of faults so far

vars == <<phase, queue, pc, cur, target, exists, stopped, reported, replicas,
          doguQueued, pass, copy, restarted, edits, faults>>

\* The restarts in the order of their creation timestamps.
Restarts == 1..MaxRestarts

Failed == {"DoguNotFound", "FailedGetDogu", "FailedStart", "FailedStop"}

Phases == {"New", "Stopping", "Stopped", "Starting", "Completed"} \cup Failed

Gone == {"none", "deleted"}

\* Mutated: a restart that failed to stop the dogu goes on with the start.
StartAfterFailedStop(p) ==
    CASE p = "Stopping" -> "checkStopped"
      [] p = "Starting" -> "checkStarted"
      [] p \in {"Stopped", "FailedStart", "FailedStop"} -> "start"
      [] p = "New" -> "stop"
      [] OTHER -> "ignore"

\* Mutated: a failed start is not retried.
FailedStartIgnored(p) ==
    CASE p = "Stopping" -> "checkStopped"
      [] p = "Starting" -> "checkStarted"
      [] p = "Stopped" -> "start"
      [] p \in {"New", "FailedStop"} -> "stop"
      [] OTHER -> "ignore"

\* RestartOperationFromRestartStatusPhase
RestartOperation(p) ==
    CASE p = "Stopping" -> "checkStopped"
      [] p = "Starting" -> "checkStarted"
      [] p \in {"Stopped", "FailedStart"} -> "start"
      [] p \in {"New", "FailedStop"} -> "stop"
      [] OTHER -> "ignore"

worker == <<pc, cur, target>>
dogu == <<exists, stopped, reported, replicas>>
doguController == <<doguQueued, pass, copy>>

Init ==
    /\ phase = [r \in Restarts |-> "none"]
    /\ queue = {}
    /\ pc = "idle" /\ cur = 0 /\ target = "New"
    /\ exists = TRUE /\ stopped = FALSE /\ reported = FALSE /\ replicas = 1
    /\ doguQueued = FALSE /\ pass = "idle" /\ copy = FALSE
    /\ restarted = {}
    /\ edits = 0 /\ faults = 0

Fault(kind) ==
    /\ kind \in FaultKinds
    /\ faults < MaxFaults
    /\ faults' = faults + 1

-----------------------------------------------------------------------------
(* The restart controller.  A reconciliation of a restart reads the restart   *)
(* and its dogu, may write the dogu's spec, writes the restart's phase, and   *)
(* ends with garbage collection unless a requeue is wanted.  A failing read   *)
(* of the restart itself only requeues it.                                    *)

Write(p) == pc' = "update" /\ target' = p

\* createRestartInstruction and, for the two checks, checkStartStop up to the
\* write of the phase: a dogu that is not there yet is looked at again later.
Take(r) ==
    /\ pc = "idle" /\ r \in queue
    /\ LET op == RestartOperation(phase[r]) IN
       \/ /\ phase[r] = "deleted"
          /\ queue' = queue \ {r}
          /\ UNCHANGED <<worker, faults>>
       \/ /\ phase[r] # "deleted" /\ op = "ignore"
          /\ queue' = queue \ {r}
          /\ pc' = "gc" /\ cur' = r
          /\ UNCHANGED <<target, faults>>
       \/ /\ op # "ignore" /\ ~exists
          /\ queue' = queue \ {r}
          /\ Write("DoguNotFound") /\ cur' = r
          /\ UNCHANGED faults
       \/ /\ op # "ignore" /\ exists /\ Fault("getDogu")
          /\ queue' = queue \ {r}
          /\ Write("FailedGetDogu") /\ cur' = r
       \/ /\ op \in {"stop", "start"} /\ exists
          /\ queue' = queue \ {r}
          /\ pc' = op /\ cur' = r
          /\ UNCHANGED <<target, faults>>
       \/ /\ op \in {"checkStopped", "checkStarted"} /\ exists
          /\ reported = (op = "checkStopped")
          /\ queue' = queue \ {r}
          /\ Write(IF reported THEN "Stopped" ELSE "Completed") /\ cur' = r
          /\ UNCHANGED faults
    /\ UNCHANGED <<phase, dogu, doguController, restarted, edits>>

\* handleStartStop, the write of spec.stopped
UpdateDoguSpecStopped ==
    /\ pc \in {"stop", "start"}
    /\ WritesDuringPass \/ pass = "idle"
    /\ \/ /\ exists
          /\ stopped' = (pc = "stop")
          /\ doguQueued' = (doguQueued \/ stopped' # stopped)
          /\ Write(IF pc = "stop" THEN "Stopping" ELSE "Starting")
          /\ UNCHANGED faults
       \/ /\ IF exists THEN Fault("updateSpec") ELSE UNCHANGED faults
          /\ Write(IF pc = "stop" THEN "FailedStop" ELSE "FailedStart")
          /\ UNCHANGED <<stopped, doguQueued>>
    /\ UNCHANGED <<phase, queue, cur, exists, reported, replicas, pass, copy,
                   restarted, edits>>

\* Mutated: a restart is completed as soon as the start is initiated.
CompletedAtStart ==
    /\ pc = "update"
    /\ phase' = [phase EXCEPT ![cur] = IF target = "Starting" THEN "Completed"
                                       ELSE target]
    /\ queue' = queue \cup {cur}
    /\ pc' = IF target \in {"Starting", "Completed", "DoguNotFound"}
             THEN "gc" ELSE "idle"
    /\ UNCHANGED <<cur, target, dogu, doguController, restarted, edits, faults>>

\* updateDoguRestartPhase and the result of the instruction: the written phase
\* is seen by the watch, which has no predicate.  If the write fails the
\* restart is requeued, except for a dogu that was not found.
UpdatePhase ==
    /\ pc = "update"
    /\ \/ /\ phase' = [phase EXCEPT ![cur] = target]
          /\ queue' = queue \cup {cur}
          /\ pc' = IF target \in {"Starting", "Completed", "DoguNotFound"}
                   THEN "gc" ELSE "idle"
          /\ UNCHANGED faults
       \/ /\ Fault("updatePhase")
          /\ pc' = IF target = "DoguNotFound" THEN "gc" ELSE "idle"
          /\ queue' = IF target = "DoguNotFound" THEN queue
                      ELSE queue \cup {cur}
          /\ UNCHANGED phase
    /\ UNCHANGED <<cur, target, dogu, doguController, restarted, edits>>

With(P) == {r \in Restarts : phase[r] \in P}

\* Mutated: one restart more than the limit is kept.
KeepOneMore(P, limit) ==
    {r \in With(P) : Cardinality({s \in With(P) : s > r}) > limit}

\* Mutated: sorted the other way round.
KeepOldest(P, limit) ==
    {r \in With(P) : Cardinality({s \in With(P) : s < r}) >= limit}

\* truncateDoguRestartHistory: all but the newest ones, up to the limit.
Truncated(P, limit) ==
    {r \in With(P) : Cardinality({s \in With(P) : s > r}) >= limit}

\* DoGarbageCollection.  Each deletion may fail on its own; then the restart
\* that was reconciled is requeued.
DoGarbageCollection ==
    /\ pc = "gc"
    /\ pc' = "idle"
    /\ LET old == Truncated({"Completed"}, SuccessfulLimit)
                      \cup Truncated(Failed, FailedLimit)
       IN  \/ /\ phase' = [r \in Restarts |->
                               IF r \in old THEN "deleted" ELSE phase[r]]
              /\ queue' = queue \cup old
              /\ UNCHANGED faults
           \/ /\ Fault("delete")
              /\ \E done \in SUBSET old :
                     /\ phase' = [r \in Restarts |->
                                      IF r \in done THEN "deleted" ELSE phase[r]]
                     /\ queue' = queue \cup done \cup {cur}
    /\ UNCHANGED <<cur, target, dogu, doguController, restarted, edits>>

-----------------------------------------------------------------------------
(* The dogu's controller, as far as it starts and stops the dogu.             *)

PassStarts ==
    /\ pass = "idle" /\ doguQueued /\ exists
    /\ pass' = "startStop"
    /\ copy' = stopped
    /\ doguQueued' = FALSE
    /\ UNCHANGED <<phase, queue, worker, dogu, restarted, edits, faults>>

\* Mutated: the scale is increased, not set.
ScaleByOne ==
    /\ pass = "startStop"
    /\ LET wanted == IF copy THEN 0 ELSE 1 IN
       \/ /\ replicas = wanted
          /\ pass' = IF copy THEN "idle" ELSE "later"
          /\ UNCHANGED <<replicas, doguQueued>>
       \/ /\ replicas # wanted
          /\ replicas' = replicas + 1
          /\ doguQueued' = TRUE
          /\ pass' = "scaled"
    /\ UNCHANGED <<phase, queue, worker, exists, stopped, reported, copy,
                   restarted, edits, faults>>

\* StartStopStep up to UpdateScale: a pass over a stopped dogu ends here.
Scale ==
    /\ pass = "startStop"
    /\ LET wanted == IF copy THEN 0 ELSE 1 IN
       \/ /\ replicas = wanted
          /\ pass' = IF copy THEN "idle" ELSE "later"
          /\ UNCHANGED <<replicas, doguQueued>>
       \/ /\ replicas # wanted
          /\ replicas' = wanted
          /\ doguQueued' = TRUE
          /\ pass' = "scaled"
    /\ UNCHANGED <<phase, queue, worker, exists, stopped, reported, copy,
                   restarted, edits, faults>>

\* StartStopStep, the write of status.stopped.  The pass ends with a requeue.
ReportStopped ==
    /\ pass = "scaled"
    /\ pass' = "idle"
    /\ doguQueued' = TRUE
    /\ \/ /\ reported' = copy
          /\ restarted' = IF reported /\ ~copy
                          THEN restarted \cup
                                   {r \in Restarts : phase[r] \notin Gone}
                          ELSE restarted
          /\ UNCHANGED faults
       \/ Fault("reportStopped") /\ UNCHANGED <<reported, restarted>>
    /\ UNCHANGED <<phase, queue, worker, exists, stopped, replicas, copy, edits>>

\* The rest of the pass: InstalledVersionStep refreshes the copy, and
\* RegenerateDeploymentStep writes the replicas it asks for.
RegenerateDeployment ==
    /\ pass = "later"
    /\ pass' = "idle"
    /\ replicas' = IF stopped THEN 0 ELSE 1
    /\ doguQueued' = (doguQueued \/ replicas' # replicas)
    /\ UNCHANGED <<phase, queue, worker, exists, stopped, reported, copy,
                   restarted, edits, faults>>

-----------------------------------------------------------------------------
(* The environment.                                                           *)

CreateRestart(r) ==
    /\ phase[r] = "none"
    /\ \A s \in 1..(r - 1) : phase[s] # "none"
    /\ phase' = [phase EXCEPT ![r] = "New"]
    /\ queue' = queue \cup {r}
    /\ UNCHANGED <<worker, dogu, doguController, restarted, edits, faults>>

EditStopped ==
    /\ exists /\ edits < MaxEdits
    /\ edits' = edits + 1
    /\ stopped' = ~stopped
    /\ doguQueued' = TRUE
    /\ UNCHANGED <<phase, queue, worker, exists, reported, replicas, pass, copy,
                   restarted, faults>>

\* Any other event the dogu's controller watches: an edit of another field, of
\* the configuration, of the deployment or of a pod.
DoguEvent ==
    /\ exists /\ ~doguQueued
    /\ doguQueued' = TRUE
    /\ UNCHANGED <<phase, queue, worker, dogu, pass, copy, restarted, edits,
                   faults>>

DeleteDogu ==
    /\ Deletable /\ exists
    /\ exists' = FALSE
    /\ pass' = "idle" /\ doguQueued' = FALSE
    /\ UNCHANGED <<phase, queue, worker, stopped, reported, replicas, copy,
                   restarted, edits, faults>>

\* The operator is killed and started again: both watches list everything.
Crash ==
    /\ Fault("crash")
    /\ pc' = "idle" /\ pass' = "idle"
    /\ queue' = queue \cup {r \in Restarts : phase[r] \notin Gone}
    /\ doguQueued' = TRUE
    /\ UNCHANGED <<phase, cur, target, dogu, copy, restarted, edits>>

RestartController ==
    (\E r \in Restarts : Take(r)) \/ UpdateDoguSpecStopped \/ UpdatePhase
        \/ DoGarbageCollection

DoguController == PassStarts \/ Scale \/ ReportStopped \/ RegenerateDeployment

Next ==
    \/ RestartController
    \/ DoguController
    \/ \E r \in Restarts : CreateRestart(r)
    \/ EditStopped \/ DoguEvent \/ DeleteDogu \/ Crash

Spec == Init /\ [][Next]_vars

\* Each controller works off its queue; the queue hands out every restart.
\* A pass over the dogu ends, so the worker that waits for its end goes on.
Fairness ==
    /\ \A r \in Restarts : SF_vars(Take(r))
    /\ SF_vars(UpdateDoguSpecStopped)
    /\ WF_vars(UpdatePhase)
    /\ WF_vars(DoGarbageCollection)
    /\ WF_vars(DoguController)

FairSpec == Spec /\ Fairness
-----------------------------------------------------------------------------
(* Properties                                                                 *)

\* The state has its shape: phases, queues, the two workers and the dogu.
TypeOK ==
    /\ phase \in [Restarts -> Phases \cup Gone]
    /\ queue \subseteq Restarts
    /\ pc \in {"idle", "stop", "start", "update", "gc"}
    /\ cur \in Restarts \cup {0} /\ target \in Phases
    /\ exists \in BOOLEAN /\ stopped \in BOOLEAN /\ reported \in BOOLEAN
    /\ replicas \in {0, 1}
    /\ doguQueued \in BOOLEAN /\ copy \in BOOLEAN
    /\ pass \in {"idle", "startStop", "scaled", "later"}
    /\ restarted \subseteq Restarts
    /\ edits \in 0..MaxEdits /\ faults \in 0..MaxFaults

\* A restart is Completed only if, since it was created, the dogu's controller
\* has reported the start of a dogu it had reported stopped, whatever other
\* restarts, users and crashes do to spec.stopped (checkStartStop reads only
\* the status, which the other controller writes).
CompletedMeansRestarted ==
    \A r \in Restarts : phase[r] = "Completed" => r \in restarted

\* Why CompletedMeansRestarted holds: past the report of the stop, either the
\* dogu is still reported stopped or its start has been reported.
RestartInv ==
    LET Down == {"Stopped", "FailedStart", "Starting"} IN
    /\ TypeOK
    /\ \A r \in queue : phase[r] # "none"
    /\ pc # "idle" => cur \in Restarts /\ phase[cur] \notin Gone
    /\ \A r \in Restarts : phase[r] \in Down => reported \/ r \in restarted
    /\ pc = "start" \/ (pc = "update" /\ target \in Down) =>
           reported \/ cur \in restarted
    /\ pc = "update" /\ target = "Completed" => cur \in restarted
    /\ CompletedMeansRestarted

\* When no reconciliation of a restart is pending, no more restarts are kept
\* than the history limits allow, although a failed deletion ends the garbage
\* collection half-way.
HistoryBounded ==
    pc = "idle" /\ queue = {} =>
        /\ Cardinality(With({"Completed"})) <= SuccessfulLimit
        /\ Cardinality(With(Failed)) <= FailedLimit

\* The restarts that a reconciliation is due for, or that are being reconciled.
Waiting == queue \cup IF pc = "idle" THEN {} ELSE {cur}

\* Why HistoryBounded holds: the restarts of a kind that wait for no
\* reconciliation never exceed the limit of the kind.  A restart that comes to
\* an end is queued by its own status change, and stays in the queue, or in the
\* hands of the worker, until a garbage collection has succeeded.
HistoryInv ==
    /\ Cardinality(With({"Completed"}) \ Waiting) <= SuccessfulLimit
    /\ Cardinality(With(Failed) \ Waiting) <= FailedLimit

NewerKept(r, P) ==
    Cardinality({s \in With(P) : s > r /\ phase'[s] # "deleted"})

\* Garbage collection removes a successful or failed restart only if as many
\* newer ones of its kind as the limit allows are left, and nothing else.
NewestKept ==
    [][\A r \in Restarts :
          phase[r] # "deleted" /\ phase'[r] = "deleted" =>
              \/ /\ phase[r] = "Completed"
                 /\ NewerKept(r, {"Completed"}) >= SuccessfulLimit
              \/ phase[r] \in Failed /\ NewerKept(r, Failed) >= FailedLimit]_vars

Ended == {"deleted", "Completed", "DoguNotFound", "FailedGetDogu"}

\* Every restart comes to its end, unless another one gets in its way: two that
\* are in progress at once may wait for a stop the other has undone.
RestartsEnd ==
    \A r \in Restarts :
        phase[r] = "New" ~>
            \/ phase[r] \in Ended
            \/ \E s \in Restarts \ {r} : phase[s] \notin Ended \cup {"none"}

\* A dogu that is stopped for restarts is started again, also if they overlap,
\* and if the garbage collection of one deletes another that has failed with
\* the dogu stopped and waits for its retry (DoGarbageCollection deletes by the
\* phase alone, but leaves a newer failed restart, which is retried).
DoguStartedAgain == <>[](~stopped /\ replicas = 1)
=============================================================================
