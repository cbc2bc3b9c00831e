------------------------------ MODULE CoreExec ------------------------------
(***************************************************************************)
(* The CoreExec scheduler of NeuroSyncOS: the dispatcher that drives every *)
(* approved, scheduled or staged DAG run to an end, the claim queue and    *)
(* its leases, the retry-then-park rule with its Deference ticket          *)
(* (os_todos), the operator routes that send work back to the queue, and   *)
(* crash recovery.                                                         *)
(*                                                                         *)
(* Code: src/core/coreexec/{engine,queue,scheduler}.ts,                    *)
(* src/core/scoutdaemon/stage-run.ts and                                   *)
(* src/server/routes/{coreexec-router,todos}.ts.                           *)
(*                                                                         *)
(* Everything runs on one Node.js thread.  HTTP handlers, timers and cron  *)
(* jobs are macrotasks: they start only when no microtask is left, that is *)
(* when the dispatcher is "idle".  A pass of dispatchLoop has no await, so *)
(* nothing interleaves with it; the continuation of a task may run between *)
(* the end of a pass and the moment the dispatcher is idle again.          *)
(***************************************************************************)
EXTENDS Naturals, FiniteSets, FiniteSetsExt

CONSTANTS
    Runs,        \* workflow_runs.id of every run that may be submitted
    Nodes,       \* DAG node ids, which are the primary keys of tasks
    NoRun,       \* the owner of a task row that does not exist
    Layout,      \* Layout[r]: the node ids of the dag_layout of r
    Deps,        \* Deps[n]: the dependencies of node n
    Origin,      \* Origin[r]: "approve", "cron" or "scout"
    Malformed,   \* runs whose dag_layout DAGLayoutSchema refuses
    PoolNodes,   \* nodes that run in the worker pool, the others are LLM calls
    Unrunnable,  \* nodes parked at once: evaluator, generator without a plan
    MaxWorkers,  \* max_workers of the hardware profile
    ClaimBatch,  \* getClaimBatchSize()
    MaxRetries,  \* 3 in parkTask
    Budget       \* bounds on lease expiries, operator requests, crashes and heat

Origins == {"approve", "cron", "scout"}
Kinds == {"expiry", "operator", "crash", "heat"}

ASSUME RunAssumption == NoRun \notin Runs /\ Malformed \subseteq Runs

ASSUME NodeAssumption ==
    PoolNodes \subseteq Nodes /\ Unrunnable \subseteq Nodes /\ IsFiniteSet(Nodes)

\* validateDAG refuses a layout whose edges leave the layout or form a cycle:
\* any set of nodes has one with no dependency inside the set.
ASSUME LayoutAssumption ==
    /\ Layout \in [Runs -> SUBSET Nodes]
    /\ Deps \in [Nodes -> SUBSET Nodes]
    /\ Origin \in [Runs -> Origins]
    /\ \A r \in Runs : \A n \in Layout[r] : Deps[n] \subseteq Layout[r]
    /\ \A S \in SUBSET Nodes : S # {} => \E n \in S : Deps[n] \cap S = {}

ASSUME BoundAssumption ==
    /\ MaxWorkers \in Nat
    /\ ClaimBatch \in Nat \ {0}
    /\ MaxRetries \in Nat
    /\ Budget \in [Kinds -> Nat]

VARIABLES
    \* SQLite, which survives a crash
    runStatus,      \* workflow_runs.status, "absent" before the INSERT
    recent,         \* runs whose completed_at is less than 15 minutes old
    taskRun,        \* tasks.run_id, NoRun while there is no row
    taskStatus,     \* tasks.status
    expired,        \* tasks whose claim_lease is in the past
    retryCount,     \* tasks.retry_count
    openTodos,      \* os_todos with status 'open', named by the execution
    resolvedTodos,  \* ... 'resolved'
    rejectedTodos,  \* ... 'rejected'
    cap,            \* the latest max_workers row of environment_rules
    \* the memory of the server process
    phase,          \* where the dispatcher is; isDispatching unless "idle"
    queued,         \* dispatchQueued
    timer,          \* globalLeaseTimer is armed
    toVisit,        \* runs the current pass has still to visit
    slotsUsed,      \* inFlightTasks
    needSlots,      \* trackANeedsSlots
    sawClaims,      \* hasClaimedTasksGlobal
    resolvers,      \* the keys of runResolvers
    executing,      \* executions <<node, claim>> that have not ended
    pooled,         \* those of them the worker pool is executing
    \* history, read by the properties and the bounds only
    claims,         \* how often each node has been claimed
    produced,       \* nodes that have completed at least once
    orphans,        \* nodes whose executor died in a crash
    spent           \* how much of each bound is used

runVars  == <<runStatus, recent>>
taskVars == <<taskRun, taskStatus, expired, retryCount>>
todoVars == <<openTodos, resolvedTodos, rejectedTodos>>
loopVars == <<phase, queued>>
passVars == <<toVisit, slotsUsed, needSlots, sawClaims>>
workVars == <<executing, pooled>>
histVars == <<claims, produced, orphans, spent>>
vars == <<runVars, taskVars, todoVars, cap, loopVars, timer, passVars, resolvers,
          workVars, histVars>>

RunStatuses  == {"absent", "pending", "running", "completed", "failed", "parked"}
TaskStatuses == {"absent", "unclaimed", "claimed", "completed", "parked"}
Phases == {"idle", "scheduled", "pass", "awaiting", "exiting", "down"}
Executions == Nodes \X Nat

TypeOK ==
    /\ runStatus \in [Runs -> RunStatuses]
    /\ recent \subseteq Runs
    /\ taskRun \in [Nodes -> Runs \cup {NoRun}]
    /\ taskStatus \in [Nodes -> TaskStatuses]
    /\ expired \subseteq Nodes
    /\ retryCount \in [Nodes -> Nat]
    /\ openTodos \subseteq Executions
    /\ resolvedTodos \subseteq Executions
    /\ rejectedTodos \subseteq Executions
    /\ cap \in 0..MaxWorkers
    /\ phase \in Phases
    /\ queued \in BOOLEAN /\ timer \in BOOLEAN
    /\ toVisit \subseteq Runs
    /\ slotsUsed \in Nat
    /\ needSlots \in BOOLEAN /\ sawClaims \in BOOLEAN
    /\ resolvers \subseteq Runs
    /\ executing \subseteq Executions
    /\ pooled \subseteq executing
    /\ claims \in [Nodes -> Nat]
    /\ produced \subseteq Nodes
    /\ orphans \subseteq Nodes
    /\ spent \in [Kinds -> Nat]

Init ==
    /\ runStatus = [r \in Runs |-> "absent"] /\ recent = {}
    /\ taskRun = [n \in Nodes |-> NoRun]
    /\ taskStatus = [n \in Nodes |-> "absent"]
    /\ expired = {} /\ retryCount = [n \in Nodes |-> 0]
    /\ openTodos = {} /\ resolvedTodos = {} /\ rejectedTodos = {}
    /\ cap = MaxWorkers
    /\ phase = "idle" /\ queued = FALSE /\ timer = FALSE
    /\ toVisit = {} /\ slotsUsed = 0 /\ needSlots = FALSE /\ sawClaims = FALSE
    /\ resolvers = {} /\ executing = {} /\ pooled = {}
    /\ claims = [n \in Nodes |-> 0]
    /\ produced = {} /\ orphans = {} /\ spent = [k \in Kinds |-> 0]

-----------------------------------------------------------------------------
(* What the dispatcher reads.                                              *)

Active == {r \in Runs : runStatus[r] \in {"pending", "running"}}
Track(r) == IF Origin[r] = "cron" THEN "track1" ELSE "track2"

Rows(r) == {n \in Nodes : taskRun[n] = r}
RowsIn(r, status) == {n \in Rows(r) : taskStatus[n] = status}

\* Fault: a claimed task can be claimed before its lease has run out.
ClaimableAtOnce(n) == taskStatus[n] \in {"unclaimed", "claimed"}

Claimable(n) ==
    taskStatus[n] = "unclaimed" \/ (taskStatus[n] = "claimed" /\ n \in expired)

\* Fault: it is enough that the dependencies have been claimed.
EligibleTooEarly(r) ==
    {n \in Layout[r] \cap Rows(r) :
        Claimable(n) /\ Deps[n] \cap RowsIn(r, "unclaimed") = {}}

Eligible(r) ==
    {n \in Layout[r] \cap Rows(r) :
        Claimable(n) /\ Deps[n] \subseteq RowsIn(r, "completed")}

\* The failure rate of the runs that ended in the last 15 minutes is above 0.4.
EndedRecently(statuses) == {r \in recent : runStatus[r] \in statuses}
BreakerOpen ==
    \E failed \in SUBSET recent :
        /\ failed = EndedRecently({"failed"})
        /\ 5 * Cardinality(failed) > 2 * Cardinality(EndedRecently({"failed", "completed"}))

\* getEnvironmentMaxWorkers() is asked at every visit.
FreeSlots == IF slotsUsed < cap THEN cap - slotsUsed ELSE 0

-----------------------------------------------------------------------------
(* Waking the dispatcher.                                                  *)

\* triggerDispatch(): a request made while isDispatching is only remembered.
Trigger ==
    IF phase = "idle"
    THEN phase' = "scheduled" /\ UNCHANGED queued
    ELSE queued' = TRUE /\ UNCHANGED phase

\* executeRun(r) once the status of r is known to be pending or running.
Execute(r) == resolvers' = resolvers \cup {r} /\ Trigger

Spend(k) == spent[k] < Budget[k] /\ spent' = [spent EXCEPT ![k] = @ + 1]

-----------------------------------------------------------------------------
(* Submitting a run: the workflow_runs row, then one tasks row per node.   *)

Rowless(r) == {n \in Layout[r] : taskRun[n] = NoRun}

InsertRun(r, S) ==
    /\ runStatus[r] = "absent"
    /\ runStatus' = [runStatus EXCEPT ![r] = "pending"]
    /\ taskRun' = [n \in Nodes |-> IF n \in S THEN r ELSE taskRun[n]]
    /\ taskStatus' = [n \in Nodes |-> IF n \in S THEN "unclaimed" ELSE taskStatus[n]]
    /\ UNCHANGED <<recent, expired, retryCount, todoVars>>

\* POST /approve
ApproveRun(r) ==
    /\ phase = "idle" /\ Origin[r] = "approve" /\ Rowless(r) = Layout[r]
    /\ InsertRun(r, Layout[r])
    /\ Execute(r)
    /\ UNCHANGED <<timer, cap, passVars, workVars, histVars>>

\* triggerWorkflow, a cron job: nobody waits for the run.
FireCron(r) ==
    /\ phase = "idle" /\ Origin[r] = "cron" /\ Rowless(r) = Layout[r]
    /\ InsertRun(r, Layout[r])
    /\ Trigger
    /\ UNCHANGED <<timer, cap, passVars, resolvers, workVars, histVars>>

\* createStageRun: one transaction, and no trigger.
StageRun(r) ==
    /\ phase = "idle" /\ Origin[r] = "scout" /\ Rowless(r) = Layout[r]
    /\ InsertRun(r, Layout[r])
    /\ UNCHANGED <<loopVars, timer, cap, passVars, resolvers, workVars, histVars>>

\* A node id that is taken violates the primary key of tasks and ends the
\* handler; the rows inserted before it stay, since nothing is rolled back.
SubmitCollides(r) ==
    /\ phase = "idle" /\ Origin[r] # "scout" /\ Rowless(r) # Layout[r]
    /\ \E S \in SUBSET Rowless(r) : InsertRun(r, S)
    /\ UNCHANGED <<loopVars, timer, cap, passVars, resolvers, workVars, histVars>>

-----------------------------------------------------------------------------
(* One pass of dispatchLoop over the active runs.                          *)

PassBegins ==
    /\ phase = "scheduled" \/ (phase = "awaiting" /\ queued)
    /\ queued' = FALSE
    /\ UNCHANGED <<runVars, taskVars, todoVars, timer, cap, resolvers, workVars, histVars>>

\* The circuit breaker returns before the watchdog timer is looked at.
PassPaused ==
    /\ PassBegins /\ BreakerOpen
    /\ phase' = "awaiting" /\ UNCHANGED passVars

PassEmpty ==
    /\ PassBegins /\ ~BreakerOpen /\ Active = {}
    /\ phase' = "awaiting" /\ UNCHANGED passVars

\* Fault: what earlier passes have started is not counted.
PassStartsAtZero ==
    /\ PassBegins /\ ~BreakerOpen /\ Active # {}
    /\ phase' = "pass"
    /\ toVisit' = Active /\ slotsUsed' = 0
    /\ UNCHANGED <<needSlots, sawClaims>>

PassStarts ==
    /\ PassBegins /\ ~BreakerOpen /\ Active # {}
    /\ phase' = "pass"
    /\ toVisit' = Active /\ slotsUsed' = Cardinality(pooled)
    /\ UNCHANGED <<needSlots, sawClaims>>

\* Fault: the runs are not sorted.
VisitUnsorted(r) ==
    /\ phase = "pass" /\ r \in toVisit
    /\ toVisit' = toVisit \ {r}
    /\ UNCHANGED <<phase, timer, cap, resolvedTodos, rejectedTodos, taskRun, retryCount,
                    produced, spent>>

\* Runs are visited in the order of their track.
Visit(r) ==
    /\ phase = "pass" /\ r \in toVisit
    /\ Track(r) = "track1" \/ \A q \in toVisit : Track(q) = "track2"
    /\ toVisit' = toVisit \ {r}
    /\ UNCHANGED <<phase, timer, cap, resolvedTodos, rejectedTodos, taskRun, retryCount,
                    produced, spent>>

NoTaskMoves ==
    UNCHANGED <<taskStatus, expired, openTodos, queued, workVars, claims, orphans>>

\* Fault: the caller of a parked run is not answered.
SettleRunSilently(r, status) ==
    /\ runStatus' = [runStatus EXCEPT ![r] = status]
    /\ recent' = IF status = "parked" THEN recent ELSE recent \cup {r}
    /\ resolvers' = IF status = "parked" THEN resolvers ELSE resolvers \ {r}
    /\ UNCHANGED <<slotsUsed, needSlots, sawClaims>>

\* Fault: a run that waits for the operator is given up.
SettleRunForGood(r, status) ==
    /\ runStatus' =
          [runStatus EXCEPT ![r] = IF status = "completed" THEN status ELSE "failed"]
    /\ recent' = recent \cup {r} /\ resolvers' = resolvers \ {r}
    /\ UNCHANGED <<slotsUsed, needSlots, sawClaims>>

SettleRun(r, status) ==
    /\ runStatus' = [runStatus EXCEPT ![r] = status]
    /\ recent' = IF status = "parked" THEN recent ELSE recent \cup {r}
    /\ resolvers' = resolvers \ {r}
    /\ UNCHANGED <<slotsUsed, needSlots, sawClaims>>

KeepRunning(r) ==
    /\ runStatus' = [runStatus EXCEPT ![r] = "running"]
    /\ UNCHANGED <<recent, resolvers>>

VisitMalformed(r) ==
    /\ Visit(r) /\ NoTaskMoves
    /\ r \in Malformed
    /\ SettleRun(r, "failed")

\* Fault: the rows that exist are compared, not the layout.
VisitFinishedByRows(r) ==
    /\ Visit(r) /\ NoTaskMoves
    /\ r \notin Malformed /\ RowsIn(r, "completed") = Rows(r)
    /\ SettleRun(r, "completed")

\* Fault: a parked task counts as done.
VisitFinishedOrParked(r) ==
    /\ Visit(r) /\ NoTaskMoves
    /\ r \notin Malformed /\ RowsIn(r, "completed") \cup RowsIn(r, "parked") = Layout[r]
    /\ SettleRun(r, "completed")

VisitFinished(r) ==
    /\ Visit(r) /\ NoTaskMoves
    /\ r \notin Malformed /\ RowsIn(r, "completed") = Layout[r]
    /\ SettleRun(r, "completed")

\* Nothing is eligible: wait for a claimed task, else park, else give up.
VisitStalled(r) ==
    /\ Visit(r) /\ NoTaskMoves
    /\ r \notin Malformed /\ RowsIn(r, "completed") # Layout[r] /\ Eligible(r) = {}
    /\ \/ /\ RowsIn(r, "claimed") # {}
          /\ KeepRunning(r) /\ sawClaims' = TRUE
          /\ UNCHANGED <<slotsUsed, needSlots>>
       \/ /\ RowsIn(r, "claimed") = {}
          /\ SettleRun(r, IF RowsIn(r, "parked") # {} THEN "parked" ELSE "failed")

VisitEligible(r) ==
    /\ Visit(r) /\ KeepRunning(r)
    /\ r \notin Malformed /\ Eligible(r) # {}

\* Track B waits while Track A needs slots.
VisitDeferred(r) ==
    /\ VisitEligible(r) /\ NoTaskMoves
    /\ Track(r) = "track2" /\ needSlots
    /\ UNCHANGED <<slotsUsed, needSlots, sawClaims>>

VisitSaturated(r) ==
    /\ VisitEligible(r) /\ NoTaskMoves
    /\ Track(r) = "track2" => ~needSlots
    /\ FreeSlots = 0
    /\ needSlots' = (needSlots \/ Track(r) = "track1")
    /\ sawClaims' = TRUE /\ UNCHANGED slotsUsed

\* claimTask for the nodes in S: one that cannot run is parked with its ticket
\* before the pass goes on, every other one starts executing.
Started(S) == {<<n, claims[n] + 1>> : n \in S \ Unrunnable}

ClaimTasks(r, S) ==
    /\ taskStatus' = [n \in Nodes |->
          CASE n \in S \ Unrunnable    -> "claimed"
            [] n \in S \cap Unrunnable -> "parked"
            [] OTHER                   -> taskStatus[n]]
    /\ expired' = expired \ S
    /\ openTodos' = openTodos \cup {<<n, claims[n] + 1>> : n \in S \cap Unrunnable}
    /\ queued' = (queued \/ S \cap Unrunnable # {})
    /\ executing' = executing \cup Started(S)
    /\ pooled' = pooled \cup {x \in Started(S) : x[1] \in PoolNodes}
    /\ slotsUsed' = slotsUsed + Cardinality(S)
    /\ needSlots' = (needSlots \/ (Track(r) = "track1" /\ S # Eligible(r)))
    /\ sawClaims' = TRUE
    /\ claims' = [n \in Nodes |-> claims[n] + (IF n \in S THEN 1 ELSE 0)]
    /\ orphans' = orphans \ S

\* As many eligible nodes as fit are claimed.
VisitClaims(r) ==
    /\ VisitEligible(r)
    /\ Track(r) = "track2" => ~needSlots
    /\ FreeSlots > 0
    /\ \E S \in kSubset(Min({FreeSlots, ClaimBatch, Cardinality(Eligible(r))}), Eligible(r)) :
          ClaimTasks(r, S)

\* Fault: the watchdog is not armed again.
PassEndsUnwatched ==
    /\ phase = "pass" /\ toVisit = {}
    /\ phase' = "awaiting" /\ timer' = FALSE
    /\ slotsUsed' = 0 /\ needSlots' = FALSE /\ sawClaims' = FALSE
    /\ UNCHANGED <<runVars, taskVars, todoVars, cap, queued, toVisit, resolvers, workVars,
                    histVars>>

\* The watchdog is disarmed, and armed again only if some task is claimed.
PassEnds ==
    /\ phase = "pass" /\ toVisit = {}
    /\ phase' = "awaiting" /\ timer' = sawClaims
    /\ slotsUsed' = 0 /\ needSlots' = FALSE /\ sawClaims' = FALSE
    /\ UNCHANGED <<runVars, taskVars, todoVars, cap, queued, toVisit, resolvers, workVars,
                    histVars>>

\* while (dispatchQueued) was false; the finally block runs some microtasks later.
LoopExits ==
    /\ phase = "awaiting" /\ ~queued /\ phase' = "exiting"
    /\ UNCHANGED <<runVars, taskVars, todoVars, queued, timer, cap, passVars, resolvers,
                    workVars, histVars>>

\* A trigger remembered since LoopExits stays in dispatchQueued: nobody reads it.
DispatchEnds ==
    /\ phase = "exiting" /\ phase' = "idle"
    /\ UNCHANGED <<runVars, taskVars, todoVars, queued, timer, cap, passVars, resolvers,
                    workVars, histVars>>

WatchdogFires ==
    /\ phase = "idle" /\ timer
    /\ timer' = FALSE /\ phase' = "scheduled"
    /\ UNCHANGED <<runVars, taskVars, todoVars, cap, queued, passVars, resolvers, workVars,
                    histVars>>

-----------------------------------------------------------------------------
(* The end of an execution.  Its writes name the task, not the claim.      *)

Interruptible == phase \in {"idle", "scheduled", "awaiting", "exiting"}

\* The worker answers: its slot is free, its queued writes are still drained.
PoolAnswers(x) ==
    /\ Interruptible /\ x \in pooled
    /\ pooled' = pooled \ {x}
    /\ UNCHANGED <<runVars, taskVars, todoVars, loopVars, timer, cap, passVars, resolvers,
                    executing, histVars>>

\* Fault: the result is written while the worker is still busy.
ExecutionEndsEarly(x) ==
    /\ Interruptible /\ x \in executing
    /\ executing' = executing \ {x}
    /\ Trigger
    /\ UNCHANGED <<runVars, taskRun, resolvedTodos, rejectedTodos, timer, cap, passVars,
                    resolvers, pooled, claims, orphans, spent>>

ExecutionEnds(x) ==
    /\ Interruptible /\ x \in executing \ pooled
    /\ executing' = executing \ {x}
    /\ Trigger
    /\ UNCHANGED <<runVars, taskRun, resolvedTodos, rejectedTodos, timer, cap, passVars,
                    resolvers, pooled, claims, orphans, spent>>

\* Fault: a result that comes after the lease is dropped.
ExecSucceedsInTime(x) ==
    /\ ExecutionEnds(x)
    /\ taskStatus' = [taskStatus EXCEPT ![x[1]] = IF x[1] \in expired THEN @ ELSE "completed"]
    /\ produced' = produced \cup {x[1]}
    /\ UNCHANGED <<expired, retryCount, openTodos>>

ExecSucceeds(x) ==
    /\ ExecutionEnds(x)
    /\ taskStatus' = [taskStatus EXCEPT ![x[1]] = "completed"]
    /\ produced' = produced \cup {x[1]}
    /\ UNCHANGED <<expired, retryCount, openTodos>>

\* parkTask while retries are left
ExecRetries(x) ==
    /\ ExecutionEnds(x)
    /\ retryCount[x[1]] < MaxRetries
    /\ taskStatus' = [taskStatus EXCEPT ![x[1]] = "unclaimed"]
    /\ expired' = expired \ {x[1]}
    /\ retryCount' = [retryCount EXCEPT ![x[1]] = @ + 1]
    /\ UNCHANGED <<openTodos, produced>>

\* Fault: a node that has had a ticket gets no other one.
ExecParksOnce(x) ==
    /\ ExecutionEnds(x)
    /\ retryCount[x[1]] >= MaxRetries
    /\ taskStatus' = [taskStatus EXCEPT ![x[1]] = "parked"]
    /\ openTodos' = openTodos \cup {y \in {x} : \A t \in resolvedTodos : t[1] # y[1]}
    /\ UNCHANGED <<expired, retryCount, produced>>

\* parkTask after the last retry: the task waits for the operator.
ExecParks(x) ==
    /\ ExecutionEnds(x)
    /\ retryCount[x[1]] >= MaxRetries
    /\ taskStatus' = [taskStatus EXCEPT ![x[1]] = "parked"]
    /\ openTodos' = openTodos \cup {x}
    /\ UNCHANGED <<expired, retryCount, produced>>

-----------------------------------------------------------------------------
(* The operator.                                                           *)

Operator == phase = "idle" /\ Spend("operator") /\ UNCHANGED <<claims, produced, orphans>>

\* POST /retry/:runId, whatever the status of the run.
RetryRun(r) ==
    /\ Operator /\ runStatus[r] # "absent"
    /\ LET reset == RowsIn(r, "parked") \cup (RowsIn(r, "claimed") \cap expired)
       IN  /\ taskStatus' = [n \in Nodes |->
                                IF n \in reset THEN "unclaimed" ELSE taskStatus[n]]
           /\ expired' = expired \ reset
    /\ runStatus' = [runStatus EXCEPT ![r] = "pending"]
    /\ recent' = recent \ {r}
    /\ Execute(r)
    /\ UNCHANGED <<taskRun, retryCount, todoVars, timer, cap, passVars, workVars>>

\* POST /:id/resolve, whatever the status of the ticket, the task and the run.
ResolveTodo(t) ==
    /\ Operator /\ t \in openTodos \cup resolvedTodos \cup rejectedTodos
    /\ openTodos' = openTodos \ {t} /\ rejectedTodos' = rejectedTodos \ {t}
    /\ resolvedTodos' = resolvedTodos \cup {t}
    /\ taskStatus' = [taskStatus EXCEPT ![t[1]] = "unclaimed"]
    /\ expired' = expired \ {t[1]}
    /\ LET r == taskRun[t[1]]
       IN  /\ runStatus' = [runStatus EXCEPT ![r] = IF @ = "parked" THEN "running" ELSE @]
           /\ IF r \in Runs /\ runStatus'[r] \in {"pending", "running"}
              THEN Execute(r)
              ELSE UNCHANGED <<resolvers, loopVars>>
    /\ UNCHANGED <<recent, taskRun, retryCount, timer, cap, passVars, workVars>>

\* POST /reject leaves the task and the run alone.
RejectTodo(t) ==
    /\ Operator /\ t \in openTodos \cup resolvedTodos \cup rejectedTodos
    /\ openTodos' = openTodos \ {t} /\ resolvedTodos' = resolvedTodos \ {t}
    /\ rejectedTodos' = rejectedTodos \cup {t}
    /\ UNCHANGED <<runVars, taskVars, loopVars, timer, cap, passVars, resolvers, workVars>>

-----------------------------------------------------------------------------
(* Heat, time, crashes and restarts.                                       *)

\* ScoutDaemon writes 0 while the processor is hot and the cap of the profile
\* when it has cooled, if the process lives so long (module Scout).
CapMoves ==
    /\ phase = "idle"
    /\ \/ cap # 0 /\ cap' = 0 /\ Spend("heat")
       \/ cap # MaxWorkers /\ cap' = MaxWorkers /\ UNCHANGED spent
    /\ UNCHANGED <<runVars, taskVars, todoVars, loopVars, timer, passVars, resolvers,
                    workVars, claims, produced, orphans>>

Outside == phase \in {"idle", "down"}

\* Five minutes after the claim, whether or not the executor is still at work.
LeaseExpires(n) ==
    /\ Outside /\ taskStatus[n] = "claimed" /\ n \notin expired
    /\ n \in {x[1] : x \in executing} => Spend("expiry")
    /\ n \notin {x[1] : x \in executing} => UNCHANGED spent
    /\ expired' = expired \cup {n}
    /\ UNCHANGED <<runVars, taskRun, taskStatus, retryCount, todoVars, loopVars, timer, cap,
                    passVars, resolvers, workVars, claims, produced, orphans>>

\* Fifteen minutes after completed_at.
WindowPasses(r) ==
    /\ Outside /\ r \in recent
    /\ recent' = recent \ {r}
    /\ UNCHANGED <<runStatus, taskVars, todoVars, loopVars, timer, cap, passVars, resolvers,
                    workVars, histVars>>

ProcessDies ==
    /\ phase # "down" /\ Spend("crash")
    /\ phase' = "down" /\ queued' = FALSE /\ timer' = FALSE
    /\ toVisit' = {} /\ slotsUsed' = 0 /\ needSlots' = FALSE /\ sawClaims' = FALSE
    /\ resolvers' = {} /\ executing' = {} /\ pooled' = {}
    /\ orphans' = orphans \cup {n \in Nodes : taskStatus[n] = "claimed"}
    /\ UNCHANGED <<cap, claims, produced>>

Crash == ProcessDies /\ UNCHANGED <<runVars, taskVars, todoVars>>

\* The process dies between the INSERTs of /approve or of a cron job.
CrashWhileSubmitting(r) ==
    /\ phase = "idle" /\ Origin[r] # "scout"
    /\ \E S \in SUBSET Rowless(r) : InsertRun(r, S)
    /\ ProcessDies

\* parkTask updates the task and inserts its ticket in two transactions.
CrashWhileParking(x) ==
    /\ Interruptible /\ x \in executing \ pooled
    /\ retryCount[x[1]] >= MaxRetries
    /\ taskStatus' = [taskStatus EXCEPT ![x[1]] = "parked"]
    /\ ProcessDies
    /\ UNCHANGED <<runVars, taskRun, expired, retryCount, todoVars>>

\* resumeInProgressRuns: executeRun for every run left pending or running.
Boot ==
    /\ phase = "down"
    /\ phase' = IF Active = {} THEN "idle" ELSE "scheduled"
    /\ queued' = (Cardinality(Active) > 1)
    /\ resolvers' = Active
    /\ UNCHANGED <<runVars, taskVars, todoVars, timer, cap, passVars, workVars, histVars>>

-----------------------------------------------------------------------------

Submission == \E r \in Runs :
    ApproveRun(r) \/ FireCron(r) \/ StageRun(r) \/ SubmitCollides(r)

VisitRun(r) ==
    \/ VisitMalformed(r) \/ VisitFinished(r) \/ VisitStalled(r)
    \/ VisitDeferred(r) \/ VisitSaturated(r) \/ VisitClaims(r)

Dispatcher ==
    \/ PassPaused \/ PassEmpty \/ PassStarts \/ PassEnds \/ LoopExits \/ DispatchEnds
    \/ \E r \in Runs : VisitRun(r)

Executor(x) == PoolAnswers(x) \/ ExecSucceeds(x) \/ ExecRetries(x) \/ ExecParks(x)

OperatorRequest ==
    \/ \E r \in Runs : RetryRun(r)
    \/ \E t \in openTodos \cup resolvedTodos \cup rejectedTodos :
          ResolveTodo(t) \/ RejectTodo(t)

TimePasses ==
    \/ \E n \in Nodes : LeaseExpires(n)
    \/ \E r \in Runs : WindowPasses(r)
    \/ CapMoves

Crashes ==
    \/ Crash
    \/ \E r \in Runs : CrashWhileSubmitting(r)
    \/ \E x \in executing : CrashWhileParking(x)

Next ==
    \/ Submission
    \/ Dispatcher
    \/ WatchdogFires
    \/ \E x \in executing : Executor(x)
    \/ OperatorRequest
    \/ TimePasses
    \/ Crashes
    \/ Boot

Spec == Init /\ [][Next]_vars

\* The event loop drains its microtasks and fires its timers, every execution
\* ends, leases run out, and somebody starts the server again.  What ends while
\* the dispatcher is busy waits for its turn: the watchdog, busy for an instant
\* every five seconds, cannot keep it out for ever.
Fairness ==
    /\ WF_vars(Dispatcher) /\ WF_vars(WatchdogFires) /\ WF_vars(Boot)
    /\ \A n \in Nodes :
          /\ SF_vars(\E x \in executing : x[1] = n /\ Executor(x))
          /\ SF_vars(LeaseExpires(n))

FairSpec == Spec /\ Fairness

=============================================================================
