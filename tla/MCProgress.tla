----------------------------- MODULE MCProgress -----------------------------
(* What must happen in the end, on instances small enough for liveness: the  *)
(* dispatcher, the write queue, the teardown of terminals, the event streams *)
(* and the idle daemon.  A behaviour runs one of them; the others rest, and  *)
(* one at rest has no step it is owed.                                       *)
EXTENDS Shutdown, Access, Scout, TLC

CONSTANTS
    Services,              \* the services of the instance
    s1, w1,                \* a terminal session and its workspace
    approved, fired,       \* a run of the approval and a run of the cron scheduler
    n1, n3,                \* their nodes
    h1,                    \* a worker thread
    \* CoreExec
    Runs, Nodes, NoRun, Layout, Deps, Origin, Malformed, PoolNodes, Unrunnable,
    MaxWorkers, ClaimBatch, MaxRetries, Budget,
    \* WriteQueue
    Tasks, Threads, NoTask, Host, MaxPending, MaxPosts, MaxFaults

ASSUME Services # {}

VARIABLES
    running,
    \* CoreExec
    runStatus, recent, taskRun, taskStatus, expired, retryCount, openTodos,
    resolvedTodos, rejectedTodos, cap, phase, queued, timer, toVisit, slotsUsed,
    needSlots, sawClaims, resolvers, executing, pooled, claims, produced, orphans, spent,
    \* WriteQueue
    taskStage, client, pending, posted, wire, acks, farOpen, sawClose, log, shared,
    forced, faults

Dispatch == INSTANCE CoreExecProperties
Queue == INSTANCE WriteQueueProperties WITH stage <- taskStage

dispatchVars == <<runStatus, recent, taskRun, taskStatus, expired, retryCount, openTodos,
                  resolvedTodos, rejectedTodos, cap, phase, queued, timer, toVisit, slotsUsed,
                  needSlots, sawClaims, resolvers, executing, pooled, claims, produced,
                  orphans, spent>>
queueVars == <<taskStage, client, pending, posted, wire, acks, farOpen, sawClose, log,
               shared, forced, faults>>

OneWorkspace == [s \in Sessions |-> w1]
SingleNodes == approved :> {n1} @@ fired :> {n3}
Unchained == [n \in Nodes |-> {}]
TwoOrigins == approved :> "approve" @@ fired :> "cron"
HeatAndCrash == [expiry |-> 0, operator |-> 0, crash |-> 1, heat |-> 1]
AllOnOne == [t \in Tasks |-> h1]

ProgressInit ==
    /\ running \in Services
    /\ Dispatch!Init /\ Queue!Init /\ Init /\ AccessInit /\ ScoutInit

ProgressNext ==
    /\ UNCHANGED running
    /\ \/ running = "dispatch" /\ Dispatch!Next /\ UNCHANGED <<queueVars, vars, avars, svars>>
       \/ running = "queue" /\ Queue!Next /\ UNCHANGED <<dispatchVars, vars, avars, svars>>
       \/ running = "shutdown" /\ Next /\ UNCHANGED <<dispatchVars, queueVars, avars, svars>>
       \/ running = "access" /\ AccessNext /\ UNCHANGED <<dispatchVars, queueVars, vars, svars>>
       \/ running = "scout" /\ ScoutNext /\ UNCHANGED <<dispatchVars, queueVars, vars, avars>>

\* ScoutFairness while the daemon runs: its interval is always enabled.
IdleDaemonFairness ==
    \A k \in Checks :
        /\ WF_svars(running = "scout" /\ CheckStarts(k))
        /\ WF_svars(running = "scout" /\ CheckEnds(k))
        /\ SF_svars(running = "scout" /\ heat = "cool" /\ CheckEnds(k) /\ Recover)

ProgressSpec ==
    /\ ProgressInit
    /\ [][ProgressNext]_<<running, dispatchVars, queueVars, vars, avars, svars>>
    /\ Dispatch!Fairness /\ Queue!Fairness
    /\ Fairness /\ AccessFairness /\ IdleDaemonFairness

RunsSettle == Dispatch!RunsSettle
DrainSettles == Queue!DrainSettles
=============================================================================
