------------------------- MODULE CoreExecProperties -------------------------
(***************************************************************************)
(* What the CoreExec scheduler must guarantee.                             *)
(***************************************************************************)
EXTENDS CoreExec

(* A task that is 'claimed' is not lost: the executor of its latest claim   *)
(* is at work, or it died with the process and only its lease remains.      *)
(* Otherwise the run would wait for a result nobody is computing.           *)
ClaimedHasExecutor ==
    \A n \in Nodes : taskStatus[n] = "claimed" =>
        <<n, claims[n]>> \in executing \/ n \in orphans

(* The edges of the DAG are respected: no node was ever started before each *)
(* of its dependencies had produced a result, across retries, reclaimed     *)
(* leases, operator requests and crashes.                                   *)
StartedAfterDeps ==
    \A n \in Nodes : claims[n] > 0 => Deps[n] \subseteq produced

(* A run is reported completed only if every node of its layout has run,    *)
(* rows missing after an interrupted submission included.                   *)
CompletedRunWasComplete ==
    \A r \in Runs : runStatus[r] = "completed" => Layout[r] \subseteq produced

(* dispatchLoop gives a run up as failed only if its layout is malformed or *)
(* some of its task rows are missing: with all rows there, an acyclic DAG   *)
(* always has a task to run, to wait for, or to ask the operator about.     *)
FailedOnlyIfBroken ==
    \A r \in Runs : runStatus[r] = "failed" =>
        r \in Malformed \/ Rows(r) # Layout[r]

(* What is reported of a run is founded, whichever crash or retry came first. *)
VerdictsFounded == CompletedRunWasComplete /\ FailedOnlyIfBroken

(* Nobody awaits a settled run: a promise of executeRun is kept in          *)
(* runResolvers only while its run is pending or running.                   *)
ResolverOnlyForActive == resolvers \subseteq Active

(* The worker pool never executes more tasks than the hardware profile      *)
(* allows, although the count is read only once per pass.                   *)
PoolBound == Cardinality(pooled) <= MaxWorkers

(* A parked task has a ticket the operator can find, open or rejected; only *)
(* a crash between the two writes of parkTask can lose it.                  *)
ParkedHasTicket ==
    \A n \in Nodes : taskStatus[n] = "parked" =>
        \/ \E t \in openTodos \cup rejectedTodos : t[1] = n
        \/ spent["crash"] > 0

(* Two executors work on one task only after a lease ran out under a live   *)
(* executor or an operator sent the task back to the queue.                 *)
SoleExecutor ==
    spent["expiry"] + spent["operator"] = 0 =>
        \A x, y \in executing : x[1] = y[1] => x = y

(* What the dispatcher must never do to the executions it starts.           *)
ExecutorsSound == PoolBound /\ ParkedHasTicket /\ SoleExecutor

(* Track A first: a pass never starts a Track B task while a well-formed    *)
(* Track A run still has a task it could start.  A task is of the run that  *)
(* owns its row: layouts may share a node id, and the first run to insert   *)
(* it keeps it.                                                             *)
Starts(r) == \E n \in Rows(r) : claims'[n] # claims[n]
TrackPrecedence ==
    [][\A r, q \in Runs :
         Starts(r) /\ Track(r) = "track2" /\ Track(q) = "track1" /\ q \in Active \ Malformed
           => Eligible(q) = {}]_vars

(* A run that the dispatcher has taken up, or that a caller awaits, is      *)
(* settled in the end if the breaker never opens and the worker cap is not  *)
(* left at 0, as it is when the process ends while the processor is hot:    *)
(* retries are limited, a lost wakeup or a cap that comes back is seen by   *)
(* the watchdog, and a crash is made good by the next start of the server.  *)
Settled(r) == runStatus[r] \in {"completed", "failed", "parked"}
RunsSettle ==
    []~BreakerOpen /\ <>[](cap > 0) =>
        \A r \in Runs : (runStatus[r] = "running" \/ r \in resolvers) ~> Settled(r)

(* The scheduler keeps the promise of DagExecution.                         *)
Verdict(r) == IF Settled(r) THEN runStatus[r] ELSE "none"
Promise == INSTANCE DagExecution WITH
    started <- {n \in Nodes : claims[n] > 0},
    done    <- produced,
    blocked <- {n \in Nodes : taskStatus[n] = "parked"},
    verdict <- [r \in Runs |-> Verdict(r)]
KeepsPromise == Promise!Spec
=============================================================================
