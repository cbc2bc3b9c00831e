------------------------- MODULE CoreExecRefinement -------------------------
(***************************************************************************)
(* CoreExec implements DagExecution, for every set of runs and nodes: each *)
(* step of the scheduler is a step of what it promises, or leaves that     *)
(* unchanged.  The invariants of CoreExecProofs supply what a step needs:  *)
(* a task that starts has its dependencies done, the task that blocks a    *)
(* run is in the layout of the run, and whatever ends had been started.    *)
(***************************************************************************)
EXTENDS CoreExecProofs

Begun == {n \in Nodes : claims[n] > 0}
Blocked == {n \in Nodes : taskStatus[n] = "parked"}
Verdicts == [r \in Runs |-> Verdict(r)]

USE DEF Tickets, Begun, Blocked, Verdicts

PromiseStep == [Promise!Next]_(Promise!vars)

-----------------------------------------------------------------------------
(* The steps of the promise, in terms of what CoreExec keeps.               *)

LEMMA Stutters ==
  ASSUME Begun' = Begun, produced' = produced, Blocked' = Blocked, Verdicts' = Verdicts
  PROVE  PromiseStep
BY DEF PromiseStep, Promise!vars

LEMMA VerdictFrame == ASSUME UNCHANGED runStatus PROVE Verdicts' = Verdicts
BY DEF Verdict, Settled

LEMMA Quiet ==
  ASSUME UNCHANGED <<runStatus, taskStatus, claims, produced>>
  PROVE  PromiseStep
<1>1. Begun' = Begun /\ produced' = produced /\ Blocked' = Blocked
  OBVIOUS
<1> QED
  BY <1>1, Stutters, VerdictFrame

(* A verdict is the status of a settled run.                                *)
LEMMA VerdictMoves ==
  ASSUME TypeInv, NEW r \in Runs, NEW status \in RunStatuses,
         runStatus' = [runStatus EXCEPT ![r] = status]
  PROVE  Verdicts' = [Verdicts EXCEPT ![r] =
                         IF status \in {"completed", "failed", "parked"} THEN status ELSE "none"]
<1>1. \A q \in Runs : runStatus'[q] = IF q = r THEN status ELSE runStatus[q]
  BY DEF TypeInv, TypeOK
<1>2. \A q \in Runs : Verdict(q)' =
         IF q = r THEN IF status \in {"completed", "failed", "parked"} THEN status ELSE "none"
         ELSE Verdict(q)
  BY <1>1 DEF Verdict, Settled
<1> QED
  BY <1>2

LEMMA KeepsRunning ==
  ASSUME TypeInv, NEW r \in Active, NEW status \in {"pending", "running"},
         runStatus' = [runStatus EXCEPT ![r] = status]
  PROVE  Verdicts' = Verdicts
<1>1. r \in Runs /\ Verdicts[r] = "none"
  BY DEF Active, Verdict, Settled
<1>2. Verdicts' = [Verdicts EXCEPT ![r] = "none"]
  BY <1>1, VerdictMoves DEF RunStatuses
<1> QED
  BY <1>1, <1>2

-----------------------------------------------------------------------------
(* Submissions and the dispatcher.                                          *)

LEMMA InsertStutters ==
  ASSUME IInv, NEW r \in Runs, NEW S \in SUBSET Rowless(r), InsertRun(r, S),
         UNCHANGED <<claims, produced>>
  PROVE  PromiseStep
<1> USE DEF IInv, TypeInv, TypeOK, InsertRun
<1>1. \A n \in S : n \in Nodes /\ taskStatus[n] = "absent"
  BY LayoutAssumption DEF Rowless, TaskInv, RowInLayout
<1>2. \A n \in Nodes : taskStatus'[n] = "parked" <=> taskStatus[n] = "parked"
  BY <1>1
<1>3. Begun' = Begun /\ produced' = produced /\ Blocked' = Blocked
  BY <1>2
<1>4. Verdicts' = Verdicts
  <2>1. Verdicts[r] = "none"
    BY DEF Verdict, Settled
  <2>2. Verdicts' = [Verdicts EXCEPT ![r] = "none"]
    BY VerdictMoves DEF RunStatuses
  <2> QED
    BY <2>1, <2>2
<1> QED
  BY <1>3, <1>4, Stutters

LEMMA SettleConcludes ==
  ASSUME TypeInv, VisitsActive, NEW r \in Runs, Visit(r), NoTaskMoves,
         NEW status \in {"completed", "failed", "parked"}, SettleRun(r, status),
         status = "completed" => Layout[r] \subseteq produced,
         status = "parked" => Layout[r] \cap Blocked # {}
  PROVE  PromiseStep
<1>1. UNCHANGED <<taskStatus, claims, produced>> /\ r \in Active
      /\ runStatus' = [runStatus EXCEPT ![r] = status]
  BY DEF Visit, NoTaskMoves, SettleRun, VisitsActive
<1>2. Verdicts' = [Verdicts EXCEPT ![r] = status]
  BY <1>1, VerdictMoves DEF RunStatuses
<1>3. Verdicts[r] = "none"
  BY <1>1 DEF Active, Verdict, Settled
<1>4. Promise!Conclude(r, status)
  BY <1>1, <1>2, <1>3 DEF Promise!Conclude
<1> QED
  BY <1>4 DEF PromiseStep, Promise!Next

LEMMA ClaimsStart ==
  ASSUME IInv, NEW r \in Runs, VisitClaims(r)
  PROVE  PromiseStep
<1>1. PICK S \in SUBSET Eligible(r) : ClaimTasks(r, S)
  BY ClaimsSome
<1>2. /\ Visit(r) /\ UNCHANGED produced /\ r \in Active
      /\ runStatus' = [runStatus EXCEPT ![r] = "running"]
  BY DEF VisitClaims, VisitEligible, Visit, KeepRunning, IInv, RunInv, VisitsActive
<1>3. Verdicts' = Verdicts
  BY <1>2, KeepsRunning DEF IInv
<1> USE DEF IInv, TypeInv, TypeOK
<1>4. \A n \in S : /\ n \in Nodes /\ taskStatus[n] # "parked"
                   /\ Deps[n] \subseteq produced
  BY DEF Eligible, Claimable, Rows, RowsIn, TaskInv, CompletedIsProduced
<1>5. Begun' = Begun \cup S
  BY <1>1, <1>4 DEF ClaimTasks
<1>6. Blocked' = (Blocked \ S) \cup (S \cap Unrunnable)
  BY <1>1, <1>4 DEF ClaimTasks
<1>7. Promise!Start(S, S \cap Unrunnable)
  BY <1>2, <1>3, <1>4, <1>5, <1>6 DEF Promise!Start
<1>8. S \in SUBSET Nodes /\ S \cap Unrunnable \in SUBSET S
  BY <1>4
<1> QED
  BY <1>7, <1>8 DEF PromiseStep, Promise!Next

LEMMA StepDispatcher ==
  ASSUME IInv, Dispatcher
  PROVE  PromiseStep
<1> USE DEF IInv
<1>1. ASSUME PassPaused \/ PassEmpty \/ PassStarts \/ PassEnds \/ LoopExits \/ DispatchEnds
      PROVE  PromiseStep
  BY <1>1, Quiet DEF PassPaused, PassEmpty, PassStarts, PassBegins, PassEnds, LoopExits,
       DispatchEnds, runVars, taskVars, histVars
<1>2. ASSUME NEW r \in Runs, Visit(r), NoTaskMoves, KeepRunning(r) PROVE PromiseStep
  <2>1. /\ UNCHANGED <<taskStatus, claims, produced>> /\ r \in Active
        /\ runStatus' = [runStatus EXCEPT ![r] = "running"]
    BY <1>2 DEF Visit, NoTaskMoves, KeepRunning, RunInv, VisitsActive
  <2>2. Verdicts' = Verdicts
    BY <2>1, KeepsRunning
  <2> QED
    BY <2>1, <2>2, Stutters
<1>3. ASSUME NEW r \in Runs, VisitMalformed(r) PROVE PromiseStep
  BY <1>3, SettleConcludes DEF VisitMalformed, RunInv
<1>4. ASSUME NEW r \in Runs, VisitFinished(r) PROVE PromiseStep
  <2>1. Layout[r] \subseteq produced
    BY <1>4 DEF VisitFinished, RowsIn, Rows, TaskInv, CompletedIsProduced
  <2> QED
    BY <1>4, <2>1, SettleConcludes DEF VisitFinished, RunInv
<1>5. ASSUME NEW r \in Runs, VisitStalled(r) PROVE PromiseStep
  <2>1. CASE RowsIn(r, "claimed") # {}
    BY <1>2, <1>5, <2>1 DEF VisitStalled
  <2>2. CASE RowsIn(r, "claimed") = {} /\ RowsIn(r, "parked") # {}
    <3>1. Layout[r] \cap Blocked # {}
      BY <2>2, RunAssumption DEF TaskInv, RowInLayout, RowsIn, Rows
    <3> QED
      BY <1>5, <2>2, <3>1, SettleConcludes DEF VisitStalled, RunInv
  <2>3. CASE RowsIn(r, "claimed") = {} /\ RowsIn(r, "parked") = {}
    BY <1>5, <2>3, SettleConcludes DEF VisitStalled, RunInv
  <2> QED
    BY <2>1, <2>2, <2>3
<1>6. ASSUME NEW r \in Runs, VisitDeferred(r) \/ VisitSaturated(r) PROVE PromiseStep
  BY <1>2, <1>6 DEF VisitDeferred, VisitSaturated, VisitEligible
<1> QED
  BY <1>1, <1>3, <1>4, <1>5, <1>6, ClaimsStart DEF Dispatcher, VisitRun

-----------------------------------------------------------------------------
(* Executors, the operator and crashes.                                     *)

LEMMA ParkBlocks ==
  ASSUME IInv, NEW x \in executing, taskStatus' = [taskStatus EXCEPT ![x[1]] = "parked"],
         UNCHANGED <<runStatus, claims, produced>>
  PROVE  PromiseStep
<1> USE DEF IInv, TypeInv, TypeOK, Executions
<1>1. x[1] \in Nodes /\ x[1] \in Begun
  BY DEF TaskInv, WorkWasStarted
<1>2. Blocked' = Blocked \cup {x[1]}
  BY <1>1
<1>3. Begun' = Begun /\ Verdicts' = Verdicts
  BY VerdictFrame
<1>4. Promise!Block(x[1])
  BY <1>1, <1>2, <1>3 DEF Promise!Block
<1> QED
  BY <1>1, <1>4 DEF PromiseStep, Promise!Next

LEMMA StepExecutor ==
  ASSUME IInv, NEW x \in executing, Executor(x)
  PROVE  PromiseStep
<1> USE DEF IInv, TypeInv, TypeOK, Executions
<1>1. x[1] \in Nodes /\ x[1] \in Begun
  BY DEF TaskInv, WorkWasStarted
<1>2. ASSUME PoolAnswers(x) PROVE PromiseStep
  BY <1>2, Quiet DEF PoolAnswers, runVars, taskVars, histVars
<1>3. ASSUME ExecutionEnds(x) PROVE Begun' = Begun /\ Verdicts' = Verdicts
  BY <1>3, VerdictFrame DEF ExecutionEnds, runVars
<1>4. ASSUME ExecSucceeds(x) PROVE PromiseStep
  <2>1. Blocked' = Blocked \ {x[1]} /\ produced' = produced \cup {x[1]}
    BY <1>4, <1>1 DEF ExecSucceeds
  <2>2. Promise!Finish(x[1])
    BY <1>1, <1>3, <1>4, <2>1 DEF ExecSucceeds, Promise!Finish
  <2> QED
    BY <1>1, <2>2 DEF PromiseStep, Promise!Next
<1>5. ASSUME ExecRetries(x) PROVE PromiseStep
  <2>1. Blocked' = Blocked \ {x[1]} /\ produced' = produced
    BY <1>5, <1>1 DEF ExecRetries
  <2>2. Promise!TryAgain(x[1])
    BY <1>1, <1>3, <1>5, <2>1 DEF ExecRetries, Promise!TryAgain
  <2> QED
    BY <1>1, <2>2 DEF PromiseStep, Promise!Next
<1>6. ASSUME ExecParks(x) PROVE PromiseStep
  BY <1>6, ParkBlocks DEF ExecParks, ExecutionEnds, runVars
<1> QED
  BY <1>2, <1>4, <1>5, <1>6 DEF Executor

LEMMA Reopens ==
  ASSUME NEW r \in Runs, NEW U \in SUBSET Layout[r], Promise!Reopen(r, U)
  PROVE  PromiseStep
BY DEF PromiseStep, Promise!Next

(* A retry reopens the run with all its parked tasks; a resolved ticket     *)
(* reopens a parked run with one task, or frees the task alone.             *)
LEMMA StepOperator ==
  ASSUME IInv, OperatorRequest
  PROVE  PromiseStep
<1> USE DEF IInv, TypeInv, TypeOK, Operator
<1>1. ASSUME NEW r \in Runs, RetryRun(r) PROVE PromiseStep
  <2>1. RowsIn(r, "parked") \in SUBSET Layout[r]
    BY RunAssumption DEF TaskInv, RowInLayout, RowsIn, Rows
  <2>2. PICK U \in SUBSET Layout[r] : U = RowsIn(r, "parked")
    BY <2>1
  <2>3. Blocked' = Blocked \ U
    BY <1>1, <2>2 DEF RetryRun, RowsIn, Rows
  <2>4. Verdicts' = [Verdicts EXCEPT ![r] = "none"]
    BY <1>1, VerdictMoves DEF RetryRun, RunStatuses
  <2>5. Promise!Reopen(r, U)
    BY <1>1, <2>3, <2>4 DEF RetryRun, Promise!Reopen
  <2> QED
    BY <2>5, Reopens
<1>2. ASSUME NEW t \in Tickets, ResolveTodo(t) PROVE PromiseStep
  <2> DEFINE n == t[1]
             r == taskRun[n]
  <2>1. n \in Nodes /\ r \in Runs /\ n \in Layout[r]
    BY DEF Executions, TaskInv, WorkWasStarted, StartedHasRow, RowInLayout
  <2>2. Blocked' = Blocked \ {n} /\ Begun' = Begun /\ produced' = produced
    BY <1>2, <2>1 DEF ResolveTodo
  <2>3. CASE runStatus[r] = "parked"
    <3>1. runStatus' = [runStatus EXCEPT ![r] = "running"]
      BY <1>2, <2>1, <2>3 DEF ResolveTodo
    <3>2. Verdicts' = [Verdicts EXCEPT ![r] = "none"]
      BY <2>1, <3>1, VerdictMoves DEF RunStatuses
    <3>3. {n} \in SUBSET Layout[r]
      BY <2>1
    <3> HIDE DEF n, r
    <3>4. Promise!Reopen(r, {n})
      BY <2>2, <3>2, <3>3 DEF Promise!Reopen
    <3> QED
      BY <2>1, <3>3, <3>4, Reopens
  <2>4. CASE runStatus[r] # "parked"
    <3>1. runStatus' = runStatus
      BY <1>2, <2>1, <2>4 DEF ResolveTodo
    <3>2. Promise!Unblock(n)
      BY <2>2, <3>1, VerdictFrame DEF Promise!Unblock
    <3> QED
      BY <2>1, <3>2 DEF PromiseStep, Promise!Next
  <2> QED
    BY <2>3, <2>4
<1>3. ASSUME NEW t \in Tickets, RejectTodo(t) PROVE PromiseStep
  BY <1>3, Quiet DEF RejectTodo, runVars, taskVars
<1> QED
  BY <1>1, <1>2, <1>3 DEF OperatorRequest

LEMMA StepCrash ==
  ASSUME IInv, Crashes
  PROVE  PromiseStep
<1>1. ASSUME Crash PROVE PromiseStep
  BY <1>1, Quiet DEF Crash, ProcessDies, runVars, taskVars
<1>2. ASSUME NEW r \in Runs, CrashWhileSubmitting(r) PROVE PromiseStep
  <2>1. PICK S \in SUBSET Rowless(r) : InsertRun(r, S)
    BY <1>2 DEF CrashWhileSubmitting
  <2> QED
    BY <1>2, <2>1, InsertStutters DEF CrashWhileSubmitting, ProcessDies
<1>3. ASSUME NEW x \in executing, CrashWhileParking(x) PROVE PromiseStep
  BY <1>3, ParkBlocks DEF CrashWhileParking, ProcessDies, runVars
<1> QED
  BY <1>1, <1>2, <1>3 DEF Crashes

LEMMA StepKeepsPromise == IInv /\ [Next]_vars => PromiseStep
<1> SUFFICES ASSUME IInv, [Next]_vars PROVE PromiseStep
  OBVIOUS
<1>1. ASSUME UNCHANGED vars \/ WatchdogFires \/ TimePasses \/ Boot PROVE PromiseStep
  BY <1>1, Quiet DEF vars, WatchdogFires, TimePasses, LeaseExpires, WindowPasses, CapMoves, Boot, runVars,
       taskVars, histVars
<1>2. ASSUME Submission PROVE PromiseStep
  <2>1. PICK r \in Runs : ApproveRun(r) \/ FireCron(r) \/ StageRun(r) \/ SubmitCollides(r)
    BY <1>2 DEF Submission
  <2>2. PICK S \in SUBSET Rowless(r) : InsertRun(r, S)
    BY <2>1 DEF ApproveRun, FireCron, StageRun, SubmitCollides
  <2>3. UNCHANGED <<claims, produced>>
    BY <2>1 DEF ApproveRun, FireCron, StageRun, SubmitCollides, histVars
  <2> QED
    BY <2>2, <2>3, InsertStutters
<1> QED
  BY <1>1, <1>2, StepDispatcher, StepExecutor, StepOperator, StepCrash DEF Next

(* The dispatcher with its passes, leases, retries and crashes does nothing *)
(* that whoever submits a DAG could not explain by DagExecution.            *)
THEOREM PromiseKept == Spec => KeepsPromise
<1>1. Init => Promise!Init
  BY DEF Init, Promise!Init, Verdict, Settled
<1>2. IInv /\ [Next]_vars => [Promise!Next]_(Promise!vars)
  BY StepKeepsPromise DEF PromiseStep
<1> QED
  BY <1>1, <1>2, InvCorrect, PTL DEF Spec, KeepsPromise, Promise!Spec
=============================================================================
