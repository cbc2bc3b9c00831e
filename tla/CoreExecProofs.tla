--------------------------- MODULE CoreExecProofs ---------------------------
(***************************************************************************)
(* What holds of CoreExec for every set of runs and nodes, every layout    *)
(* and every bound.                                                        *)
(***************************************************************************)
EXTENDS CoreExecProperties, TLAPS, FiniteSetTheorems

-----------------------------------------------------------------------------
(* Typing.  slotsUsed counts executions, so the typing is inductive only    *)
(* together with the fact that finitely many executions are at work.        *)

TypeInv == TypeOK /\ IsFiniteSet(executing)

LEMMA TypeInit == Init => TypeInv
<1> SUFFICES ASSUME Init PROVE TypeInv
  OBVIOUS
<1> USE DEF Init, Kinds
<1>1. /\ runStatus \in [Runs -> RunStatuses] /\ taskRun \in [Nodes -> Runs \cup {NoRun}]
      /\ taskStatus \in [Nodes -> TaskStatuses] /\ phase \in Phases
  BY DEF RunStatuses, TaskStatuses, Phases
<1>2. retryCount \in [Nodes -> Nat] /\ claims \in [Nodes -> Nat] /\ spent \in [Kinds -> Nat]
  OBVIOUS
<1>3. IsFiniteSet(executing)
  BY FS_EmptySet
<1>4. cap \in 0..MaxWorkers
  BY BoundAssumption
<1> QED
  BY <1>1, <1>2, <1>3, <1>4 DEF TypeOK, TypeInv

LEMMA TypeSubmission ==
  ASSUME TypeInv, Submission
  PROVE  TypeInv'
<1> USE DEF TypeInv
<1>1. PICK r \in Runs : ApproveRun(r) \/ FireCron(r) \/ StageRun(r) \/ SubmitCollides(r)
  BY DEF Submission
<1>2. PICK S \in SUBSET Nodes : InsertRun(r, S)
  <2>1. Layout[r] \subseteq Nodes
    BY LayoutAssumption
  <2> QED
    BY <1>1, <2>1 DEF ApproveRun, FireCron, StageRun, SubmitCollides, Rowless
<1>3. /\ runStatus' \in [Runs -> RunStatuses] /\ taskRun' \in [Nodes -> Runs \cup {NoRun}]
      /\ taskStatus' \in [Nodes -> TaskStatuses]
  BY <1>2 DEF TypeOK, InsertRun, RunStatuses, TaskStatuses
<1>4. /\ resolvers' \subseteq Runs /\ phase' \in Phases /\ queued' \in BOOLEAN
      /\ UNCHANGED <<timer, cap, passVars, workVars, histVars>>
  BY <1>1 DEF TypeOK, ApproveRun, FireCron, StageRun, SubmitCollides, Execute, Trigger,
       loopVars, Phases
<1> QED
  BY <1>2, <1>3, <1>4 DEF TypeOK, InsertRun, todoVars, passVars, workVars, histVars

LEMMA ClaimsSome ==
  ASSUME NEW r \in Runs, VisitClaims(r)
  PROVE  \E S \in SUBSET Eligible(r) : ClaimTasks(r, S)
BY DEF VisitClaims, kSubset

LEMMA TypeDispatcher ==
  ASSUME TypeInv, Dispatcher
  PROVE  TypeInv'
<1> USE DEF TypeInv, TypeOK, runVars, taskVars, todoVars, loopVars, passVars, workVars, histVars
<1>1. ASSUME PassPaused PROVE TypeInv'
  BY <1>1 DEF PassPaused, PassBegins, Phases
<1>2. ASSUME PassEmpty PROVE TypeInv'
  BY <1>2 DEF PassEmpty, PassBegins, Phases
<1>3. ASSUME PassStarts PROVE TypeInv'
  <2>1. Cardinality(pooled) \in Nat
    BY FS_CardinalityType, FS_Subset
  <2> QED
    BY <1>3, <2>1 DEF PassStarts, PassBegins, Phases, Active
<1>4. ASSUME PassEnds PROVE TypeInv'
  BY <1>4 DEF PassEnds, Phases
<1>5. ASSUME LoopExits PROVE TypeInv'
  BY <1>5 DEF LoopExits, Phases
<1>6. ASSUME DispatchEnds PROVE TypeInv'
  BY <1>6 DEF DispatchEnds, Phases
<1>7. ASSUME NEW r \in Runs, VisitMalformed(r) PROVE TypeInv'
  BY <1>7 DEF VisitMalformed, Visit, NoTaskMoves, SettleRun, RunStatuses
<1>8. ASSUME NEW r \in Runs, VisitFinished(r) PROVE TypeInv'
  BY <1>8 DEF VisitFinished, Visit, NoTaskMoves, SettleRun, RunStatuses
<1>9. ASSUME NEW r \in Runs, VisitStalled(r) PROVE TypeInv'
  BY <1>9 DEF VisitStalled, Visit, NoTaskMoves, SettleRun, KeepRunning, RunStatuses
<1>10. ASSUME NEW r \in Runs, VisitDeferred(r) PROVE TypeInv'
  BY <1>10 DEF VisitDeferred, VisitEligible, Visit, NoTaskMoves, KeepRunning, RunStatuses
<1>11. ASSUME NEW r \in Runs, VisitSaturated(r) PROVE TypeInv'
  BY <1>11 DEF VisitSaturated, VisitEligible, Visit, NoTaskMoves, KeepRunning, RunStatuses
<1>12. ASSUME NEW r \in Runs, VisitClaims(r) PROVE TypeInv'
  <2>1. PICK S \in SUBSET Eligible(r) : ClaimTasks(r, S)
    BY <1>12, ClaimsSome
  <2>2. S \subseteq Nodes /\ IsFiniteSet(S) /\ Cardinality(S) \in Nat
    BY NodeAssumption, FS_Subset, FS_CardinalityType DEF Eligible, Rows
  <2>3. IsFiniteSet(Started(S)) /\ Started(S) \subseteq Executions
    <3> DEFINE D == S \ Unrunnable
               f == [n \in D |-> <<n, claims[n] + 1>>]
    <3>1. IsFiniteSet(D)
      BY <2>2, FS_Subset
    <3>2. f \in Surjection(D, Started(S))
      BY DEF Started, Surjection
    <3>3. IsFiniteSet(Started(S))
      <4> HIDE DEF D, f
      <4> QED
        BY <3>1, <3>2, FS_Surjection
    <3> QED
      BY <2>2, <3>3 DEF Started, Executions
  <2>4. executing' \subseteq Executions /\ pooled' \subseteq executing' /\ IsFiniteSet(executing')
    BY <2>1, <2>3, FS_Union DEF ClaimTasks
  <2>5. /\ taskStatus' \in [Nodes -> TaskStatuses] /\ claims' \in [Nodes -> Nat]
        /\ expired' \subseteq Nodes /\ orphans' \subseteq Nodes
        /\ openTodos' \subseteq Executions
    BY <2>1, <2>2 DEF ClaimTasks, TaskStatuses, Executions
  <2>6. slotsUsed' \in Nat /\ queued' \in BOOLEAN /\ needSlots' \in BOOLEAN /\ sawClaims' \in BOOLEAN
    BY <2>1, <2>2 DEF ClaimTasks
  <2> QED
    BY <1>12, <2>4, <2>5, <2>6 DEF VisitClaims, VisitEligible, Visit, KeepRunning, RunStatuses
<1> QED
  BY <1>1, <1>2, <1>3, <1>4, <1>5, <1>6, <1>7, <1>8, <1>9, <1>10, <1>11, <1>12
     DEF Dispatcher, VisitRun

LEMMA TypeExecutor ==
  ASSUME TypeInv, NEW x \in executing, Executor(x)
  PROVE  TypeInv'
<1> USE DEF TypeInv, TypeOK, runVars, taskVars, todoVars, loopVars, passVars, workVars, histVars
<1>1. x \in Executions /\ x[1] \in Nodes
  BY DEF Executions
<1>2. IsFiniteSet(executing \ {x})
  BY FS_Subset
<1>3. ASSUME PoolAnswers(x) PROVE TypeInv'
  BY <1>3 DEF PoolAnswers
<1>4. ASSUME ExecutionEnds(x) PROVE phase' \in Phases /\ queued' \in BOOLEAN
  BY <1>4 DEF ExecutionEnds, Trigger, Phases
<1>5. ASSUME ExecSucceeds(x) PROVE TypeInv'
  BY <1>1, <1>2, <1>4, <1>5 DEF ExecSucceeds, ExecutionEnds, TaskStatuses
<1>6. ASSUME ExecRetries(x) PROVE TypeInv'
  BY <1>1, <1>2, <1>4, <1>6 DEF ExecRetries, ExecutionEnds, TaskStatuses
<1>7. ASSUME ExecParks(x) PROVE TypeInv'
  BY <1>1, <1>2, <1>4, <1>7 DEF ExecParks, ExecutionEnds, TaskStatuses
<1> QED
  BY <1>3, <1>5, <1>6, <1>7 DEF Executor

LEMMA TypeOperator ==
  ASSUME TypeInv, OperatorRequest
  PROVE  TypeInv'
<1> USE DEF TypeInv, TypeOK, runVars, taskVars, todoVars, loopVars, passVars, workVars, histVars
<1>1. ASSUME Operator PROVE spent' \in [Kinds -> Nat] /\ UNCHANGED <<claims, produced, orphans>>
  BY <1>1 DEF Operator, Spend, Kinds
<1>2. ASSUME Trigger PROVE phase' \in Phases /\ queued' \in BOOLEAN
  BY <1>2 DEF Trigger, Phases
<1>3. ASSUME NEW r \in Runs, RetryRun(r) PROVE TypeInv'
  BY <1>1, <1>2, <1>3 DEF RetryRun, Execute, RunStatuses, TaskStatuses
<1>4. ASSUME NEW t \in Executions, RejectTodo(t) PROVE TypeInv'
  BY <1>1, <1>4 DEF RejectTodo
<1>5. ASSUME NEW t \in Executions, ResolveTodo(t) PROVE TypeInv'
  <2>1. t[1] \in Nodes
    BY DEF Executions
  <2>2. resolvers' \subseteq Runs /\ phase' \in Phases /\ queued' \in BOOLEAN
    <3> DEFINE r == taskRun[t[1]]
    <3>1. CASE r \in Runs /\ runStatus'[r] \in {"pending", "running"}
      BY <1>2, <1>5, <3>1 DEF ResolveTodo, Execute
    <3>2. CASE ~(r \in Runs /\ runStatus'[r] \in {"pending", "running"})
      BY <1>5, <3>2 DEF ResolveTodo
    <3> QED
      BY <3>1, <3>2
  <2>3. runStatus' \in [Runs -> RunStatuses] /\ taskStatus' \in [Nodes -> TaskStatuses]
    BY <1>5, <2>1 DEF ResolveTodo, RunStatuses, TaskStatuses
  <2> QED
    BY <1>1, <1>5, <2>2, <2>3 DEF ResolveTodo
<1>6. openTodos \cup resolvedTodos \cup rejectedTodos \subseteq Executions
  OBVIOUS
<1> QED
  BY <1>3, <1>4, <1>5, <1>6 DEF OperatorRequest

LEMMA TypeTime ==
  ASSUME TypeInv, TimePasses
  PROVE  TypeInv'
<1> USE DEF TypeInv, TypeOK, runVars, taskVars, todoVars, loopVars, passVars, workVars, histVars
<1>1. ASSUME NEW n \in Nodes, LeaseExpires(n) PROVE TypeInv'
  BY <1>1 DEF LeaseExpires, Spend, Kinds
<1>2. ASSUME NEW r \in Runs, WindowPasses(r) PROVE TypeInv'
  BY <1>2 DEF WindowPasses
<1>3. ASSUME CapMoves PROVE TypeInv'
  <2>1. cap' \in 0..MaxWorkers /\ spent' \in [Kinds -> Nat]
    BY <1>3, BoundAssumption DEF CapMoves, Spend, Kinds
  <2> QED
    BY <1>3, <2>1 DEF CapMoves
<1> QED
  BY <1>1, <1>2, <1>3 DEF TimePasses

LEMMA TypeRestart ==
  ASSUME TypeInv, Crashes \/ Boot
  PROVE  TypeInv'
<1> USE DEF TypeInv, TypeOK, runVars, taskVars, todoVars, loopVars, passVars, workVars, histVars
<1>1. ASSUME ProcessDies
      PROVE  /\ phase' \in Phases /\ queued' \in BOOLEAN /\ timer' \in BOOLEAN
             /\ toVisit' \subseteq Runs /\ slotsUsed' \in Nat
             /\ needSlots' \in BOOLEAN /\ sawClaims' \in BOOLEAN
             /\ resolvers' \subseteq Runs /\ executing' = {} /\ pooled' = {}
             /\ orphans' \subseteq Nodes /\ spent' \in [Kinds -> Nat]
             /\ UNCHANGED <<cap, claims, produced>> /\ IsFiniteSet(executing')
  <2>1. spent' \in [Kinds -> Nat]
    BY <1>1 DEF ProcessDies, Spend, Kinds
  <2>2. executing' = {} /\ IsFiniteSet(executing')
    BY <1>1, FS_EmptySet DEF ProcessDies
  <2> QED
    BY <1>1, <2>1, <2>2 DEF ProcessDies, Phases
<1>2. ASSUME Crash PROVE TypeInv'
  BY <1>1, <1>2 DEF Crash
<1>3. ASSUME NEW r \in Runs, CrashWhileSubmitting(r) PROVE TypeInv'
  <2>1. PICK S \in SUBSET Nodes : InsertRun(r, S)
    BY <1>3, LayoutAssumption DEF CrashWhileSubmitting, Rowless
  <2> QED
    BY <1>1, <1>3, <2>1 DEF CrashWhileSubmitting, InsertRun, RunStatuses, TaskStatuses
<1>4. ASSUME NEW x \in executing, CrashWhileParking(x) PROVE TypeInv'
  BY <1>1, <1>4 DEF CrashWhileParking, Executions, TaskStatuses
<1>5. ASSUME Boot PROVE TypeInv'
  BY <1>5 DEF Boot, Active, Phases
<1> QED
  BY <1>2, <1>3, <1>4, <1>5 DEF Crashes

LEMMA TypeNext == TypeInv /\ [Next]_vars => TypeInv'
<1> SUFFICES ASSUME TypeInv, [Next]_vars PROVE TypeInv'
  OBVIOUS
<1>1. ASSUME WatchdogFires PROVE TypeInv'
  BY <1>1 DEF WatchdogFires, TypeInv, TypeOK, runVars, taskVars, todoVars, passVars, workVars,
       histVars, Phases
<1>2. ASSUME UNCHANGED vars PROVE TypeInv'
  BY <1>2 DEF TypeInv, TypeOK, vars, runVars, taskVars, todoVars, loopVars, passVars, workVars,
       histVars
<1> QED
  BY <1>1, <1>2, TypeSubmission, TypeDispatcher, TypeExecutor, TypeOperator, TypeTime,
     TypeRestart DEF Next

(* Every variable keeps its type whatever the dispatcher, the executors,    *)
(* the operator and the crashes do.                                         *)
THEOREM TypeCorrect == Spec => []TypeOK
<1>1. TypeInv => TypeOK
  BY DEF TypeInv
<1> QED
  BY <1>1, TypeInit, TypeNext, PTL DEF Spec

-----------------------------------------------------------------------------
(* The inductive invariant behind the safety properties.  A property about  *)
(* runs rests on what is known of their task rows, and that on what is      *)
(* known of the executions that will write them.                            *)

Tickets == openTodos \cup resolvedTodos \cup rejectedTodos

(* A row belongs to a run whose layout has the node.                        *)
RowInLayout == \A n \in Nodes :
    /\ taskStatus[n] = "absent" <=> taskRun[n] = NoRun
    /\ taskRun[n] # NoRun => n \in Layout[taskRun[n]]

StartedHasRow == \A n \in Nodes : claims[n] > 0 => taskRun[n] # NoRun
WorkWasStarted == \A x \in executing \cup Tickets : claims[x[1]] > 0
CompletedIsProduced == \A n \in Nodes : taskStatus[n] = "completed" => n \in produced

(* A pass visits only runs that are still active.                           *)
VisitsActive == toVisit \subseteq Active

TaskInv ==
    /\ RowInLayout /\ StartedHasRow /\ WorkWasStarted /\ CompletedIsProduced
    /\ StartedAfterDeps /\ ClaimedHasExecutor
RunInv ==
    /\ VisitsActive /\ ResolverOnlyForActive
    /\ CompletedRunWasComplete /\ FailedOnlyIfBroken
IInv == TypeInv /\ TaskInv /\ RunInv

USE DEF Tickets

taskState == <<taskRun, taskStatus, claims, produced, executing, orphans, todoVars>>
runState == <<runStatus, toVisit, resolvers, taskRun, produced>>

LEMMA InvInit == Init => TaskInv /\ RunInv
<1> SUFFICES ASSUME Init PROVE TaskInv /\ RunInv
  OBVIOUS
<1>1. TaskInv
  BY DEF Init, TaskInv, RowInLayout, StartedHasRow, WorkWasStarted, CompletedIsProduced,
       StartedAfterDeps, ClaimedHasExecutor
<1>2. RunInv
  BY DEF Init, RunInv, VisitsActive, ResolverOnlyForActive, CompletedRunWasComplete,
       FailedOnlyIfBroken, Active
<1> QED
  BY <1>1, <1>2

LEMMA TaskFrame ==
  ASSUME TaskInv, UNCHANGED taskState
  PROVE  TaskInv'
BY DEF TaskInv, taskState, todoVars, RowInLayout, StartedHasRow, WorkWasStarted,
     CompletedIsProduced, StartedAfterDeps, ClaimedHasExecutor

LEMMA RunFrame ==
  ASSUME RunInv, UNCHANGED runState
  PROVE  RunInv'
BY DEF RunInv, runState, VisitsActive, ResolverOnlyForActive, CompletedRunWasComplete,
     FailedOnlyIfBroken, Active, Rows

(* Inserting the rows of a run that was absent.                             *)
LEMMA TaskInsert ==
  ASSUME TypeInv, TaskInv, NEW r \in Runs, NEW S \in SUBSET Rowless(r), InsertRun(r, S),
         UNCHANGED <<claims, produced>>, executing' \subseteq executing,
         orphans \subseteq orphans',
         \A x \in executing \ executing' : x[1] \in S \/ taskStatus[x[1]] # "claimed"
            \/ x[1] \in orphans'
  PROVE  TaskInv'
<1> USE RunAssumption, LayoutAssumption DEF TypeInv, TypeOK, TaskInv, InsertRun, todoVars
<1>0. \A n \in S : n \in Nodes /\ n \in Layout[r] /\ taskRun[n] = NoRun
  BY DEF Rowless
<1>1. RowInLayout'
  BY <1>0 DEF RowInLayout
<1>2. StartedHasRow' /\ WorkWasStarted'
  BY <1>0 DEF StartedHasRow, WorkWasStarted
<1>3. CompletedIsProduced' /\ StartedAfterDeps'
  BY <1>0 DEF CompletedIsProduced, StartedAfterDeps
<1>4. ClaimedHasExecutor'
  <2> SUFFICES ASSUME NEW n \in Nodes, taskStatus'[n] = "claimed"
               PROVE  <<n, claims[n]>> \in executing' \/ n \in orphans'
    BY DEF ClaimedHasExecutor
  <2>1. n \notin S /\ taskStatus[n] = "claimed"
    OBVIOUS
  <2>2. <<n, claims[n]>> \in executing \/ n \in orphans
    BY <2>1 DEF ClaimedHasExecutor
  <2> QED
    BY <2>1, <2>2
<1> QED
  BY <1>1, <1>2, <1>3, <1>4

LEMMA TaskSubmission ==
  ASSUME TypeInv, TaskInv, Submission
  PROVE  TaskInv'
<1>1. PICK r \in Runs : ApproveRun(r) \/ FireCron(r) \/ StageRun(r) \/ SubmitCollides(r)
  BY DEF Submission
<1>2. PICK S \in SUBSET Rowless(r) : InsertRun(r, S)
  BY <1>1 DEF ApproveRun, FireCron, StageRun, SubmitCollides
<1>3. UNCHANGED <<workVars, histVars>>
  BY <1>1 DEF ApproveRun, FireCron, StageRun, SubmitCollides
<1> QED
  BY <1>2, <1>3, TaskInsert DEF workVars, histVars

LEMMA TaskDispatcher ==
  ASSUME TypeInv, TaskInv, Dispatcher
  PROVE  TaskInv'
<1>1. ASSUME PassPaused \/ PassEmpty \/ PassStarts PROVE TaskInv'
  BY <1>1, TaskFrame DEF PassPaused, PassEmpty, PassStarts, PassBegins, taskState, taskVars,
       workVars, histVars
<1>2. ASSUME PassEnds \/ LoopExits \/ DispatchEnds PROVE TaskInv'
  BY <1>2, TaskFrame DEF PassEnds, LoopExits, DispatchEnds, taskState, taskVars, workVars,
       histVars
<1>3. ASSUME NEW r \in Runs, Visit(r), NoTaskMoves PROVE TaskInv'
  BY <1>3, TaskFrame DEF Visit, NoTaskMoves, taskState, todoVars, workVars
<1>4. ASSUME NEW r \in Runs, VisitClaims(r) PROVE TaskInv'
  <2>1. PICK S \in SUBSET Eligible(r) : ClaimTasks(r, S)
    BY <1>4, ClaimsSome
  <2>2. UNCHANGED <<taskRun, resolvedTodos, rejectedTodos, produced>>
    BY <1>4 DEF VisitClaims, VisitEligible, Visit
  <2>3. \A n \in S : /\ n \in Nodes /\ taskRun[n] = r
                     /\ taskStatus[n] \in {"unclaimed", "claimed"}
                     /\ Deps[n] \subseteq produced
    BY DEF Eligible, Claimable, Rows, RowsIn, TaskInv, CompletedIsProduced
  <2> USE RunAssumption DEF TypeInv, TypeOK, TaskInv, ClaimTasks
  <2>4. RowInLayout'
    BY <2>1, <2>2, <2>3 DEF RowInLayout
  <2>5. StartedHasRow' /\ StartedAfterDeps'
    BY <2>1, <2>2, <2>3 DEF StartedHasRow, StartedAfterDeps
  <2>6. \A n \in Nodes : claims'[n] >= claims[n] /\ (n \in S => claims'[n] = claims[n] + 1)
    BY <2>1
  <2>7. WorkWasStarted'
    BY <2>1, <2>2, <2>3, <2>6 DEF WorkWasStarted, Started, Executions
  <2>8. CompletedIsProduced'
    BY <2>1, <2>2, <2>3 DEF CompletedIsProduced
  <2>9. ClaimedHasExecutor'
    BY <2>1, <2>3, <2>6 DEF ClaimedHasExecutor, Started
  <2> QED
    BY <2>4, <2>5, <2>7, <2>8, <2>9
<1> QED
  BY <1>1, <1>2, <1>3, <1>4 DEF Dispatcher, VisitRun, VisitMalformed, VisitFinished,
       VisitStalled, VisitDeferred, VisitSaturated, VisitEligible

LEMMA TaskExecutor ==
  ASSUME TypeInv, TaskInv, NEW x \in executing, Executor(x)
  PROVE  TaskInv'
<1>1. ASSUME PoolAnswers(x) PROVE TaskInv'
  BY <1>1, TaskFrame DEF PoolAnswers, taskState, taskVars, histVars
<1> USE DEF TypeInv, TypeOK, TaskInv
<1>2. x[1] \in Nodes /\ claims[x[1]] > 0 /\ taskRun[x[1]] # NoRun
  BY DEF Executions, WorkWasStarted, StartedHasRow
<1>3. ASSUME ExecutionEnds(x), NEW v \in {"unclaimed", "completed", "parked"},
             taskStatus' = [taskStatus EXCEPT ![x[1]] = v],
             openTodos' \subseteq openTodos \cup {x},
             produced \subseteq produced', v = "completed" => x[1] \in produced'
      PROVE  TaskInv'
  <2> USE DEF ExecutionEnds
  <2>1. RowInLayout' /\ StartedHasRow' /\ StartedAfterDeps'
    BY <1>2, <1>3 DEF RowInLayout, StartedHasRow, StartedAfterDeps
  <2>2. WorkWasStarted'
    BY <1>2, <1>3 DEF WorkWasStarted
  <2>3. CompletedIsProduced'
    BY <1>2, <1>3 DEF CompletedIsProduced
  <2>4. ClaimedHasExecutor'
    BY <1>2, <1>3 DEF ClaimedHasExecutor, Executions
  <2> QED
    BY <2>1, <2>2, <2>3, <2>4
<1>4. ASSUME ExecSucceeds(x) PROVE TaskInv'
  BY <1>3, <1>4 DEF ExecSucceeds
<1>5. ASSUME ExecRetries(x) PROVE TaskInv'
  BY <1>3, <1>5 DEF ExecRetries
<1>6. ASSUME ExecParks(x) PROVE TaskInv'
  BY <1>3, <1>6 DEF ExecParks
<1> QED
  BY <1>1, <1>4, <1>5, <1>6 DEF Executor

LEMMA TaskOperator ==
  ASSUME TypeInv, TaskInv, OperatorRequest
  PROVE  TaskInv'
<1> USE DEF TypeInv, TypeOK, TaskInv, workVars, Operator
(* Rows of existing tasks go back to the queue, and nothing else happens.   *)
<1>1. ASSUME NEW R \in SUBSET Nodes, \A n \in R : taskRun[n] # NoRun,
             taskStatus' = [n \in Nodes |-> IF n \in R THEN "unclaimed" ELSE taskStatus[n]],
             Tickets' \subseteq Tickets,
             UNCHANGED <<taskRun, claims, produced, executing, orphans>>
      PROVE  TaskInv'
  BY <1>1 DEF RowInLayout, StartedHasRow, WorkWasStarted, CompletedIsProduced,
       StartedAfterDeps, ClaimedHasExecutor
<1>2. ASSUME NEW r \in Runs, RetryRun(r) PROVE TaskInv'
  <2> DEFINE R == RowsIn(r, "parked") \cup (RowsIn(r, "claimed") \cap expired)
  <2>1. R \subseteq Nodes /\ \A n \in R : taskRun[n] # NoRun
    BY RunAssumption DEF RowsIn, Rows
  <2>2. /\ taskStatus' = [n \in Nodes |-> IF n \in R THEN "unclaimed" ELSE taskStatus[n]]
        /\ UNCHANGED <<taskRun, claims, produced, executing, orphans, todoVars>>
    BY <1>2 DEF RetryRun
  <2> QED
    BY <1>1, <2>1, <2>2 DEF todoVars
<1>3. ASSUME NEW t \in Tickets, ResolveTodo(t) PROVE TaskInv'
  <2>1. t[1] \in Nodes /\ taskRun[t[1]] # NoRun
    BY DEF Executions, WorkWasStarted, StartedHasRow
  <2>2. {t[1]} \in SUBSET Nodes /\ \A n \in {t[1]} : taskRun[n] # NoRun
    BY <2>1
  <2>3. PICK R \in SUBSET Nodes : R = {t[1]} /\ \A n \in R : taskRun[n] # NoRun
    BY <2>2, Zenon
  <2>4. taskStatus' = [n \in Nodes |-> IF n \in R THEN "unclaimed" ELSE taskStatus[n]]
    BY <1>3, <2>3 DEF ResolveTodo
  <2>5. /\ UNCHANGED <<taskRun, claims, produced, executing, orphans>>
        /\ Tickets' \subseteq Tickets
    BY <1>3 DEF ResolveTodo
  <2> QED
    BY <1>1, <2>3, <2>4, <2>5
<1>4. ASSUME NEW t \in Tickets, RejectTodo(t) PROVE TaskInv'
  BY <1>4 DEF RejectTodo, taskVars, RowInLayout, StartedHasRow, WorkWasStarted,
       CompletedIsProduced, StartedAfterDeps, ClaimedHasExecutor
<1> QED
  BY <1>2, <1>3, <1>4 DEF OperatorRequest

LEMMA TaskRestart ==
  ASSUME TypeInv, TaskInv, Crashes \/ Boot
  PROVE  TaskInv'
<1> USE DEF TypeInv, TypeOK, TaskInv, ProcessDies
<1>1. ASSUME Crash PROVE TaskInv'
  BY <1>1 DEF Crash, taskVars, todoVars, RowInLayout, StartedHasRow, WorkWasStarted,
       CompletedIsProduced, StartedAfterDeps, ClaimedHasExecutor
<1>2. ASSUME NEW r \in Runs, CrashWhileSubmitting(r) PROVE TaskInv'
  <2>1. PICK S \in SUBSET Rowless(r) : InsertRun(r, S)
    BY <1>2 DEF CrashWhileSubmitting
  <2>2. /\ executing' = {} /\ UNCHANGED <<claims, produced>>
        /\ orphans' = orphans \cup {n \in Nodes : taskStatus[n] = "claimed"}
    BY <1>2 DEF CrashWhileSubmitting
  <2> QED
    BY <2>1, <2>2, TaskInsert DEF Executions
<1>3. ASSUME NEW x \in executing, CrashWhileParking(x) PROVE TaskInv'
  <2>1. x[1] \in Nodes /\ taskRun[x[1]] # NoRun
    BY DEF Executions, WorkWasStarted, StartedHasRow
  <2> QED
    BY <1>3, <2>1 DEF CrashWhileParking, todoVars, RowInLayout, StartedHasRow, WorkWasStarted,
         CompletedIsProduced, StartedAfterDeps, ClaimedHasExecutor
<1>4. ASSUME Boot PROVE TaskInv'
  BY <1>4, TaskFrame DEF Boot, taskState, taskVars, workVars, histVars
<1> QED
  BY <1>1, <1>2, <1>3, <1>4 DEF Crashes

LEMMA TaskNext == TypeInv /\ TaskInv /\ [Next]_vars => TaskInv'
<1> SUFFICES ASSUME TypeInv, TaskInv, [Next]_vars PROVE TaskInv'
  OBVIOUS
<1>1. ASSUME WatchdogFires \/ TimePasses \/ UNCHANGED vars PROVE TaskInv'
  BY <1>1, TaskFrame DEF WatchdogFires, TimePasses, LeaseExpires, WindowPasses, CapMoves, vars, taskState,
       taskVars, workVars, histVars
<1> QED
  BY <1>1, TaskSubmission, TaskDispatcher, TaskExecutor, TaskOperator, TaskRestart DEF Next

-----------------------------------------------------------------------------
(* The runs.                                                               *)

(* Most steps leave a run as it is or make it active or parked.             *)
LEMMA RunStep ==
  ASSUME TypeInv, RunInv, UNCHANGED taskRun, produced \subseteq produced',
         toVisit' \subseteq Active', resolvers' \subseteq Active',
         \A q \in Runs : \/ runStatus'[q] = runStatus[q]
                        \/ runStatus'[q] \in {"pending", "running", "parked"}
  PROVE  RunInv'
BY DEF TypeInv, TypeOK, RunInv, VisitsActive, ResolverOnlyForActive, CompletedRunWasComplete,
     FailedOnlyIfBroken, Rows

LEMMA RunInsert ==
  ASSUME TypeInv, RunInv, NEW r \in Runs, NEW S \in SUBSET Rowless(r), InsertRun(r, S),
         toVisit' \subseteq toVisit, resolvers' \subseteq resolvers \cup {r},
         UNCHANGED produced
  PROVE  RunInv'
<1> USE RunAssumption, LayoutAssumption DEF TypeInv, TypeOK, RunInv, InsertRun
<1>1. \A q \in Runs \ {r} : runStatus'[q] = runStatus[q] /\ Rows(q)' = Rows(q)
  BY DEF Rows, Rowless
<1>2. runStatus[r] = "absent" /\ runStatus'[r] = "pending"
  OBVIOUS
<1>3. VisitsActive' /\ ResolverOnlyForActive'
  BY <1>1, <1>2 DEF VisitsActive, ResolverOnlyForActive, Active
<1>4. CompletedRunWasComplete' /\ FailedOnlyIfBroken'
  BY <1>1, <1>2 DEF CompletedRunWasComplete, FailedOnlyIfBroken
<1> QED
  BY <1>3, <1>4

(* A run with all its rows and an acyclic layout is never given up: the     *)
(* nodes that have not completed include one whose dependencies all have.   *)
LEMMA StalledIsBroken ==
  ASSUME TypeInv, TaskInv, NEW r \in Runs, RowsIn(r, "completed") # Layout[r],
         Eligible(r) = {}, RowsIn(r, "claimed") = {}, RowsIn(r, "parked") = {}
  PROVE  Rows(r) # Layout[r]
<1> SUFFICES ASSUME Rows(r) = Layout[r] PROVE FALSE
  OBVIOUS
<1> DEFINE S == Layout[r] \ RowsIn(r, "completed")
<1>1. S \in SUBSET Nodes /\ S # {}
  BY LayoutAssumption DEF RowsIn
<1>2. PICK n \in S : Deps[n] \cap S = {}
  <2> HIDE DEF S
  <2> QED
    BY <1>1, LayoutAssumption
<1>3. n \in Nodes /\ n \in Layout[r] /\ taskRun[n] = r /\ Deps[n] \subseteq Layout[r]
  BY <1>1, LayoutAssumption DEF Rows
<1>4. Deps[n] \subseteq RowsIn(r, "completed")
  BY <1>2, <1>3
<1>5. taskStatus[n] = "unclaimed"
  <2>1. taskStatus[n] \notin {"absent", "claimed", "completed", "parked"}
    BY <1>3, RunAssumption DEF TaskInv, RowInLayout, RowsIn, Rows
  <2> QED
    BY <1>3, <2>1 DEF TypeInv, TypeOK, TaskStatuses
<1> QED
  BY <1>3, <1>4, <1>5 DEF Eligible, Claimable, Rows

LEMMA RunSettles ==
  ASSUME TypeInv, RunInv, NEW r \in Runs, Visit(r),
         NEW status \in {"completed", "failed", "parked"}, SettleRun(r, status),
         status = "completed" => Layout[r] \subseteq produced,
         status = "failed" => r \in Malformed \/ Rows(r) # Layout[r]
  PROVE  RunInv'
<1> USE DEF TypeInv, TypeOK, RunInv, Visit, SettleRun
<1>1. \A q \in Runs \ {r} : runStatus'[q] = runStatus[q]
  OBVIOUS
<1>2. runStatus'[r] = status
  OBVIOUS
<1>3. VisitsActive' /\ ResolverOnlyForActive'
  BY <1>1 DEF VisitsActive, ResolverOnlyForActive, Active
<1>4. CompletedRunWasComplete' /\ FailedOnlyIfBroken'
  BY <1>1, <1>2 DEF CompletedRunWasComplete, FailedOnlyIfBroken, Rows
<1> QED
  BY <1>3, <1>4

LEMMA RunDispatcher ==
  ASSUME TypeInv, TaskInv, RunInv, Dispatcher
  PROVE  RunInv'
<1>1. ASSUME PassPaused \/ PassEmpty PROVE RunInv'
  BY <1>1, RunFrame DEF PassPaused, PassEmpty, PassBegins, runState, runVars, taskVars, passVars,
       histVars
<1>2. ASSUME PassStarts PROVE RunInv'
  <2>1. UNCHANGED <<runStatus, taskRun, produced, resolvers>> /\ toVisit' = Active
    BY <1>2 DEF PassStarts, PassBegins, runVars, taskVars, histVars
  <2>2. Active' = Active
    BY <2>1 DEF Active
  <2> QED
    BY <2>1, <2>2, RunStep DEF RunInv, ResolverOnlyForActive
<1>3. ASSUME PassEnds \/ LoopExits \/ DispatchEnds PROVE RunInv'
  BY <1>3, RunFrame DEF PassEnds, LoopExits, DispatchEnds, runState, runVars, taskVars, passVars,
       histVars
<1>4. ASSUME NEW r \in Runs, Visit(r), KeepRunning(r) PROVE RunInv'
  <2>1. /\ UNCHANGED <<taskRun, produced, resolvers>> /\ toVisit' \subseteq toVisit
        /\ runStatus' = [runStatus EXCEPT ![r] = "running"]
    BY <1>4 DEF Visit, KeepRunning
  <2>2. Active \subseteq Active'
    BY <2>1 DEF Active, TypeInv, TypeOK
  <2>3. \A q \in Runs : runStatus'[q] = runStatus[q] \/ runStatus'[q] = "running"
    BY <2>1 DEF TypeInv, TypeOK
  <2> QED
    BY <2>1, <2>2, <2>3, RunStep DEF RunInv, ResolverOnlyForActive, VisitsActive
<1>5. ASSUME NEW r \in Runs, VisitMalformed(r) PROVE RunInv'
  BY <1>5, RunSettles DEF VisitMalformed
<1>6. ASSUME NEW r \in Runs, VisitFinished(r) PROVE RunInv'
  <2>1. Layout[r] \subseteq produced
    BY <1>6 DEF VisitFinished, RowsIn, Rows, TaskInv, CompletedIsProduced
  <2> QED
    BY <1>6, <2>1, RunSettles DEF VisitFinished
<1>7. ASSUME NEW r \in Runs, VisitStalled(r) PROVE RunInv'
  <2>1. CASE RowsIn(r, "claimed") # {}
    BY <1>4, <1>7, <2>1 DEF VisitStalled
  <2>2. CASE RowsIn(r, "claimed") = {} /\ RowsIn(r, "parked") # {}
    BY <1>7, <2>2, RunSettles DEF VisitStalled
  <2>3. CASE RowsIn(r, "claimed") = {} /\ RowsIn(r, "parked") = {}
    <3>1. Rows(r) # Layout[r]
      BY <1>7, <2>3, StalledIsBroken DEF VisitStalled
    <3> QED
      BY <1>7, <2>3, <3>1, RunSettles DEF VisitStalled
  <2> QED
    BY <2>1, <2>2, <2>3
<1> QED
  BY <1>1, <1>2, <1>3, <1>4, <1>5, <1>6, <1>7 DEF Dispatcher, VisitRun, VisitDeferred,
     VisitSaturated, VisitClaims, VisitEligible

LEMMA RunOperator ==
  ASSUME TypeInv, TaskInv, RunInv, OperatorRequest
  PROVE  RunInv'
<1> USE DEF Operator
<1>1. ASSUME NEW r \in Runs, RetryRun(r) PROVE RunInv'
  <2>1. /\ UNCHANGED <<taskRun, produced, toVisit>> /\ resolvers' = resolvers \cup {r}
        /\ runStatus' = [runStatus EXCEPT ![r] = "pending"]
    BY <1>1 DEF RetryRun, Execute, passVars
  <2>2. Active \cup {r} \subseteq Active'
    BY <2>1 DEF Active, TypeInv, TypeOK
  <2>3. \A q \in Runs : runStatus'[q] = runStatus[q] \/ runStatus'[q] = "pending"
    BY <2>1 DEF TypeInv, TypeOK
  <2> QED
    BY <2>1, <2>2, <2>3, RunStep DEF RunInv, ResolverOnlyForActive, VisitsActive
<1>2. ASSUME NEW t \in Tickets, ResolveTodo(t) PROVE RunInv'
  <2> DEFINE r == taskRun[t[1]]
  <2>1. r \in Runs
    BY DEF TypeInv, TypeOK, TaskInv, Executions, WorkWasStarted, StartedHasRow
  <2>2. /\ UNCHANGED <<taskRun, produced, toVisit>>
        /\ runStatus' = [runStatus EXCEPT ![r] = IF @ = "parked" THEN "running" ELSE @]
    BY <1>2 DEF ResolveTodo, passVars
  <2>3. \/ resolvers' = resolvers
        \/ resolvers' = resolvers \cup {r} /\ runStatus'[r] \in {"pending", "running"}
    BY <1>2 DEF ResolveTodo, Execute
  <2>4. Active \subseteq Active' /\ resolvers' \subseteq Active'
    BY <2>1, <2>2, <2>3 DEF Active, TypeInv, TypeOK, RunInv, ResolverOnlyForActive
  <2>5. \A q \in Runs : runStatus'[q] = runStatus[q] \/ runStatus'[q] = "running"
    BY <2>1, <2>2 DEF TypeInv, TypeOK
  <2> QED
    BY <2>2, <2>4, <2>5, RunStep DEF RunInv, VisitsActive
<1>3. ASSUME NEW t \in Tickets, RejectTodo(t) PROVE RunInv'
  BY <1>3, RunFrame DEF RejectTodo, runState, runVars, taskVars, passVars
<1> QED
  BY <1>1, <1>2, <1>3 DEF OperatorRequest

LEMMA RunRestart ==
  ASSUME TypeInv, RunInv, Crashes \/ Boot
  PROVE  RunInv'
<1> USE DEF ProcessDies
<1>1. ASSUME ProcessDies, UNCHANGED <<runStatus, taskRun>> PROVE RunInv'
  BY <1>1, RunStep
<1>2. ASSUME NEW r \in Runs, CrashWhileSubmitting(r) PROVE RunInv'
  <2>1. PICK S \in SUBSET Rowless(r) : InsertRun(r, S)
    BY <1>2 DEF CrashWhileSubmitting
  <2> QED
    BY <1>2, <2>1, RunInsert DEF CrashWhileSubmitting
<1>3. ASSUME Boot PROVE RunInv'
  <2>1. UNCHANGED <<runStatus, taskRun, produced, toVisit>> /\ resolvers' = Active
    BY <1>3 DEF Boot, runVars, taskVars, passVars, histVars
  <2>2. Active' = Active
    BY <2>1 DEF Active
  <2> QED
    BY <2>1, <2>2, RunStep DEF RunInv, VisitsActive
<1> QED
  BY <1>1, <1>2, <1>3 DEF Crashes, Crash, CrashWhileParking, runVars, taskVars

LEMMA RunNext == TypeInv /\ TaskInv /\ RunInv /\ [Next]_vars => RunInv'
<1> SUFFICES ASSUME TypeInv, TaskInv, RunInv, [Next]_vars PROVE RunInv'
  OBVIOUS
<1>1. ASSUME Submission PROVE RunInv'
  <2>1. PICK r \in Runs : ApproveRun(r) \/ FireCron(r) \/ StageRun(r) \/ SubmitCollides(r)
    BY <1>1 DEF Submission
  <2>2. PICK S \in SUBSET Rowless(r) : InsertRun(r, S)
    BY <2>1 DEF ApproveRun, FireCron, StageRun, SubmitCollides
  <2>3. resolvers' \subseteq resolvers \cup {r} /\ UNCHANGED <<passVars, histVars>>
    BY <2>1 DEF ApproveRun, FireCron, StageRun, SubmitCollides, Execute
  <2> QED
    BY <2>2, <2>3, RunInsert DEF passVars, histVars
<1>2. ASSUME WatchdogFires \/ TimePasses \/ UNCHANGED vars PROVE RunInv'
  BY <1>2, RunFrame DEF WatchdogFires, TimePasses, LeaseExpires, WindowPasses, CapMoves, vars, runState,
       runVars, taskVars, passVars, histVars
<1>3. ASSUME NEW x \in executing, Executor(x) PROVE RunInv'
  <2>1. UNCHANGED <<runStatus, toVisit, resolvers, taskRun>> /\ produced \subseteq produced'
    BY <1>3 DEF Executor, PoolAnswers, ExecSucceeds, ExecRetries, ExecParks, ExecutionEnds,
         runVars, taskVars, passVars, histVars
  <2>2. Active' = Active
    BY <2>1 DEF Active
  <2> QED
    BY <2>1, <2>2, RunStep DEF RunInv, VisitsActive, ResolverOnlyForActive
<1> QED
  BY <1>1, <1>2, <1>3, RunDispatcher, RunOperator, RunRestart DEF Next

LEMMA InvCorrect == Spec => []IInv
<1>1. Init => IInv
  BY TypeInit, InvInit DEF IInv
<1>2. IInv /\ [Next]_vars => IInv'
  BY TypeNext, TaskNext, RunNext DEF IInv
<1> QED
  BY <1>1, <1>2, PTL DEF Spec

(* Whatever is retried, reclaimed, resolved or lost in a crash, no task     *)
(* starts before each of its dependencies has produced a result.            *)
THEOREM DependenciesRespected == Spec => []StartedAfterDeps
<1>1. IInv => StartedAfterDeps
  BY DEF IInv, TaskInv
<1> QED
  BY <1>1, InvCorrect, PTL

(* A claimed task has its executor, or its executor died in a crash.        *)
THEOREM ClaimsNotLost == Spec => []ClaimedHasExecutor
<1>1. IInv => ClaimedHasExecutor
  BY DEF IInv, TaskInv
<1> QED
  BY <1>1, InvCorrect, PTL

(* A run is completed only when every node of its layout has run, and a     *)
(* well-formed run that has all its rows is never given up: here the        *)
(* acyclicity of the layouts is used.                                       *)
THEOREM VerdictsSound == Spec => []VerdictsFounded
<1>1. IInv => VerdictsFounded
  BY DEF IInv, RunInv, VerdictsFounded
<1> QED
  BY <1>1, InvCorrect, PTL

(* Nobody awaits a run that is settled.                                     *)
THEOREM CallersAnswered == Spec => []ResolverOnlyForActive
<1>1. IInv => ResolverOnlyForActive
  BY DEF IInv, RunInv
<1> QED
  BY <1>1, InvCorrect, PTL

-----------------------------------------------------------------------------
(* The executions.  The pool is counted once per pass: the bound holds      *)
(* because what the pass has counted is never less than what is at work.    *)

SlotsCountPool == phase = "pass" => Cardinality(pooled) <= slotsUsed
PoolInv == PoolBound /\ SlotsCountPool

LEMMA PoolShrinks ==
  ASSUME TypeInv, PoolInv, pooled' \subseteq pooled, phase' # "pass"
  PROVE  PoolInv'
<1>1. IsFiniteSet(pooled) /\ Cardinality(pooled) \in Nat
  BY FS_Subset, FS_CardinalityType DEF TypeInv, TypeOK
<1>2. Cardinality(pooled') \in Nat /\ Cardinality(pooled') <= Cardinality(pooled)
  BY <1>1, FS_Subset, FS_CardinalityType
<1> QED
  BY <1>1, <1>2, BoundAssumption DEF PoolInv, PoolBound, SlotsCountPool

(* What starts in one step is no more than what was claimed.                *)
LEMMA StartedBound ==
  ASSUME NEW S, IsFiniteSet(S)
  PROVE  /\ IsFiniteSet(Started(S)) /\ Cardinality(Started(S)) \in Nat
         /\ Cardinality(S) \in Nat /\ Cardinality(Started(S)) <= Cardinality(S)
<1> DEFINE D == S \ Unrunnable
           f == [n \in D |-> <<n, claims[n] + 1>>]
<1>1. IsFiniteSet(D) /\ Cardinality(D) <= Cardinality(S) /\ Cardinality(D) \in Nat
      /\ Cardinality(S) \in Nat
  BY FS_Subset, FS_CardinalityType
<1>2. f \in Surjection(D, Started(S))
  BY DEF Started, Surjection
<1>3. IsFiniteSet(Started(S)) /\ Cardinality(Started(S)) <= Cardinality(D)
  <2> HIDE DEF D, f
  <2> QED
    BY <1>1, <1>2, FS_Surjection
<1>4. Cardinality(Started(S)) \in Nat
  BY <1>3, FS_CardinalityType
<1> QED
  BY <1>1, <1>3, <1>4

(* No more nodes are claimed than slots are free.                           *)
LEMMA ClaimsFit ==
  ASSUME TypeInv, NEW r \in Runs, VisitClaims(r)
  PROVE  \E S \in SUBSET Eligible(r) :
            /\ ClaimTasks(r, S) /\ IsFiniteSet(S) /\ Cardinality(S) <= FreeSlots
<1> DEFINE e == Cardinality(Eligible(r))
<1>1. IsFiniteSet(Eligible(r)) /\ e \in Nat
  BY NodeAssumption, FS_Subset, FS_CardinalityType DEF Eligible, Rows
<1>2. PICK S \in kSubset(Min({FreeSlots, ClaimBatch, e}), Eligible(r)) : ClaimTasks(r, S)
  BY DEF VisitClaims
<1>3. S \in SUBSET Eligible(r) /\ Cardinality(S) = Min({FreeSlots, ClaimBatch, e})
  BY <1>2 DEF kSubset
<1>4. FreeSlots \in Nat /\ ClaimBatch \in Nat
  BY BoundAssumption DEF FreeSlots, TypeInv, TypeOK
<1>5. \A a, b, d \in Nat : Min({a, b, d}) <= a
  <2> TAKE a, b, d \in Nat
  <2>1. \E x \in {a, b, d} : \A y \in {a, b, d} : x <= y
    <3>1. CASE a <= b /\ a <= d
      BY <3>1
    <3>2. CASE b <= a /\ b <= d
      BY <3>2
    <3>3. CASE d <= a /\ d <= b
      BY <3>3
    <3> QED
      BY <3>1, <3>2, <3>3
  <2> QED
    BY <2>1 DEF Min
<1> HIDE DEF e
<1>6. Min({FreeSlots, ClaimBatch, e}) <= FreeSlots
  BY <1>1, <1>4, <1>5
<1>7. IsFiniteSet(S) /\ Cardinality(S) <= FreeSlots
  BY <1>1, <1>3, <1>6, FS_Subset
<1> QED
  BY <1>2, <1>3, <1>7

LEMMA PoolDispatcher ==
  ASSUME TypeInv, PoolInv, Dispatcher
  PROVE  PoolInv'
<1>0. IsFiniteSet(pooled) /\ Cardinality(pooled) \in Nat
  BY FS_Subset, FS_CardinalityType DEF TypeInv, TypeOK
<1>1. ASSUME PassPaused \/ PassEmpty \/ PassEnds \/ LoopExits \/ DispatchEnds PROVE PoolInv'
  BY <1>1, PoolShrinks DEF PassPaused, PassEmpty, PassBegins, PassEnds, LoopExits, DispatchEnds,
       workVars
<1>2. ASSUME PassStarts PROVE PoolInv'
  BY <1>0, <1>2 DEF PassStarts, PassBegins, workVars, PoolInv, PoolBound, SlotsCountPool
<1>3. ASSUME UNCHANGED <<pooled, slotsUsed, phase>> PROVE PoolInv'
  BY <1>3 DEF PoolInv, PoolBound, SlotsCountPool
<1>4. ASSUME NEW r \in Runs, VisitClaims(r) PROVE PoolInv'
  <2>1. PICK S \in SUBSET Eligible(r) :
           ClaimTasks(r, S) /\ IsFiniteSet(S) /\ Cardinality(S) <= FreeSlots
    BY <1>4, ClaimsFit
  <2> DEFINE T == {x \in Started(S) : x[1] \in PoolNodes}
  <2>2. IsFiniteSet(T) /\ Cardinality(T) \in Nat /\ Cardinality(S) \in Nat
        /\ Cardinality(T) <= Cardinality(S)
    BY <2>1, StartedBound, FS_Subset, FS_CardinalityType
  <2>3. pooled' = pooled \cup T /\ slotsUsed' = slotsUsed + Cardinality(S)
    BY <2>1 DEF ClaimTasks
  <2> HIDE DEF T
  <2>4. Cardinality(pooled \cap T) \in Nat
    BY <1>0, FS_Intersection, FS_CardinalityType
  <2>5. Cardinality(pooled') = Cardinality(pooled) + Cardinality(T) - Cardinality(pooled \cap T)
    BY <1>0, <2>2, <2>3, FS_Union
  <2>6. /\ phase = "pass" /\ phase' = "pass" /\ slotsUsed \in Nat /\ MaxWorkers \in Nat
        /\ FreeSlots > 0 /\ cap \in 0..MaxWorkers
    BY <1>4, BoundAssumption DEF VisitClaims, VisitEligible, Visit, TypeInv, TypeOK
  <2>7. slotsUsed + Cardinality(S) <= MaxWorkers
    BY <2>1, <2>2, <2>6 DEF FreeSlots
  <2>8. Cardinality(pooled) <= slotsUsed
    BY <2>6 DEF PoolInv, SlotsCountPool
  <2>9. Cardinality(pooled') <= slotsUsed'
    BY <1>0, <2>2, <2>3, <2>4, <2>5, <2>6, <2>8
  <2>10. Cardinality(pooled') \in Int
    BY <1>0, <2>2, <2>4, <2>5
  <2>11. Cardinality(pooled') <= MaxWorkers
    BY <2>2, <2>3, <2>6, <2>7, <2>9, <2>10
  <2> QED
    BY <2>9, <2>11, BoundAssumption DEF PoolInv, PoolBound, SlotsCountPool
<1>5. ASSUME NEW r \in Runs, VisitRun(r), ~VisitClaims(r) PROVE UNCHANGED <<pooled, slotsUsed, phase>>
  BY <1>5 DEF VisitRun, VisitMalformed, VisitFinished, VisitStalled, VisitDeferred, VisitSaturated,
       VisitEligible, Visit, NoTaskMoves, SettleRun, KeepRunning, workVars
<1> QED
  BY <1>1, <1>2, <1>3, <1>4, <1>5 DEF Dispatcher

(* Nothing but the dispatcher takes a slot, and nothing else runs in a pass. *)
LEMMA OutsideAPass ==
  ASSUME TypeInv, Submission \/ WatchdogFires \/ (\E x \in executing : Executor(x))
                  \/ OperatorRequest \/ TimePasses \/ Crashes \/ Boot
  PROVE  pooled' \subseteq pooled /\ phase' # "pass"
<1>1. ASSUME NEW r \in Runs, ApproveRun(r) \/ FireCron(r) \/ StageRun(r) \/ SubmitCollides(r)
      PROVE  pooled' = pooled /\ phase' # "pass"
  BY <1>1 DEF ApproveRun, FireCron, StageRun, SubmitCollides, Execute, Trigger, workVars, loopVars
<1>2. ASSUME WatchdogFires \/ Boot PROVE pooled' = pooled /\ phase' # "pass"
  BY <1>2 DEF WatchdogFires, Boot, workVars
<1>3. ASSUME NEW x \in executing, Executor(x)
      PROVE  pooled' \subseteq pooled /\ phase' # "pass"
  BY <1>3 DEF Executor, PoolAnswers, ExecSucceeds, ExecRetries, ExecParks, ExecutionEnds,
       Interruptible, Trigger, loopVars
<1>4. ASSUME NEW r \in Runs, RetryRun(r)
      PROVE  pooled' = pooled /\ phase' # "pass"
  BY <1>4 DEF RetryRun, Operator, Execute, Trigger, workVars
<1>5. ASSUME NEW t, ResolveTodo(t) \/ RejectTodo(t)
      PROVE  pooled' = pooled /\ phase' # "pass"
  <2>1. ASSUME RejectTodo(t) PROVE pooled' = pooled /\ phase' # "pass"
    BY <2>1 DEF RejectTodo, Operator, workVars, loopVars
  <2>2. ASSUME ResolveTodo(t) PROVE pooled' = pooled /\ phase = "idle"
    BY <2>2 DEF ResolveTodo, Operator, workVars
  <2>3. ASSUME ResolveTodo(t) PROVE phase' = phase \/ phase' = "scheduled"
    BY <2>3, <2>2 DEF ResolveTodo, Execute, Trigger, loopVars
  <2> QED
    BY <1>5, <2>1, <2>2, <2>3
<1>6. ASSUME TimePasses PROVE pooled' = pooled /\ phase' # "pass"
  BY <1>6 DEF TimePasses, LeaseExpires, WindowPasses, CapMoves, Outside, workVars, loopVars
<1>7. ASSUME Crashes PROVE pooled' = {} /\ phase' = "down"
  BY <1>7 DEF Crashes, Crash, CrashWhileSubmitting, CrashWhileParking, ProcessDies
<1> QED
  BY <1>1, <1>2, <1>3, <1>4, <1>5, <1>6, <1>7 DEF Submission, OperatorRequest

LEMMA PoolNext == TypeInv /\ PoolInv /\ [Next]_vars => PoolInv'
<1>1. ASSUME UNCHANGED vars, PoolInv PROVE PoolInv'
  BY <1>1 DEF vars, loopVars, passVars, workVars, PoolInv, PoolBound, SlotsCountPool
<1> QED
  BY <1>1, PoolDispatcher, PoolShrinks, OutsideAPass DEF Next

-----------------------------------------------------------------------------
(* Who holds a task.  As long as no lease ran out under a live executor and *)
(* no operator interfered, an execution is the one that its task's claim    *)
(* names: the next claim of the node waits for its end.                     *)

Undisturbed == spent["expiry"] + spent["operator"] = 0

WorkerHoldsClaim ==
    Undisturbed =>
        \A x \in executing :
            /\ taskStatus[x[1]] = "claimed" /\ x[2] = claims[x[1]]
            /\ x[1] \notin expired

ExecInv == ParkedHasTicket /\ WorkerHoldsClaim

LEMMA Spending ==
  ASSUME TypeInv, NEW k \in Kinds, Spend(k)
  PROVE  /\ spent'[k] > 0
         /\ Undisturbed' => Undisturbed
         /\ k \in {"expiry", "operator"} => ~Undisturbed'
         /\ spent["crash"] > 0 => spent'["crash"] > 0
<1>1. spent["expiry"] \in Nat /\ spent["operator"] \in Nat /\ spent["crash"] \in Nat
  BY DEF TypeInv, TypeOK, Kinds
<1>2. /\ spent' = [spent EXCEPT ![k] = @ + 1] /\ spent \in [Kinds -> Nat]
      /\ k \in {"expiry", "operator", "crash", "heat"}
  BY DEF Spend, Kinds, TypeInv, TypeOK
<1>3. CASE k = "expiry"
  <2>1. /\ spent'["expiry"] = spent["expiry"] + 1 /\ spent'["operator"] = spent["operator"]
        /\ spent'["crash"] = spent["crash"]
    BY <1>2, <1>3 DEF Kinds
  <2> QED
    BY <1>1, <1>3, <2>1 DEF Undisturbed
<1>4. CASE k = "operator"
  <2>1. /\ spent'["operator"] = spent["operator"] + 1 /\ spent'["expiry"] = spent["expiry"]
        /\ spent'["crash"] = spent["crash"]
    BY <1>2, <1>4 DEF Kinds
  <2> QED
    BY <1>1, <1>4, <2>1 DEF Undisturbed
<1>5. CASE k = "crash"
  <2>1. /\ spent'["crash"] = spent["crash"] + 1 /\ spent'["expiry"] = spent["expiry"]
        /\ spent'["operator"] = spent["operator"]
    BY <1>2, <1>5 DEF Kinds
  <2> QED
    BY <1>1, <1>5, <2>1 DEF Undisturbed
<1>6. CASE k = "heat"
  <2>1. spent'["heat"] = spent["heat"] + 1 /\ spent["heat"] \in Nat
        /\ \A j \in {"expiry", "operator", "crash"} : spent'[j] = spent[j]
    BY <1>2, <1>6 DEF Kinds
  <2> QED
    BY <1>1, <1>6, <2>1 DEF Undisturbed
<1> QED
  BY <1>2, <1>3, <1>4, <1>5, <1>6

(* Executions that end, and rows that change only where none is at work.    *)
LEMMA HolderFrame ==
  ASSUME ExecInv, executing' \subseteq executing, Undisturbed' => Undisturbed,
         UNCHANGED claims,
         \A x \in executing' : /\ taskStatus'[x[1]] = taskStatus[x[1]]
                              /\ (x[1] \in expired' => x[1] \in expired)
  PROVE  WorkerHoldsClaim'
BY DEF ExecInv, WorkerHoldsClaim, Undisturbed

(* Tickets that stay findable, and no task parked without one.              *)
LEMMA TicketFrame ==
  ASSUME ExecInv, spent["crash"] > 0 => spent'["crash"] > 0,
         \A n \in Nodes : taskStatus'[n] = "parked" =>
            \/ /\ taskStatus[n] = "parked"
               /\ \A t \in openTodos \cup rejectedTodos :
                     t[1] = n => t \in openTodos' \cup rejectedTodos'
            \/ \E t \in openTodos' \cup rejectedTodos' : t[1] = n
  PROVE  ParkedHasTicket'
BY DEF ExecInv, ParkedHasTicket

LEMMA ExecInsert ==
  ASSUME TypeInv, TaskInv, ExecInv, NEW r \in Runs, NEW S \in SUBSET Rowless(r), InsertRun(r, S),
         executing' \subseteq executing, UNCHANGED claims,
         Undisturbed' => Undisturbed, spent["crash"] > 0 => spent'["crash"] > 0
  PROVE  ExecInv'
<1> USE DEF InsertRun, TypeInv, TypeOK, Executions
<1>1. \A n \in S : n \in Nodes /\ taskStatus[n] = "absent"
  BY LayoutAssumption DEF Rowless, TaskInv, RowInLayout
<1>2. \A x \in executing : x[1] \in Nodes /\ x[1] \notin S
  BY RunAssumption DEF Rowless, TaskInv, StartedHasRow, WorkWasStarted
<1>3. WorkerHoldsClaim'
  BY <1>2, HolderFrame
<1>4. ParkedHasTicket'
  BY TicketFrame DEF todoVars
<1> QED
  BY <1>3, <1>4 DEF ExecInv

(* A node that is claimed had no executor: it was unclaimed, or its lease   *)
(* had run out, which under a live executor disturbs.                       *)
LEMMA ExecClaims ==
  ASSUME TypeInv, ExecInv, NEW r \in Runs, VisitClaims(r)
  PROVE  ExecInv'
<1>1. PICK S \in SUBSET Eligible(r) : ClaimTasks(r, S)
  BY ClaimsSome
<1> USE DEF ClaimTasks, TypeInv, TypeOK
<1>2. S \subseteq Nodes /\ \A n \in S : Claimable(n)
  BY DEF Eligible, Rows
<1>3. UNCHANGED <<rejectedTodos, spent>>
  BY DEF VisitClaims, VisitEligible, Visit
<1>4. WorkerHoldsClaim'
  <2> SUFFICES ASSUME Undisturbed, NEW x \in executing'
               PROVE  /\ taskStatus'[x[1]] = "claimed" /\ x[2] = claims'[x[1]]
                      /\ x[1] \notin expired'
    BY <1>3 DEF WorkerHoldsClaim, Undisturbed
  <2>1. CASE x \in executing
    <3>1. x[1] \in Nodes /\ x[1] \notin S
      BY <1>2, <2>1 DEF ExecInv, WorkerHoldsClaim, Claimable, Executions
    <3>2. claims'[x[1]] = claims[x[1]] + 0 /\ claims[x[1]] \in Nat
      BY <1>1, <3>1
    <3> QED
      BY <1>1, <2>1, <3>1, <3>2 DEF ExecInv, WorkerHoldsClaim
  <2>2. CASE x \in Started(S)
    <3>1. PICK n \in S \ Unrunnable : x = <<n, claims[n] + 1>>
      BY <2>2 DEF Started
    <3>2. taskStatus'[n] = "claimed" /\ claims'[n] = claims[n] + 1 /\ n \notin expired'
      BY <1>1, <1>2, <3>1
    <3> QED
      BY <3>1, <3>2
  <2> QED
    BY <1>1, <2>1, <2>2
<1>5. ParkedHasTicket'
  <2>1. \A n \in S \cap Unrunnable : \E t \in openTodos' : t[1] = n
    <3> TAKE n \in S \cap Unrunnable
    <3>1. <<n, claims[n] + 1>> \in openTodos'
      BY <1>1
    <3> QED
      BY <3>1
  <2>2. \A n \in Nodes \ S : taskStatus'[n] = taskStatus[n]
    BY <1>1
  <2>3. \A n \in S \ Unrunnable : taskStatus'[n] = "claimed"
    BY <1>1, <1>2
  <2>4. openTodos \subseteq openTodos'
    BY <1>1
  <2> QED
    BY <1>3, <2>1, <2>2, <2>3, <2>4, TicketFrame
<1> QED
  BY <1>4, <1>5 DEF ExecInv

LEMMA ExecDispatcher ==
  ASSUME TypeInv, ExecInv, Dispatcher
  PROVE  ExecInv'
<1>1. ASSUME UNCHANGED <<taskStatus, expired, executing, claims, openTodos, rejectedTodos, spent>>
      PROVE  ExecInv'
  BY <1>1 DEF ExecInv, WorkerHoldsClaim, ParkedHasTicket, Undisturbed
<1>2. ASSUME PassPaused \/ PassEmpty \/ PassStarts \/ PassEnds \/ LoopExits \/ DispatchEnds
      PROVE  ExecInv'
  BY <1>1, <1>2 DEF PassPaused, PassEmpty, PassStarts, PassBegins, PassEnds, LoopExits,
       DispatchEnds, taskVars, todoVars, workVars, histVars
<1>3. ASSUME NEW r \in Runs, Visit(r), NoTaskMoves PROVE ExecInv'
  BY <1>1, <1>3 DEF Visit, NoTaskMoves, workVars
<1> QED
  BY <1>2, <1>3, ExecClaims DEF Dispatcher, VisitRun, VisitMalformed, VisitFinished,
     VisitStalled, VisitDeferred, VisitSaturated, VisitEligible

(* The row an execution writes is its own: no other execution of the node   *)
(* is at work, for it would be of the same claim.                           *)
LEMMA ExecExecutor ==
  ASSUME TypeInv, ExecInv, NEW x \in executing, Executor(x)
  PROVE  ExecInv'
<1> USE DEF TypeInv, TypeOK
<1>1. ASSUME PoolAnswers(x) PROVE ExecInv'
  BY <1>1 DEF PoolAnswers, taskVars, todoVars, histVars, ExecInv, WorkerHoldsClaim,
       ParkedHasTicket, Undisturbed
<1>2. x[1] \in Nodes
  BY DEF Executions
<1>3. ASSUME ExecutionEnds(x), NEW v \in {"unclaimed", "completed", "parked"},
             taskStatus' = [taskStatus EXCEPT ![x[1]] = v], expired' \subseteq expired,
             openTodos \subseteq openTodos', v = "parked" => x \in openTodos'
      PROVE  ExecInv'
  <2>1. /\ UNCHANGED <<claims, spent, rejectedTodos>> /\ executing' = executing \ {x}
    BY <1>3 DEF ExecutionEnds
  <2>2. WorkerHoldsClaim'
    <3> SUFFICES ASSUME Undisturbed, NEW y \in executing, y # x
                 PROVE  /\ taskStatus'[y[1]] = "claimed" /\ y[2] = claims'[y[1]]
                        /\ y[1] \notin expired'
      BY <2>1 DEF WorkerHoldsClaim, Undisturbed
    <3>1. x[2] = claims[x[1]] /\ y[2] = claims[y[1]] /\ taskStatus[y[1]] = "claimed"
          /\ y[1] \notin expired
      BY DEF ExecInv, WorkerHoldsClaim
    <3>2. y[1] # x[1]
      BY <3>1 DEF Executions
    <3> QED
      BY <1>3, <2>1, <3>1, <3>2
  <2>3. ParkedHasTicket'
    BY <1>2, <1>3, <2>1, TicketFrame
  <2> QED
    BY <2>2, <2>3 DEF ExecInv
<1>4. ASSUME ExecSucceeds(x) PROVE ExecInv'
  BY <1>3, <1>4 DEF ExecSucceeds, ExecutionEnds
<1>5. ASSUME ExecRetries(x) PROVE ExecInv'
  BY <1>3, <1>5 DEF ExecRetries, ExecutionEnds
<1>6. ASSUME ExecParks(x) PROVE ExecInv'
  BY <1>3, <1>6 DEF ExecParks, ExecutionEnds
<1> QED
  BY <1>1, <1>4, <1>5, <1>6 DEF Executor

LEMMA ExecOperator ==
  ASSUME TypeInv, ExecInv, OperatorRequest
  PROVE  ExecInv'
<1> USE DEF TypeInv, TypeOK
<1>1. ASSUME Operator
      PROVE  ~Undisturbed' /\ (spent["crash"] > 0 => spent'["crash"] > 0)
  BY <1>1, Spending DEF Operator, Kinds
<1>2. ASSUME NEW r \in Runs, RetryRun(r) PROVE ExecInv'
  <2>1. UNCHANGED <<openTodos, rejectedTodos>> /\ Operator
    BY <1>2 DEF RetryRun, todoVars
  <2>2. \A n \in Nodes : taskStatus'[n] = "parked" => taskStatus[n] = "parked"
    BY <1>2 DEF RetryRun
  <2>3. ParkedHasTicket'
    BY <1>1, <2>1, <2>2, TicketFrame
  <2> QED
    BY <1>1, <2>1, <2>3 DEF ExecInv, WorkerHoldsClaim
<1>3. ASSUME NEW t \in Tickets, ResolveTodo(t) PROVE ExecInv'
  <2>1. /\ Operator /\ openTodos' = openTodos \ {t} /\ rejectedTodos' = rejectedTodos \ {t}
        /\ taskStatus' = [taskStatus EXCEPT ![t[1]] = "unclaimed"] /\ t[1] \in Nodes
    BY <1>3 DEF ResolveTodo, Executions
  <2>2. ParkedHasTicket'
    BY <1>1, <2>1, TicketFrame
  <2> QED
    BY <1>1, <2>1, <2>2 DEF ExecInv, WorkerHoldsClaim
<1>4. ASSUME NEW t \in Tickets, RejectTodo(t) PROVE ExecInv'
  <2>1. /\ Operator /\ openTodos' = openTodos \ {t} /\ rejectedTodos' = rejectedTodos \cup {t}
        /\ UNCHANGED taskStatus
    BY <1>4 DEF RejectTodo, taskVars
  <2>2. ParkedHasTicket'
    BY <1>1, <2>1, TicketFrame
  <2> QED
    BY <1>1, <2>1, <2>2 DEF ExecInv, WorkerHoldsClaim
<1> QED
  BY <1>2, <1>3, <1>4 DEF OperatorRequest

LEMMA ExecRestart ==
  ASSUME TypeInv, TaskInv, ExecInv, TimePasses \/ Crashes \/ Boot
  PROVE  ExecInv'
<1> USE DEF TypeInv, TypeOK
<1>1. ASSUME UNCHANGED <<taskStatus, expired, executing, claims, openTodos, rejectedTodos, spent>>
      PROVE  ExecInv'
  BY <1>1 DEF ExecInv, WorkerHoldsClaim, ParkedHasTicket, Undisturbed
<1>2. ASSUME NEW n \in Nodes, LeaseExpires(n) PROVE ExecInv'
  <2>1. /\ expired' = expired \cup {n}
        /\ UNCHANGED <<taskStatus, executing, claims, openTodos, rejectedTodos>>
    BY <1>2 DEF LeaseExpires, todoVars, workVars
  <2>2. CASE n \in {x[1] : x \in executing}
    <3>1. ~Undisturbed' /\ (spent["crash"] > 0 => spent'["crash"] > 0)
      BY <1>2, <2>2, Spending DEF LeaseExpires, Kinds
    <3> QED
      BY <2>1, <3>1, TicketFrame DEF ExecInv, WorkerHoldsClaim
  <2>3. CASE n \notin {x[1] : x \in executing}
    <3>1. UNCHANGED spent
      BY <1>2, <2>3 DEF LeaseExpires
    <3> QED
      BY <2>1, <2>3, <3>1 DEF ExecInv, WorkerHoldsClaim, ParkedHasTicket, Undisturbed
  <2> QED
    BY <2>2, <2>3
<1>3. ASSUME NEW r \in Runs, WindowPasses(r) PROVE ExecInv'
  BY <1>1, <1>3 DEF WindowPasses, taskVars, todoVars, workVars, histVars
<1>4. ASSUME Boot PROVE ExecInv'
  BY <1>1, <1>4 DEF Boot, taskVars, todoVars, workVars, histVars
<1>5. ASSUME ProcessDies
      PROVE  spent'["crash"] > 0 /\ executing' = {}
  BY <1>5, Spending DEF ProcessDies, Kinds
<1>6. ASSUME Crashes PROVE ExecInv'
  BY <1>5, <1>6 DEF Crashes, Crash, CrashWhileSubmitting, CrashWhileParking, ExecInv,
       WorkerHoldsClaim, ParkedHasTicket
<1>7. ASSUME CapMoves PROVE ExecInv'
  <2>1. UNCHANGED <<taskStatus, expired, executing, claims, openTodos, rejectedTodos>>
    BY <1>7 DEF CapMoves, taskVars, todoVars, workVars
  <2>2. CASE Spend("heat")
    <3>1. (Undisturbed' => Undisturbed) /\ (spent["crash"] > 0 => spent'["crash"] > 0)
      BY <2>2, Spending DEF Kinds
    <3> QED
      BY <2>1, <3>1, TicketFrame DEF ExecInv, WorkerHoldsClaim
  <2>3. CASE UNCHANGED spent
    BY <1>1, <2>1, <2>3
  <2> QED
    BY <1>7, <2>2, <2>3 DEF CapMoves
<1> QED
  BY <1>2, <1>3, <1>4, <1>6, <1>7 DEF TimePasses

LEMMA ExecNext == TypeInv /\ TaskInv /\ ExecInv /\ [Next]_vars => ExecInv'
<1> SUFFICES ASSUME TypeInv, TaskInv, ExecInv, [Next]_vars PROVE ExecInv'
  OBVIOUS
<1>1. ASSUME WatchdogFires \/ UNCHANGED vars PROVE ExecInv'
  BY <1>1 DEF WatchdogFires, vars, taskVars, todoVars, workVars, histVars, ExecInv,
       WorkerHoldsClaim, ParkedHasTicket, Undisturbed
<1>2. ASSUME Submission PROVE ExecInv'
  <2>1. PICK r \in Runs : ApproveRun(r) \/ FireCron(r) \/ StageRun(r) \/ SubmitCollides(r)
    BY <1>2 DEF Submission
  <2>2. PICK S \in SUBSET Rowless(r) : InsertRun(r, S)
    BY <2>1 DEF ApproveRun, FireCron, StageRun, SubmitCollides
  <2>3. UNCHANGED <<workVars, histVars>>
    BY <2>1 DEF ApproveRun, FireCron, StageRun, SubmitCollides
  <2> QED
    BY <2>2, <2>3, ExecInsert DEF workVars, histVars, Undisturbed
<1> QED
  BY <1>1, <1>2, ExecDispatcher, ExecExecutor, ExecOperator, ExecRestart DEF Next

LEMMA ExecCorrect == Spec => [](PoolInv /\ ExecInv)
<1>1. Init => PoolInv /\ ExecInv
  BY FS_EmptySet, BoundAssumption DEF Init, PoolInv, PoolBound, SlotsCountPool, ExecInv,
     WorkerHoldsClaim, ParkedHasTicket
<1>2. IInv /\ PoolInv /\ ExecInv /\ [Next]_vars => (PoolInv /\ ExecInv)'
  BY PoolNext, ExecNext DEF IInv
<1> QED
  BY <1>1, <1>2, InvCorrect, PTL DEF Spec

(* The pool stays within the hardware profile, a parked task has a ticket   *)
(* the operator finds unless a crash lost it, and two executors share a     *)
(* task only after a lease ran out under one of them or the operator        *)
(* stepped in.                                                              *)
THEOREM ExecutorsAreSound == Spec => []ExecutorsSound
<1>1. IInv /\ PoolInv /\ ExecInv => ExecutorsSound
  <2> SUFFICES ASSUME TypeOK, PoolInv, ExecInv PROVE ExecutorsSound
    BY DEF IInv, TypeInv
  <2>1. SoleExecutor
    BY DEF TypeOK, Executions, ExecInv, WorkerHoldsClaim, SoleExecutor, Undisturbed
  <2> QED
    BY <2>1 DEF ExecutorsSound, PoolInv, ExecInv
<1> QED
  BY <1>1, InvCorrect, ExecCorrect, PTL

-----------------------------------------------------------------------------
(* Track A first.  What a pass has already visited and could still start    *)
(* has made it keep the remaining slots.                                    *)

TrackAServed ==
    phase = "pass" =>
        \A q \in Active \ (Malformed \cup toVisit) :
            Track(q) = "track1" /\ Eligible(q) # {} => needSlots

LEMMA EligibleFrame ==
  ASSUME UNCHANGED <<taskRun, taskStatus, expired>>
  PROVE  \A q \in Runs : Eligible(q)' = Eligible(q)
BY DEF Eligible, Rows, RowsIn, Claimable

(* Claiming tasks of one run leaves the tasks of the others alone.          *)
LEMMA EligibleAfterClaims ==
  ASSUME TypeInv, NEW r \in Runs, NEW S \in SUBSET Eligible(r), ClaimTasks(r, S),
         UNCHANGED taskRun
  PROVE  /\ \A q \in Runs \ {r} : Eligible(q)' = Eligible(q)
         /\ Eligible(r)' = Eligible(r) \ S
<1> USE DEF TypeInv, TypeOK
<1>1. S \subseteq Nodes /\ \A n \in S : taskRun[n] = r /\ taskStatus[n] # "completed"
  BY DEF Eligible, Rows, Claimable
<1>2. \A n \in Nodes \ S : taskStatus'[n] = taskStatus[n] /\ (n \in expired' <=> n \in expired)
  BY DEF ClaimTasks
<1>3. \A n \in S : taskStatus'[n] \in {"claimed", "parked"} /\ n \notin expired'
  BY <1>1 DEF ClaimTasks
<1>4. \A q \in Runs : Rows(q)' = Rows(q) /\ RowsIn(q, "completed")' = RowsIn(q, "completed")
  BY <1>1, <1>2, <1>3 DEF Rows, RowsIn
<1>5. \A n \in Nodes \ S : Claimable(n)' <=> Claimable(n)
  BY <1>2 DEF Claimable
<1>6. \A n \in S : ~Claimable(n)'
  BY <1>3 DEF Claimable
<1>7. \A q \in Runs \ {r} : Rows(q) \cap S = {}
  BY <1>1 DEF Rows
<1>8. \A q \in Runs : Eligible(q)' = {n \in Layout[q] \cap Rows(q) :
                         Claimable(n)' /\ Deps[n] \subseteq RowsIn(q, "completed")}
  BY <1>4 DEF Eligible
<1>9. \A q \in Runs : Rows(q) \subseteq Nodes
  BY DEF Rows
<1> QED
  BY <1>5, <1>6, <1>7, <1>8, <1>9 DEF Eligible

LEMMA VisitServes ==
  ASSUME TrackAServed, NEW r \in Runs, Visit(r), needSlots => needSlots',
         \A q \in Runs \ {r} : runStatus'[q] = runStatus[q] /\ Eligible(q)' = Eligible(q),
         r \in Active' \ Malformed /\ Track(r) = "track1" /\ Eligible(r)' # {} => needSlots'
  PROVE  TrackAServed'
<1> SUFFICES ASSUME NEW q \in (Active \ (Malformed \cup toVisit))', Track(q) = "track1",
                    Eligible(q)' # {}
             PROVE  needSlots'
  BY DEF TrackAServed, Track
<1>1. CASE q = r
  BY <1>1
<1>2. CASE q # r
  BY <1>2 DEF TrackAServed, Active, Visit
<1> QED
  BY <1>1, <1>2

LEMMA TrackVisit ==
  ASSUME TypeInv, TrackAServed, NEW r \in Runs, VisitRun(r)
  PROVE  TrackAServed'
<1> USE DEF TypeInv, TypeOK
<1>1. ASSUME Visit(r), NoTaskMoves PROVE \A q \in Runs : Eligible(q)' = Eligible(q)
  BY <1>1, EligibleFrame DEF Visit, NoTaskMoves
<1>2. ASSUME NEW status \in {"completed", "failed", "parked"}, Visit(r), NoTaskMoves,
             SettleRun(r, status)
      PROVE  TrackAServed'
  <2>1. r \notin Active' /\ needSlots' = needSlots
        /\ \A q \in Runs \ {r} : runStatus'[q] = runStatus[q]
    BY <1>2 DEF SettleRun, Active
  <2> QED
    BY <1>1, <1>2, <2>1, VisitServes
<1>3. ASSUME KeepRunning(r) PROVE \A q \in Runs \ {r} : runStatus'[q] = runStatus[q]
  BY <1>3 DEF KeepRunning
<1>4. ASSUME VisitStalled(r) PROVE TrackAServed'
  <2>1. CASE RowsIn(r, "claimed") # {}
    BY <1>1, <1>3, <1>4, <2>1, VisitServes DEF VisitStalled
  <2>2. CASE RowsIn(r, "claimed") = {} /\ RowsIn(r, "parked") # {}
    BY <1>2, <1>4, <2>2 DEF VisitStalled
  <2>3. CASE RowsIn(r, "claimed") = {} /\ RowsIn(r, "parked") = {}
    BY <1>2, <1>4, <2>3 DEF VisitStalled
  <2> QED
    BY <2>1, <2>2, <2>3
<1>5. ASSUME VisitDeferred(r) \/ VisitSaturated(r) PROVE TrackAServed'
  <2>1. /\ Visit(r) /\ NoTaskMoves /\ KeepRunning(r)
        /\ (needSlots => needSlots') /\ (Track(r) = "track1" => needSlots')
    BY <1>5 DEF VisitDeferred, VisitSaturated, VisitEligible
  <2> QED
    BY <1>1, <1>3, <2>1, VisitServes
<1>6. ASSUME VisitClaims(r) PROVE TrackAServed'
  <2>1. PICK S \in SUBSET Eligible(r) : ClaimTasks(r, S)
    BY <1>6, ClaimsSome
  <2>2. Visit(r) /\ KeepRunning(r) /\ UNCHANGED taskRun
    BY <1>6 DEF VisitClaims, VisitEligible, Visit
  <2>3. /\ \A q \in Runs \ {r} : Eligible(q)' = Eligible(q)
        /\ Eligible(r)' = Eligible(r) \ S
    BY <2>1, <2>2, EligibleAfterClaims
  <2>4. /\ needSlots => needSlots'
        /\ Track(r) = "track1" /\ Eligible(r)' # {} => needSlots'
    BY <2>1, <2>3 DEF ClaimTasks
  <2> QED
    BY <1>3, <2>2, <2>3, <2>4, VisitServes
<1> QED
  BY <1>2, <1>4, <1>5, <1>6 DEF VisitRun, VisitMalformed, VisitFinished

LEMMA TrackNext == TypeInv /\ TrackAServed /\ [Next]_vars => TrackAServed'
<1> SUFFICES ASSUME TypeInv, TrackAServed, [Next]_vars PROVE TrackAServed'
  OBVIOUS
<1>1. ASSUME phase' # "pass" PROVE TrackAServed'
  BY <1>1 DEF TrackAServed
<1>2. ASSUME UNCHANGED vars PROVE TrackAServed'
  <2>1. \A q \in Runs : Eligible(q)' = Eligible(q)
    BY <1>2, EligibleFrame DEF vars, taskVars
  <2>2. Active' = Active
    BY <1>2 DEF vars, runVars, Active
  <2>3. UNCHANGED <<phase, toVisit, needSlots>> /\ Active \subseteq Runs
    BY <1>2 DEF vars, loopVars, passVars, Active
  <2> QED
    BY <2>1, <2>2, <2>3 DEF TrackAServed, Track
<1>3. ASSUME PassStarts PROVE TrackAServed'
  <2>1. Active' = Active /\ toVisit' = Active
    BY <1>3 DEF PassStarts, PassBegins, runVars, Active
  <2> QED
    BY <2>1 DEF TrackAServed
<1>4. ASSUME PassPaused \/ PassEmpty \/ PassEnds \/ LoopExits \/ DispatchEnds PROVE TrackAServed'
  BY <1>1, <1>4 DEF PassPaused, PassEmpty, PassEnds, LoopExits, DispatchEnds
<1> QED
  BY <1>1, <1>2, <1>3, <1>4, TrackVisit, OutsideAPass DEF Next, Dispatcher

(* Only the dispatcher claims, and only tasks of the run it visits.         *)
LEMMA OnlyVisitsClaim ==
  ASSUME TypeInv, [Next]_vars, NEW q \in Runs, Starts(q)
  PROVE  VisitClaims(q)
<1>1. PICK n \in Rows(q) : claims'[n] # claims[n]
  BY DEF Starts
<1>2. ASSUME NEW r \in Runs, VisitRun(r), ~VisitClaims(r) PROVE UNCHANGED claims
  BY <1>2 DEF VisitRun, VisitMalformed, VisitFinished, VisitStalled, VisitDeferred, VisitSaturated,
       NoTaskMoves
<1>3. ASSUME UNCHANGED vars \/ WatchdogFires \/ Submission \/ TimePasses \/ Crashes \/ Boot
      PROVE  UNCHANGED claims
  BY <1>3 DEF vars, WatchdogFires, Submission, ApproveRun, FireCron, StageRun, SubmitCollides,
       TimePasses, LeaseExpires, WindowPasses, CapMoves, Crashes, Crash, CrashWhileSubmitting,
       CrashWhileParking, ProcessDies, Boot, histVars
<1>4. ASSUME OperatorRequest \/ \E x \in executing : Executor(x) PROVE UNCHANGED claims
  BY <1>4 DEF OperatorRequest, RetryRun, ResolveTodo, RejectTodo, Operator, Executor, PoolAnswers,
       ExecSucceeds, ExecRetries, ExecParks, ExecutionEnds, histVars
<1>5. ASSUME PassPaused \/ PassEmpty \/ PassStarts \/ PassEnds \/ LoopExits \/ DispatchEnds
      PROVE  UNCHANGED claims
  BY <1>5 DEF PassPaused, PassEmpty, PassStarts, PassBegins, PassEnds, LoopExits, DispatchEnds,
       histVars
<1>6. PICK r \in Runs : VisitClaims(r)
  BY <1>1, <1>2, <1>3, <1>4, <1>5 DEF Next, Dispatcher
<1>7. PICK S \in SUBSET Eligible(r) : ClaimTasks(r, S)
  BY <1>6, ClaimsSome
<1>8. n \in Nodes /\ n \in S
  <2>1. \A m \in Nodes \ S : claims'[m] = claims[m]
    BY <1>7 DEF ClaimTasks, TypeInv, TypeOK
  <2> QED
    BY <1>1, <2>1 DEF Rows
<1>9. r = q
  BY <1>1, <1>8 DEF Eligible, Rows
<1> QED
  BY <1>6, <1>9

(* No pass starts a Track B task while a well-formed Track A run still has  *)
(* a task it could start.                                                   *)
THEOREM TrackAFirst == Spec => TrackPrecedence
<1>1. Init => TrackAServed
  BY DEF Init, TrackAServed
<1>2. ASSUME TypeInv, TrackAServed, [Next]_vars,
             NEW r \in Runs, NEW q \in Runs, Starts(r), Track(r) = "track2",
             Track(q) = "track1", q \in Active \ Malformed
      PROVE  Eligible(q) = {}
  <2>1. VisitClaims(r)
    BY <1>2, OnlyVisitsClaim
  <2>2. phase = "pass" /\ ~needSlots /\ q \notin toVisit
    BY <1>2, <2>1 DEF VisitClaims, VisitEligible, Visit
  <2> QED
    BY <1>2, <2>2 DEF TrackAServed
<1>3. TypeInv /\ TrackAServed /\ [Next]_vars =>
        [\A r, q \in Runs :
           Starts(r) /\ Track(r) = "track2" /\ Track(q) = "track1" /\ q \in Active \ Malformed
             => Eligible(q) = {}]_vars
  BY <1>2
<1>4. IInv => TypeInv
  BY DEF IInv
<1> QED
  BY <1>1, <1>3, <1>4, TrackNext, InvCorrect, PTL DEF Spec, TrackPrecedence
=============================================================================
