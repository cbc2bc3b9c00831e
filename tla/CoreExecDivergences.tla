------------------------ MODULE CoreExecDivergences ------------------------
(***************************************************************************)
(* What the comments and the documents of the repository say of CoreExec   *)
(* and its code does not do.  TLC refutes each of these as a property of   *)
(* a small instance; the runs check what does hold.                        *)
(***************************************************************************)
EXTENDS CoreExecProperties

(* "Pausing dispatch" (engine.ts): the breaker pauses, so a run awaited by  *)
(* its caller goes on once the failures are older than fifteen minutes.     *)
(* The early return leaves nothing behind that would look again.            *)
PausedDispatchResumes == \A r \in Runs : r \in resolvers ~> r \notin resolvers

(* "When the time comes, the system can start the job automatically"        *)
(* (02-TaskRunner.md): each firing of a schedule has its own tasks.  The    *)
(* ids of the template's nodes are taken after the first firing.            *)
EveryFiringHasTasks ==
    \A r \in Runs : Origin[r] = "cron" /\ runStatus[r] # "absent" => Rows(r) = Layout[r]
=============================================================================
