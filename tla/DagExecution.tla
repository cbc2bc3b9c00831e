---------------------------- MODULE DagExecution ----------------------------
(***************************************************************************)
(* What CoreExec promises to whoever submits a DAG, with no dispatcher,    *)
(* lease, retry, crash or database in sight: nodes start after their       *)
(* dependencies are done, only a started node is ever done or blocked, a   *)
(* run is declared completed when all its nodes are done and parked when   *)
(* one of them waits for the operator, and a verdict is withdrawn only     *)
(* when the run is reopened.                                               *)
(***************************************************************************)
CONSTANTS Runs, Nodes, Layout, Deps

VARIABLES
    started,  \* nodes whose execution has been started
    done,     \* nodes that have produced a result
    blocked,  \* nodes that wait for the operator
    verdict   \* what has been declared about each run

vars == <<started, done, blocked, verdict>>

Init ==
    /\ started = {} /\ done = {} /\ blocked = {}
    /\ verdict = [r \in Runs |-> "none"]

\* Some nodes start, and those in B turn out to need the operator.
Start(S, B) ==
    /\ \A n \in S : Deps[n] \subseteq done
    /\ B \subseteq S
    /\ started' = started \cup S
    /\ blocked' = (blocked \ S) \cup B
    /\ UNCHANGED <<done, verdict>>

\* An execution ends with a result, to be tried again, or blocked.
Finish(n) ==
    /\ n \in started
    /\ done' = done \cup {n} /\ blocked' = blocked \ {n}
    /\ UNCHANGED <<started, verdict>>

TryAgain(n) ==
    /\ n \in started
    /\ blocked' = blocked \ {n}
    /\ UNCHANGED <<started, done, verdict>>

Block(n) ==
    /\ n \in started
    /\ blocked' = blocked \cup {n}
    /\ UNCHANGED <<started, done, verdict>>

Conclude(r, v) ==
    /\ verdict[r] = "none"
    /\ v = "completed" => Layout[r] \subseteq done
    /\ v = "parked" => Layout[r] \cap blocked # {}
    /\ verdict' = [verdict EXCEPT ![r] = v]
    /\ UNCHANGED <<started, done, blocked>>

\* The operator sends some nodes of a run back, or the whole run.
Reopen(r, U) ==
    /\ U \subseteq Layout[r]
    /\ blocked' = blocked \ U
    /\ verdict' = [verdict EXCEPT ![r] = "none"]
    /\ UNCHANGED <<started, done>>

\* The operator answers the ticket of a node whose run keeps its verdict.
Unblock(n) ==
    /\ blocked' = blocked \ {n}
    /\ UNCHANGED <<started, done, verdict>>

Next ==
    \/ \E S \in SUBSET Nodes : \E B \in SUBSET S : Start(S, B)
    \/ \E n \in Nodes : Finish(n) \/ TryAgain(n) \/ Block(n) \/ Unblock(n)
    \/ \E r \in Runs :
          \/ \E v \in {"completed", "failed", "parked"} : Conclude(r, v)
          \/ \E U \in SUBSET Layout[r] : Reopen(r, U)

Spec == Init /\ [][Next]_vars
=============================================================================
