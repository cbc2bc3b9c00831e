------------------------ MODULE WriteQueueProperties ------------------------
(***************************************************************************)
(* What the write queue must guarantee to the tasks that post to it.       *)
(***************************************************************************)
EXTENDS WriteQueue

Accepted(t) == {<<t, k>> : k \in 1..posted[t]}

(* A write answered 200 is never lost: it has been executed, or it is in a  *)
(* channel the main thread still reads, although the client it was posted   *)
(* through may have been replaced or closed by another task of the thread.  *)
(* Only a channel finalized undrained loses writes.                         *)
AcceptedIsSafe ==
    forced = {} =>
        \A t \in Tasks : \A op \in Accepted(t) :
            \/ op \in Range(log)
            \/ \E c \in Tasks : stage[c] # "recorded" /\ op \in Range(wire[c])

(* A write is executed once: not both by a worker thread and by the main    *)
(* thread, not by two channels, and nothing that was not accepted.          *)
ExecutedOnce ==
    /\ IsInjective(log)
    /\ \A t \in Tasks : \A i \in DOMAIN log : log[i][1] = t => log[i][2] <= posted[t]

(* The result of a task is recorded after its writes (engine.ts, the drain  *)
(* is awaited before the result is written back), if no other task was on   *)
(* its thread and the drain was not given up.                               *)
ResultAfterWrites ==
    \A t \in Tasks \ (shared \cup forced) :
        stage[t] = "recorded" => Accepted(t) \subseteq Range(log)

(* The writes of a task that had its thread for itself are executed in the  *)
(* order it posted them (the sink keeps its applies FIFO).                  *)
InOrder ==
    \A i, j \in DOMAIN log :
        /\ i < j /\ log[i][1] = log[j][1]
        /\ log[i][1] \notin shared
        => log[i][2] < log[j][2]

(* Nothing is executed twice or out of order, whichever thread executes it. *)
ExecutedInOrder == ExecutedOnce /\ InOrder

(* MAX_PENDING_WRITES bounds what is in flight on every channel, delivered  *)
(* but unacknowledged writes included, although clients come and go and an  *)
(* ack counts down whichever client is current.                             *)
InFlightBound == \A c \in Tasks : Len(wire[c]) + acks[c] <= MaxPending

(* Every task that has started is recorded in the end, without the grace    *)
(* period: somebody always closes the worker end of its channel.            *)
DrainSettles == \A t \in Tasks : stage[t] = "running" ~> stage[t] = "recorded"

-----------------------------------------------------------------------------
(* What a comment says and the code does not do.                           *)

(* "The drain is awaited BEFORE the task result is written back, so a final *)
(* escalation (os_todos INSERT) is applied before the task is marked        *)
(* completed" (engine.ts): also for tasks that share a thread.  Their last  *)
(* writes travel in a channel whose drain nobody awaits yet.                *)
EscalationFirst ==
    \A t \in Tasks \ forced : stage[t] = "recorded" => Accepted(t) \subseteq Range(log)
=============================================================================
