----------------------------- MODULE WriteQueue -----------------------------
(***************************************************************************)
(* The write queue of BaseVault: how the writes of a worker thread reach   *)
(* the database through the main thread.                                   *)
(*                                                                         *)
(* Code: src/core/basevault/write-queue.ts, with its two users, the task   *)
(* executor of CoreExec (engine.ts, worker.ts) and the reflection cycle of *)
(* Cerebro (reflection.ts, cerebro/worker.ts).                             *)
(*                                                                         *)
(* Every task gets a message channel of its own, but a thread has one      *)
(* write client, a variable of the module, which all its tasks share.      *)
(* Channels are FIFO, the close of an end comes after the messages sent    *)
(* before it, and nothing orders the messages of two channels.             *)
(***************************************************************************)
EXTENDS Naturals, Sequences, Functions

CONSTANTS
    Tasks,       \* task executions, each with its channel
    Threads,     \* worker threads
    NoTask,      \* the write client of a thread that has none
    Host,        \* Host[t]: the thread the pool gives t to; the pool may
                 \* give a busy thread another task
    MaxPending,  \* MAX_PENDING_WRITES
    MaxPosts,    \* bound: accepted posts of one task
    MaxFaults    \* bound: stalls of the main thread

ASSUME HostAssumption == Host \in [Tasks -> Threads] /\ NoTask \notin Tasks
ASSUME LimitAssumption == MaxPending \in Nat \ {0} /\ MaxPosts \in Nat /\ MaxFaults \in Nat

VARIABLES
    stage,     \* of each task, see Stages
    client,    \* of each thread: the task whose port writeClient holds
    pending,   \* of each thread: writeClient.pending
    posted,    \* of each task: how many of its posts were answered 200
    wire,      \* of each channel: the writes on their way to the main thread
    acks,      \* of each channel: the acks on their way back
    farOpen,   \* channels whose worker end is open
    sawClose,  \* channels whose remoteClosed is set
    log,       \* the writes executed, by whichever thread, in that order
    shared,    \* tasks that have been on a thread together with another task
    forced,    \* tasks whose channel was finalized undrained
    faults     \* how much of MaxFaults is used

vars == <<stage, client, pending, posted, wire, acks, farOpen, sawClose, log,
          shared, forced, faults>>

\* A task runs in its worker, then its result waits for the drain, then
\* the result is recorded and the main thread has closed the channel.
Stages == {"new", "running", "draining", "recorded"}
Writes == Tasks \X (Nat \ {0})

TypeOK ==
    /\ stage \in [Tasks -> Stages]
    /\ client \in [Threads -> Tasks \cup {NoTask}]
    /\ pending \in [Threads -> 0..MaxPending]
    /\ posted \in [Tasks -> Nat]
    /\ wire \in [Tasks -> Seq(Writes)]
    /\ acks \in [Tasks -> Nat]
    /\ farOpen \subseteq Tasks /\ sawClose \subseteq Tasks
    /\ log \in Seq(Writes)
    /\ shared \subseteq Tasks /\ forced \subseteq Tasks
    /\ faults \in Nat

Init ==
    /\ stage = [t \in Tasks |-> "new"]
    /\ client = [w \in Threads |-> NoTask]
    /\ pending = [w \in Threads |-> 0]
    /\ posted = [t \in Tasks |-> 0]
    /\ wire = [t \in Tasks |-> <<>>]
    /\ acks = [t \in Tasks |-> 0]
    /\ farOpen = Tasks /\ sawClose = {}
    /\ log = <<>>
    /\ shared = {} /\ forced = {} /\ faults = 0

Fault == faults < MaxFaults /\ faults' = faults + 1

-----------------------------------------------------------------------------
(* The worker thread.                                                      *)

Running(w) == {t \in Tasks : stage[t] = "running" /\ Host[t] = w}

\* Closing the end of a channel: what was posted still arrives, what is on
\* its way to the closed end does not.
CloseFarEnd(c) ==
    /\ farOpen' = farOpen \ {c}
    /\ acks' = [t \in Tasks |-> IF t = c THEN 0 ELSE acks[t]]

\* Fault: the port of the replaced client stays open.
BeginWithoutClose(t) ==
    /\ stage[t] = "new" /\ stage' = [stage EXCEPT ![t] = "running"]
    /\ client' = [client EXCEPT ![Host[t]] = t]
    /\ pending' = [pending EXCEPT ![Host[t]] = 0]
    /\ shared' = shared \cup (IF Running(Host[t]) = {} THEN {} ELSE Running(Host[t]) \cup {t})
    /\ UNCHANGED <<posted, wire, acks, farOpen, sawClose, log, forced, faults>>

\* configureWriteClient(port) at the start of a task: the client of another
\* task that is still running on the thread is closed and replaced.
Begin(t) ==
    /\ stage[t] = "new" /\ stage' = [stage EXCEPT ![t] = "running"]
    /\ CloseFarEnd(client[Host[t]])
    /\ client' = [client EXCEPT ![Host[t]] = t]
    /\ pending' = [pending EXCEPT ![Host[t]] = 0]
    /\ shared' = shared \cup (IF Running(Host[t]) = {} THEN {} ELSE Running(Host[t]) \cup {t})
    /\ UNCHANGED <<posted, wire, sawClose, log, forced, faults>>

\* The next write of t is accepted; a task posts it again if it was refused.
NextWrite(t) == <<t, posted[t] + 1>>
Posts(t) ==
    /\ stage[t] = "running" /\ posted[t] < MaxPosts
    /\ posted' = [posted EXCEPT ![t] = @ + 1]
    /\ UNCHANGED <<stage, client, acks, farOpen, sawClose, shared, forced, faults>>

\* postWriteOp without a client: the thread runs the statements itself.
PostLocally(t) ==
    /\ Posts(t)
    /\ client[Host[t]] = NoTask
    /\ log' = Append(log, NextWrite(t))
    /\ UNCHANGED <<pending, wire>>

\* Fault: a queued write is also executed by the thread.
PostQueuedAndRun(t) ==
    /\ Posts(t)
    /\ LET w == Host[t]
           c == client[w]
       IN  /\ c # NoTask /\ pending[w] < MaxPending
           /\ pending' = [pending EXCEPT ![w] = @ + 1]
           /\ wire' = [wire EXCEPT ![c] = Append(@, NextWrite(t))]
    /\ log' = Append(log, NextWrite(t))

\* postWriteOp through the client of the thread, whosever it is; a post that
\* finds MaxPending writes in flight is answered 429 and changes nothing.
PostQueued(t) ==
    /\ Posts(t)
    /\ LET w == Host[t]
           c == client[w]
       IN  /\ c # NoTask /\ pending[w] < MaxPending
           /\ pending' = [pending EXCEPT ![w] = @ + 1]
           /\ wire' = [wire EXCEPT ![c] = Append(@, NextWrite(t))]
    /\ UNCHANGED log

\* The handler of an ack counts down the current client.
AckArrives(c) ==
    /\ c \in farOpen /\ acks[c] > 0
    /\ acks' = [acks EXCEPT ![c] = @ - 1]
    /\ pending' = [pending EXCEPT ![Host[c]] = IF @ = 0 THEN 0 ELSE @ - 1]
    /\ UNCHANGED <<stage, client, posted, wire, farOpen, sawClose, log,
                    shared, forced, faults>>

\* Fault: the client is dropped, its port stays open.
EndWithoutClose(t) ==
    /\ stage[t] = "running" /\ stage' = [stage EXCEPT ![t] = "draining"]
    /\ client' = [client EXCEPT ![Host[t]] = NoTask]
    /\ pending' = [pending EXCEPT ![Host[t]] = 0]
    /\ UNCHANGED <<posted, wire, acks, farOpen, sawClose, log, shared,
                    forced, faults>>

\* The finally block of a task: releaseWriteClient() closes the client of the
\* thread, whosever it is, and the result is sent.
End(t) ==
    /\ stage[t] = "running" /\ stage' = [stage EXCEPT ![t] = "draining"]
    /\ CloseFarEnd(client[Host[t]])
    /\ client' = [client EXCEPT ![Host[t]] = NoTask]
    /\ pending' = [pending EXCEPT ![Host[t]] = 0]
    /\ UNCHANGED <<posted, wire, sawClose, log, shared, forced, faults>>

-----------------------------------------------------------------------------
(* The main thread.                                                        *)

\* Fault: the applies are not chained, a later one overtakes.
DeliverLatest(c) ==
    /\ stage[c] # "recorded" /\ wire[c] # <<>>
    /\ wire' = [wire EXCEPT ![c] = SubSeq(@, 1, Len(@) - 1)]
    /\ log' = Append(log, wire[c][Len(wire[c])])
    /\ acks' = [acks EXCEPT ![c] = IF c \in farOpen THEN @ + 1 ELSE @]
    /\ UNCHANGED <<stage, client, pending, posted, farOpen, sawClose, shared,
                    forced, faults>>

\* A message arrives and its write is applied before the next message is
\* seen.  An error of the database is logged, and the write acked all the same.
Deliver(c) ==
    /\ stage[c] # "recorded" /\ wire[c] # <<>>
    /\ wire' = [wire EXCEPT ![c] = Tail(@)]
    /\ log' = Append(log, Head(wire[c]))
    /\ acks' = [acks EXCEPT ![c] = IF c \in farOpen THEN @ + 1 ELSE @]
    /\ UNCHANGED <<stage, client, pending, posted, farOpen, sawClose, shared,
                    forced, faults>>

\* Fault: the close overtakes the messages sent before it.
RemoteClosesEarly(c) ==
    /\ stage[c] # "recorded" /\ c \notin farOpen /\ c \notin sawClose
    /\ sawClose' = sawClose \cup {c}
    /\ UNCHANGED <<stage, client, pending, posted, wire, acks, farOpen, log, shared,
                    forced, faults>>

RemoteCloses(c) ==
    /\ stage[c] # "recorded" /\ c \notin farOpen /\ wire[c] = <<>> /\ c \notin sawClose
    /\ sawClose' = sawClose \cup {c}
    /\ UNCHANGED <<stage, client, pending, posted, wire, acks, farOpen, log, shared,
                    forced, faults>>

\* finishAndDrain() and the write-back of the result that follows it.
Record(t) ==
    /\ stage[t] = "draining" /\ stage' = [stage EXCEPT ![t] = "recorded"]
    /\ UNCHANGED <<client, pending, posted, farOpen, log, shared, sawClose>>

\* Fault: the drain is over as soon as nothing is being applied.
DrainedWhenIdle(t) == Record(t) /\ UNCHANGED <<wire, acks, forced, faults>>

Drained(t) == Record(t) /\ t \in sawClose /\ UNCHANGED <<wire, acks, forced, faults>>

\* Some synchronous work keeps the main thread busy for DRAIN_GRACE_MS; the
\* main end is closed, and what has not been delivered is discarded.
GraceOver(t) ==
    /\ Record(t) /\ t \notin sawClose /\ Fault
    /\ wire' = [wire EXCEPT ![t] = <<>>]
    /\ acks' = [acks EXCEPT ![t] = 0]
    /\ forced' = forced \cup {t}

-----------------------------------------------------------------------------
Worker(t) == Begin(t) \/ PostLocally(t) \/ PostQueued(t) \/ AckArrives(t) \/ End(t)
MainThread(t) ==
    Deliver(t) \/ RemoteCloses(t) \/ Drained(t) \/ GraceOver(t)

Next == \E t \in Tasks : Worker(t) \/ MainThread(t)

Spec == Init /\ [][Next]_vars

\* Tasks end, and both event loops deliver what has been sent.  Neither a
\* fault nor the expiry of the grace period is relied on.
Fairness ==
    \A t \in Tasks :
        WF_vars(End(t)) /\ WF_vars(Deliver(t)) /\ WF_vars(RemoteCloses(t)) /\ WF_vars(Drained(t))

FairSpec == Spec /\ Fairness
=============================================================================
