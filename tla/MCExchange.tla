----------------------------- MODULE MCExchange -----------------------------
(* Who waits for another one gets an answer, on instances small enough for   *)
(* liveness: the callers of a language model and the nodes of a sync.  A     *)
(* behaviour runs one of the two; the other one rests, and one at rest has   *)
(* no step it is owed.                                                       *)
EXTENDS RouteSwitchProperties, TLC

CONSTANTS
    Services,           \* the services of the instance
    local, remote,      \* a streaming and a free provider
    n1, n2,             \* nodes
    project, run, l1,   \* a project, a run of it and a socket
    \* NodeSync
    Nodes, Rows, Parent, NoRow, Links, Dialer, Acceptor, Manual, MaxAuthenticated,
    MaxEdits, MaxTime, MaxRestarts

ASSUME Services # {}

VARIABLES
    running,
    \* NodeSync
    now, rows, log, watermark, linkPhase, active, authed, pending, chan, restarts,
    seen, since, doubled, evicted

Sync == INSTANCE NodeSyncProperties WITH phase <- linkPhase

syncVars == <<now, rows, log, watermark, linkPhase, active, authed, pending, chan,
              restarts, seen, since, doubled, evicted>>

Pair == <<local, remote>>
FreeFirst == {<<local, remote>>}
Family == [r \in Rows |-> IF r = run THEN project ELSE NoRow]
From1 == [l \in Links |-> n1]
To2 == [l \in Links |-> n2]

\* Routing at rest begins in one of its initial states only.
ExchangeInit ==
    /\ running \in Services
    /\ Init /\ Sync!Init
    /\ running = "sync" => unlocked /\ \A b \in Budgets : budget <= b

ExchangeNext ==
    /\ UNCHANGED running
    /\ \/ running = "routing" /\ Next /\ UNCHANGED syncVars
       \/ running = "sync" /\ Sync!Next /\ UNCHANGED vars

ExchangeSpec ==
    /\ ExchangeInit /\ [][ExchangeNext]_<<running, vars, syncVars>>
    /\ Fairness /\ Sync!Fairness

SyncSettles == Sync!SyncSettles
=============================================================================
