------------------------------ MODULE Shutdown ------------------------------
(***************************************************************************)
(* The graceful shutdown of the server (server/shutdown.ts) around its     *)
(* terminal sessions: drain, stop the producers, close the network, release *)
(* pools and sessions, close the database, exit; all of it within ten      *)
(* seconds or by force.                                                    *)
(***************************************************************************)
EXTENDS Terminals

VARIABLES
    stage,     \* "up", "closing", "disposing", "exited"
    syncUp,    \* another node is connected to /api/sync
    awaited,   \* sessions disposeAllTerminalSessions waits for
    code,      \* the exit code
    openAtSignal  \* history: sessions that were live when the signal came

dvars == <<stage, syncUp, awaited, code, openAtSignal>>
vars == <<tvars, dvars>>

Init ==
    /\ TerminalInit
    /\ stage = "up" /\ syncUp = FALSE
    /\ awaited = {} /\ code = 0 /\ openAtSignal = {}

Live == {s \in Sessions : session[s] = "live"}

\* An upgraded socket is none of the connections that closeAllConnections
\* ends, but one that server.close waits for.
Held == syncUp \/ \E s \in Sessions : socket[s] \in {"open", "breaking"}

\* shutdownDrainingMiddleware answers 503 to everything later.
Serving == stage = "up"

\* SIGINT or SIGTERM: draining is set, the timer is armed, the producers
\* stop, the heartbeat among them; a second signal finds shutdownStarted.
Signal ==
    /\ stage = "up"
    /\ stage' = "closing"
    /\ openAtSignal' = Live
    /\ UNCHANGED <<tvars, syncUp, awaited, code>>

SyncPeerJoins ==
    /\ Serving /\ ~syncUp
    /\ syncUp' = TRUE
    /\ UNCHANGED <<tvars, stage, awaited, code, openAtSignal>>

SyncPeerLeaves ==
    /\ stage # "exited" /\ syncUp
    /\ syncUp' = FALSE
    /\ UNCHANGED <<tvars, stage, awaited, code, openAtSignal>>

\* server.close has called back: the transport and the pool are released and
\* every registered session is disposed, as far as nobody has done it yet.
Release ==
    /\ stage = "closing" /\ ~Held
    /\ stage' = "disposing"
    /\ awaited' = registry \cap Live
    /\ Dispose(registry)
    /\ UNCHANGED <<socket, child, peers, silent, docs, lastScan, dbOpen, work, scanned, outlived>>
    /\ UNCHANGED <<syncUp, code, openAtSignal>>

\* bwrap --die-with-parent; the exit handler has signalled them, too.
ShellsDie == child' = [s \in Sessions |-> IF child[s] = "running" THEN "exited" ELSE child[s]]

Exit(c) ==
    /\ stage' = "exited" /\ code' = c
    /\ ShellsDie
    /\ UNCHANGED <<socket, session, registry, peers, silent, docs, lastScan, work, scanned, outlived>>
    /\ UNCHANGED <<syncUp, awaited, openAtSignal>>

\* The sessions are gone: checkpoint, close the database, exit.
Finish ==
    /\ stage = "disposing"
    /\ \A s \in awaited : session[s] = "disposed"
    /\ dbOpen' = FALSE
    /\ Exit(0)

\* The timer.  Sessions take half of its ten seconds at most, so it is the
\* callback of server.close that it finds missing.
ForceExit ==
    /\ stage = "closing" /\ Held
    /\ Exit(1)
    /\ UNCHANGED dbOpen

Upgrade ==
    /\ Serving
    /\ \E s \in Sessions : Attach(s) \/ OpenFails(s)
    /\ UNCHANGED dvars

Sweep ==
    /\ Serving /\ HeartbeatSweep
    /\ UNCHANGED dvars

Running ==
    /\ stage # "exited"
    /\ \/ \E s \in Sessions : SessionStep(s)
       \/ \E p \in Workspaces : CooldownOver(p)
    /\ UNCHANGED dvars

Next ==
    \/ Signal \/ SyncPeerJoins \/ SyncPeerLeaves \/ Release \/ Finish \/ ForceExit
    \/ Upgrade \/ Sweep \/ Running

Spec == Init /\ [][Next]_vars

\* Callbacks of the event loop and timers come; users and peers need not.
Tears(s) == (Reaped(s) \/ GivesUp(s) \/ CloseEvent(s)) /\ stage # "exited" /\ UNCHANGED dvars
Fairness ==
    /\ WF_vars(Release) /\ WF_vars(Finish) /\ WF_vars(ForceExit)
    /\ \A s \in Sessions : WF_vars(Tears(s))
FairSpec == Spec /\ Fairness
-----------------------------------------------------------------------------
(* Every running shell is found in the registry, however its session is      *)
(* being torn down, unless dispose has given up waiting for it: otherwise   *)
(* disposeAllTerminalSessions could not reach it.                           *)
ShellsReapable ==
    \A s \in Sessions : child[s] = "running" => s \in registry \cup outlived

(* What a shell has changed is seen by a scan once its session is gone, or   *)
(* the project cannot be scanned: the cooldown of another session of the    *)
(* same project does not swallow it ("two rapid closes").                   *)
WorkIsScanned ==
    \A s \in Sessions \ outlived :
        session[s] = "disposed" /\ ProjectOf[s] \in Scannable => work[s] <= scanned[ProjectOf[s]]

(* The sessions, whoever tears them down: no shell is out of reach and no    *)
(* work of one goes unseen.                                                  *)
TerminalsSound == ShellsReapable /\ WorkIsScanned

(* A session whose socket has closed is disposed, and a shutdown ends,       *)
(* whatever its child, its client or another node does.                     *)
TeardownEnds ==
    /\ \A s \in Sessions :
          session[s] # "none" /\ socket[s] = "closed"
              ~> session[s] = "disposed" \/ stage = "exited"
    /\ stage = "closing" ~> stage = "exited"

(* "One stuck module can never veto the rest of teardown" (shutdown.ts), and *)
(* no session that is open at the shutdown loses its scan (terminal-         *)
(* session.ts).  Refuted: server.close waits for the sockets of the          *)
(* terminals and of the sync peers, which nobody closes, until the timer     *)
(* exits the process with the database neither checkpointed nor closed.      *)
ShutdownCompletes ==
    stage = "exited" =>
        /\ ~dbOpen
        /\ \A s \in openAtSignal : session[s] = "disposed"
=============================================================================
