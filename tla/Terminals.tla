----------------------------- MODULE Terminals -----------------------------
(***************************************************************************)
(* The terminal sessions of PortGrid (core/portgrid/terminal-session.ts)   *)
(* and the WebSocket handlers that own them (server/server-main.ts): one   *)
(* sandboxed shell per socket, torn down by whoever comes first, and a     *)
(* scan of the project's documents when it is gone.                        *)
(***************************************************************************)
EXTENDS Naturals, FiniteSets

CONSTANTS
    Sessions,   \* one per upgraded socket
    Workspaces,
    ProjectOf,  \* the project of each session
    Scannable,  \* projects with a root path
    RawPeers,   \* sockets whose object forwards ping, pong and terminate
    MaxEdits,   \* bound: edits of documents by shells
    NoScan      \* no scan is recorded for the project

ASSUME TerminalAssumption ==
    /\ ProjectOf \in [Sessions -> Workspaces]
    /\ Scannable \subseteq Workspaces /\ RawPeers \subseteq Sessions
    /\ MaxEdits \in Nat /\ NoScan \notin Nat \X BOOLEAN

VARIABLES
    socket,    \* "none", "open", "breaking" (its close event is to come), "closed"
    session,   \* "none", "live", "disposing", "disposed"
    child,     \* the bwrap process: "none", "running", "exited"
    registry,  \* terminalSessions
    peers,     \* wsHeartbeatPeers
    silent,    \* peers with isAlive = false
    docs,      \* the version of the documents of each project
    lastScan,  \* lastAutoScanByProject: <<signal, within the cooldown>>
    dbOpen,    \* BaseVault can be read
    work,      \* history: the documents as each shell left them
    scanned,   \* history: the documents as the last scan saw them
    outlived   \* history: sessions disposed before their child had exited

tvars == <<socket, session, child, registry, peers, silent, docs, lastScan,
           dbOpen, work, scanned, outlived>>

TerminalInit ==
    /\ socket = [s \in Sessions |-> "none"]
    /\ session = [s \in Sessions |-> "none"]
    /\ child = [s \in Sessions |-> "none"]
    /\ registry = {} /\ peers = {} /\ silent = {}
    /\ docs = [p \in Workspaces |-> 0]
    /\ lastScan = [p \in Workspaces |-> NoScan]
    /\ dbOpen = TRUE
    /\ work = [s \in Sessions |-> 0]
    /\ scanned = [p \in Workspaces |-> 0]
    /\ outlived = {}
-----------------------------------------------------------------------------
(* dispose: a second call returns at once; the first one sends the kill and *)
(* waits for the child.                                                     *)
Disposed(S) == [s \in Sessions |-> IF s \in S /\ session[s] = "live" THEN "disposing" ELSE session[s]]

\* Fault: the registry forgets the session before the child is gone.
DisposeForgets(S) == session' = Disposed(S) /\ registry' = registry \ S

Dispose(S) == session' = Disposed(S) /\ UNCHANGED registry

\* computeProjectDocSignal: null, which is never equal, without a root path.
SameSignal(p) == p \in Scannable /\ lastScan[p] # NoScan /\ lastScan[p][1] = docs[p]

\* Fault: the cooldown looks at the clock only.
SkipsWhileCooling(p) == lastScan[p] # NoScan /\ lastScan[p][2]

\* triggerAutoScan skips a scan of what the last one saw a short while ago.
Skips(p) == SameSignal(p) /\ lastScan[p][2]

\* scanProjectForDocs fails without a root path, and without the database.
ScanWorks(p) == p \in Scannable /\ dbOpen

AutoScan(p) ==
    IF ScanWorks(p) /\ ~Skips(p)
      THEN /\ lastScan' = [lastScan EXCEPT ![p] = <<docs[p], TRUE>>]
           /\ scanned' = [scanned EXCEPT ![p] = docs[p]]
      ELSE UNCHANGED <<lastScan, scanned>>

\* The rest of dispose, after killAndAwaitExit.
AfterChild(s) ==
    /\ session' = [session EXCEPT ![s] = "disposed"]
    /\ registry' = registry \ {s}
    /\ AutoScan(ProjectOf[s])

\* Closes the socket from this side; its close event follows.
Closing(s) == [socket EXCEPT ![s] = IF @ = "open" THEN "breaking" ELSE @]
-----------------------------------------------------------------------------
(* onOpen: the peer is tracked, the session registers itself.               *)
Track(s) == peers' = peers \cup {s}

\* new TerminalSession: the shell is spawned, the session registered.
Spawn(s) ==
    /\ session' = [session EXCEPT ![s] = "live"]
    /\ child' = [child EXCEPT ![s] = "running"]
    /\ registry' = registry \cup {s}

Attach(s) ==
    /\ socket[s] = "none"
    /\ socket' = [socket EXCEPT ![s] = "open"]
    /\ Track(s) /\ Spawn(s)
    /\ UNCHANGED <<silent, docs, lastScan, dbOpen, work, scanned, outlived>>

\* createTerminalSession throws: no bwrap, no project or no directory.
OpenFails(s) ==
    /\ socket[s] = "none"
    /\ socket' = [socket EXCEPT ![s] = "breaking"]
    /\ Track(s)
    /\ UNCHANGED <<session, child, registry, silent, docs, lastScan, dbOpen, work, scanned, outlived>>

\* A shell changes a document, on input of its user or on its own.
Edit(s) ==
    /\ child[s] = "running" /\ docs[ProjectOf[s]] < MaxEdits
    /\ docs' = [docs EXCEPT ![ProjectOf[s]] = @ + 1]
    /\ work' = [work EXCEPT ![s] = docs'[ProjectOf[s]]]
    /\ UNCHANGED <<socket, session, child, registry, peers, silent, lastScan, dbOpen, scanned, outlived>>

\* onExit: the session notes it, the handler sends a last line and closes.
ChildExits(s) ==
    /\ child[s] = "running"
    /\ child' = [child EXCEPT ![s] = "exited"]
    /\ socket' = Closing(s)
    /\ UNCHANGED <<session, registry, peers, silent, docs, lastScan, dbOpen, work, scanned, outlived>>

ClientLeaves(s) ==
    /\ socket[s] = "open"
    /\ socket' = Closing(s)
    /\ UNCHANGED <<session, child, registry, peers, silent, docs, lastScan, dbOpen, work, scanned, outlived>>

\* onClose, or onError, which does the same.
CloseEvent(s) ==
    /\ socket[s] = "breaking"
    /\ socket' = [socket EXCEPT ![s] = "closed"]
    /\ peers' = peers \ {s} /\ silent' = silent \ {s}
    /\ Dispose({s})
    /\ UNCHANGED <<child, docs, lastScan, dbOpen, work, scanned, outlived>>

\* wsHeartbeatSweep: who has not answered the last ping is terminated and
\* forgotten, the others are pinged.  Only a raw socket knows either call.
HeartbeatSweep ==
    /\ peers # {}
    /\ socket' = [s \in Sessions |->
                     IF s \in peers \cap silent \cap RawPeers /\ socket[s] = "open"
                       THEN "breaking" ELSE socket[s]]
    /\ peers' = peers \ silent
    /\ silent' = peers'
    /\ UNCHANGED <<session, child, registry, docs, lastScan, dbOpen, work, scanned, outlived>>

Pong(s) ==
    /\ s \in silent \cap RawPeers /\ socket[s] = "open"
    /\ silent' = silent \ {s}
    /\ UNCHANGED <<socket, session, child, registry, peers, docs, lastScan, dbOpen, work, scanned, outlived>>

\* Nothing was typed for a quarter of an hour.
IdleTimeout(s) ==
    /\ session[s] = "live"
    /\ Dispose({s})
    /\ UNCHANGED <<socket, child, peers, silent, docs, lastScan, dbOpen, work, scanned, outlived>>

\* killAndAwaitExit resolves: the child is gone, or five seconds have passed.
Reaped(s) ==
    /\ session[s] = "disposing" /\ child[s] = "exited"
    /\ AfterChild(s)
    /\ UNCHANGED <<socket, child, peers, silent, docs, dbOpen, work, outlived>>

\* Fault: dispose waits for the exit event alone.
GivesUpNever(s) == session[s] = "disposing" /\ FALSE

GivesUp(s) ==
    /\ session[s] = "disposing" /\ child[s] = "running"
    /\ AfterChild(s)
    /\ outlived' = outlived \cup {s}
    /\ UNCHANGED <<socket, child, peers, silent, docs, dbOpen, work>>

CooldownOver(p) ==
    /\ lastScan[p] # NoScan /\ lastScan[p][2]
    /\ lastScan' = [lastScan EXCEPT ![p] = <<@[1], FALSE>>]
    /\ UNCHANGED <<socket, session, child, registry, peers, silent, docs, dbOpen, work, scanned, outlived>>

\* What happens to a session whatever the server does.
SessionStep(s) ==
    \/ Edit(s) \/ ChildExits(s) \/ ClientLeaves(s) \/ CloseEvent(s) \/ Pong(s)
    \/ IdleTimeout(s) \/ Reaped(s) \/ GivesUp(s)
=============================================================================
