------------------------------ MODULE NodeSync ------------------------------
(***************************************************************************)
(* The synchronisation of two or more nodes: event log, watermark, links,  *)
(* handshake, offers and deltas.                                           *)
(*                                                                         *)
(* Code: src/core/basevault/network/transport.ts, sync-policy.ts, the      *)
(* triggers of src/core/basevault/db.ts and the routes /api/sync of        *)
(* src/server/server-main.ts.                                              *)
(*                                                                         *)
(* The k-th event that the triggers of node n write is <<n, k>>, and this  *)
(* is also the value that the event gives to its row.  Times in a log do   *)
(* not decrease, so the events after a given time are a suffix of the log  *)
(* and a packet of deltas is a pair of positions.  A link is one socket;   *)
(* its dialer knows the other end by address, its acceptor by a fresh id.  *)
(***************************************************************************)
EXTENDS Naturals, Sequences, FiniteSets, SequencesExt

CONSTANTS
    Nodes,
    Rows,              \* primary keys of projects, workflow_runs, tasks
    Parent,            \* Parent[r]: the row that the foreign key of r names
    NoRow,             \* the parent of a project; the value of a missing row
    Links,             \* sockets that may be dialed
    Dialer, Acceptor,  \* the two nodes of a link
    Manual,            \* links of connectToManualPeer
    MaxAuthenticated,  \* MAX_AUTHENTICATED
    MaxEdits,          \* bound: local edits of all nodes together
    MaxTime,           \* bound: milliseconds
    MaxRestarts        \* bound: restarts of all nodes together

ASSUME SyncAssumption ==
    /\ Parent \in [Rows -> Rows \cup {NoRow}] /\ NoRow \notin Rows
    /\ Dialer \in [Links -> Nodes] /\ Acceptor \in [Links -> Nodes]
    /\ \A l \in Links : Dialer[l] # Acceptor[l]
    /\ Nodes \cap Links = {} /\ Manual \subseteq Links
    /\ MaxAuthenticated \in Nat \ {0}
    /\ MaxEdits \in Nat /\ MaxTime \in Nat /\ MaxRestarts \in Nat

\* A missing row is told from every value.
ASSUME ValueAssumption == NoRow \notin Nodes \X (1..MaxEdits)

VARIABLES
    now,        \* Date.now(), the same on all nodes
    rows,       \* rows[n][r]: the event that r got its value from, or NoRow
    log,        \* sync_event_log of each node
    watermark,  \* lastPolledTimestamp
    phase,      \* of each link, see Phases
    active,     \* of each node: the links in activeConnections
    authed,     \* of each node: authenticatedPeers, in order of insertion
    pending,    \* of each node: the links in pendingChallenges
    chan,       \* chan[l][n]: the frames on their way to n on l
    restarts,   \* how much of MaxRestarts is used
    seen,       \* history: the events of others that each node has processed
    since,      \* history: since[n][l]: the length of the log of n when n
                \* authenticated the other end of l; MaxEdits before
    doubled,    \* history: links opened beside another one of the same two nodes
    evicted     \* history: links up whose label had to make room for another one

netVars == <<phase, active, authed, pending, chan, since, doubled, evicted>>
vars == <<now, rows, log, watermark, restarts, seen, netVars>>

\* The dialer's close event takes a link from "down" to "gone".
Phases == {"unused", "dialing", "accepted", "up", "down", "gone"}
Ends(l) == {Dialer[l], Acceptor[l]}
Other(l, n) == IF n = Dialer[l] THEN Acceptor[l] ELSE Dialer[l]

\* peerId: the address of a dialed node, a fresh id for an incoming socket.
Label(n, l) == IF n = Dialer[l] THEN Acceptor[l] ELSE l
SameLabel(n, l) == {k \in Links : n \in Ends(k) /\ Label(n, k) = Label(n, l)}
Authed(n, l) == Label(n, l) \in Range(authed[n])

Frames ==
    [type : {"challenge", "auth"}] \cup [type : {"offer"}, after : 0..MaxTime]
        \cup [type : {"delta"}, from : 0..MaxEdits, to : 0..MaxEdits]

TypeOK ==
    /\ now \in 0..MaxTime
    /\ rows \in [Nodes -> [Rows -> {NoRow} \cup (Nodes \X (1..MaxEdits))]]
    /\ log \in [Nodes -> Seq([row : Rows, at : 0..MaxTime, skipped : BOOLEAN])]
    /\ watermark \in [Nodes -> 0..MaxTime]
    /\ phase \in [Links -> Phases]
    /\ active \in [Nodes -> SUBSET Links]
    /\ authed \in [Nodes -> Seq(Nodes \cup Links)]
    /\ pending \in [Nodes -> SUBSET Links]
    /\ chan \in [Links -> [Nodes -> Seq(Frames)]]
    /\ restarts \in 0..MaxRestarts
    /\ seen \in [Nodes -> SUBSET (Nodes \X (1..MaxEdits))]
    /\ since \in [Nodes -> [Links -> 0..MaxEdits]]
    /\ doubled \subseteq Links /\ evicted \subseteq Links
    \* what the maps of the code hold by their keys
    /\ \A n \in Nodes : \A k, l \in active[n] : k \in SameLabel(n, l) => k = l
    /\ \A n \in Nodes : IsInjective(authed[n]) /\ Len(authed[n]) <= MaxAuthenticated

Init ==
    /\ now = 0 /\ restarts = 0 /\ doubled = {} /\ evicted = {}
    /\ rows = [n \in Nodes |-> [r \in Rows |-> NoRow]]
    /\ log = [n \in Nodes |-> <<>>]
    /\ watermark = [n \in Nodes |-> 0]
    /\ phase = [l \in Links |-> "unused"]
    /\ active = [n \in Nodes |-> {}]
    /\ authed = [n \in Nodes |-> <<>>]
    /\ pending = [n \in Nodes |-> {}]
    /\ chan = [l \in Links |-> [n \in Nodes |-> <<>>]]
    /\ seen = [n \in Nodes |-> {}]
    /\ since = [n \in Nodes |-> [l \in Links |-> MaxEdits]]

-----------------------------------------------------------------------------
(* The database.                                                           *)

Tick == now < MaxTime /\ now' = now + 1 /\ UNCHANGED <<rows, log, watermark, restarts, seen, netVars>>

ParentPresent(table, r) == Parent[r] # NoRow => table[Parent[r]] # NoRow

\* An INSERT or UPDATE of a row and the trigger that logs it.  An event of the
\* millisecond of the watermark will not be found by the poll.
Edit(n, r) ==
    /\ Len(log[n]) < MaxEdits
    /\ FoldFunction(LAMBDA events, sum : Len(events) + sum, 0, log) < MaxEdits
    /\ ParentPresent(rows[n], r)
    /\ log' = [log EXCEPT ![n] =
                 Append(@, [row |-> r, at |-> now, skipped |-> now = watermark[n]])]
    /\ rows' = [rows EXCEPT ![n][r] = <<n, Len(log[n]) + 1>>]
    /\ UNCHANGED <<now, watermark, restarts, seen, netVars>>

\* How many events of n are not later than t: WHERE timestamp > t skips them.
UpTo(n, t) == Cardinality({k \in DOMAIN log[n] : log[n][k].at <= t})

\* Fault: a page of one event.
FirstDeltaAfter(n, t) ==
    [type |-> "delta", from |-> UpTo(n, t),
     to |-> IF UpTo(n, t) = Len(log[n]) THEN Len(log[n]) ELSE UpTo(n, t) + 1]

DeltasAfter(n, t) == [type |-> "delta", from |-> UpTo(n, t), to |-> Len(log[n])]

\* The k-th event of n is written to its row, unless the parent of the row is
\* missing: the foreign key refuses it and it is dropped.
Written(table, n, k) ==
    LET r == log[n][k].row IN
    IF ParentPresent(table, r) THEN [table EXCEPT ![r] = <<n, k>>] ELSE table

\* handleSyncDelta: the events of the packet, in their order.  sync_lock keeps
\* the triggers from logging this.
Merged(table, n, packet) ==
    LET f[k \in packet.from..packet.to] ==
            IF k = packet.from THEN table ELSE Written(f[k - 1], n, k)
    IN  f[packet.to]
-----------------------------------------------------------------------------
(* Connections.                                                            *)

Push(channels, l, n, frame) == [channels EXCEPT ![l][n] = Append(@, frame)]

\* A socket that closes loses what is on its way.
Hangup(l) ==
    /\ phase' = [phase EXCEPT ![l] = "down"]
    /\ chan' = [chan EXCEPT ![l] = [n \in Nodes |-> <<>>]]

\* connectToPeer, connectToManualPeer: unless the address is connected.
Dial(l) ==
    /\ phase[l] = "unused"
    /\ active[Dialer[l]] \cap SameLabel(Dialer[l], l) = {}
    /\ phase' = [phase EXCEPT ![l] = "dialing"]
    /\ UNCHANGED <<now, rows, log, watermark, restarts, seen, active, authed, pending, chan,
                    since, doubled, evicted>>

\* Registering the link l at n and beginHandshake: a later link with the same
\* label takes the place of an earlier one in both maps.
Register(n, l) ==
    /\ active' = [active EXCEPT ![n] = (@ \ SameLabel(n, l)) \cup {l}]
    /\ pending' = [pending EXCEPT ![n] = (@ \ SameLabel(n, l)) \cup {l}]
    /\ chan' = Push(chan, l, Other(l, n), [type |-> "challenge"])

\* Fault: an incoming socket is registered but not challenged.
AcceptUnchallenged(l) ==
    /\ phase[l] = "dialing" /\ phase' = [phase EXCEPT ![l] = "accepted"]
    /\ active' = [active EXCEPT ![Acceptor[l]] = @ \cup {l}]
    /\ UNCHANGED <<now, rows, log, watermark, restarts, seen, authed, pending, chan, since, doubled, evicted>>

\* onOpen of an incoming socket: addIncomingConnection.
Accept(l) ==
    /\ phase[l] = "dialing" /\ phase' = [phase EXCEPT ![l] = "accepted"]
    /\ Register(Acceptor[l], l)
    /\ UNCHANGED <<now, rows, log, watermark, restarts, seen, authed, since, doubled, evicted>>

\* Fault: the dialer makes its offer at once.
OpenedWithOffer(l) ==
    /\ phase[l] = "accepted" /\ phase' = [phase EXCEPT ![l] = "up"]
    /\ active' = [active EXCEPT ![Dialer[l]] = (@ \ SameLabel(Dialer[l], l)) \cup {l}]
    /\ pending' = [pending EXCEPT ![Dialer[l]] = (@ \ SameLabel(Dialer[l], l)) \cup {l}]
    /\ chan' = [chan EXCEPT ![l][Acceptor[l]] =
                   @ \o <<[type |-> "challenge"], [type |-> "offer", after |-> watermark[Dialer[l]]]>>]
    /\ UNCHANGED <<now, rows, log, watermark, restarts, seen, authed, since, doubled, evicted>>

\* The open event of the dialer.
Opened(l) ==
    LET rivals == {k \in Links \ {l} : Ends(k) = Ends(l) /\ phase[k] \notin {"unused", "gone"}} IN
    /\ phase[l] = "accepted" /\ phase' = [phase EXCEPT ![l] = "up"]
    /\ Register(Dialer[l], l)
    /\ doubled' = doubled \cup (IF rivals = {} THEN {} ELSE rivals \cup {l})
    /\ UNCHANGED <<now, rows, log, watermark, restarts, seen, authed, since, evicted>>

\* The network or the heartbeat closes a socket.
Breaks(l) ==
    /\ phase[l] \in {"dialing", "accepted", "up"}
    /\ Hangup(l)
    /\ UNCHANGED <<now, rows, log, watermark, restarts, seen, active, authed, pending, since, doubled, evicted>>

\* The close event of the dialer forgets the label, whichever socket has it
\* now; that of connectToManualPeer leaves it authenticated.  The acceptor's
\* close event does not reach the transport.
NoticesClose(l) ==
    LET n == Dialer[l] IN
    /\ phase[l] = "down" /\ phase' = [phase EXCEPT ![l] = "gone"]
    /\ active' = [active EXCEPT ![n] = @ \ SameLabel(n, l)]
    /\ IF l \in Manual
       THEN UNCHANGED <<authed, pending>>
       ELSE /\ authed' = [authed EXCEPT ![n] = RemoveFirst(@, Label(n, l))]
            /\ pending' = [pending EXCEPT ![n] = @ \ SameLabel(n, l)]
    /\ UNCHANGED <<now, rows, log, watermark, restarts, seen, chan, since, doubled, evicted>>

\* No answer within HANDSHAKE_TIMEOUT_MS.
HandshakeTimeout(n, l) ==
    /\ l \in pending[n] /\ pending' = [pending EXCEPT ![n] = @ \ {l}]
    /\ IF phase[l] \in {"accepted", "up"} THEN Hangup(l) ELSE UNCHANGED <<phase, chan>>
    /\ UNCHANGED <<now, rows, log, watermark, restarts, seen, active, authed, since, doubled, evicted>>

\* The process of n dies and boots: a new NodeTransport.
Restart(n) ==
    /\ restarts < MaxRestarts /\ restarts' = restarts + 1
    /\ watermark' = [watermark EXCEPT ![n] = now]
    /\ active' = [active EXCEPT ![n] = {}]
    /\ authed' = [authed EXCEPT ![n] = <<>>]
    /\ pending' = [pending EXCEPT ![n] = {}]
    /\ phase' = [l \in Links |->
                   IF phase[l] = "unused" \/ n \notin Ends(l) THEN phase[l]
                   ELSE IF n = Dialer[l] \/ phase[l] = "gone" THEN "gone" ELSE "down"]
    /\ chan' = [l \in Links |-> IF n \in Ends(l) THEN [m \in Nodes |-> <<>>] ELSE chan[l]]
    /\ UNCHANGED <<now, rows, log, seen, since, doubled, evicted>>

-----------------------------------------------------------------------------
(* handleIncomingMessage: the next frame of l for n.                       *)

Arrives(n, l, type) ==
    /\ phase[l] = "up" /\ chan[l][n] # <<>>
    /\ Head(chan[l][n]).type = type
Consumed(n, l) == [chan EXCEPT ![l][n] = Tail(@)]

Challenged(n, l) ==
    /\ Arrives(n, l, "challenge")
    /\ chan' = Push(Consumed(n, l), l, Other(l, n), [type |-> "auth"])
    /\ UNCHANGED <<now, rows, log, watermark, restarts, seen, phase, active, authed, pending,
                    since, doubled, evicted>>

\* The bounded set: the oldest label makes room.
Admit(labels, x) ==
    IF x \in Range(labels) THEN labels
    ELSE Append(IF Len(labels) >= MaxAuthenticated THEN Tail(labels) ELSE labels, x)

\* A valid answer to the challenge of this link.  The dialer makes its offer.
Proven(n, l) ==
    /\ Arrives(n, l, "auth") /\ l \in pending[n]
    /\ pending' = [pending EXCEPT ![n] = @ \ {l}]
    /\ authed' = [authed EXCEPT ![n] = Admit(@, Label(n, l))]
    /\ evicted' = evicted \cup {k \in Links : phase[k] = "up" /\ n \in Ends(k) /\ Authed(n, k) /\ ~Authed(n, k)'}
    /\ since' = [since EXCEPT ![n][l] = Len(log[n])]
    /\ chan' = IF n = Dialer[l]
               THEN Push(Consumed(n, l), l, Acceptor[l], [type |-> "offer", after |-> watermark[n]])
               ELSE Consumed(n, l)
    /\ UNCHANGED <<now, rows, log, watermark, restarts, seen, phase, active, doubled>>

\* failHandshake: the challenge of this link has been replaced or withdrawn.
Refused(n, l) ==
    /\ Arrives(n, l, "auth") /\ l \notin pending[n]
    /\ pending' = [pending EXCEPT ![n] = @ \ SameLabel(n, l)]
    /\ authed' = [authed EXCEPT ![n] = RemoveFirst(@, Label(n, l))]
    /\ Hangup(l)
    /\ UNCHANGED <<now, rows, log, watermark, restarts, seen, active, since, doubled, evicted>>

\* Fault: the answer moves the watermark.
OfferedMovingWatermark(n, l) ==
    /\ Arrives(n, l, "offer") /\ Authed(n, l)
    /\ chan' = Push(Consumed(n, l), l, Other(l, n), DeltasAfter(n, Head(chan[l][n]).after))
    /\ watermark' = [watermark EXCEPT ![n] = now]
    /\ UNCHANGED <<now, rows, log, restarts, seen, phase, active, authed, pending, since, doubled, evicted>>

\* handleSyncOffer: the answer does not move the watermark.
Offered(n, l) ==
    /\ Arrives(n, l, "offer") /\ Authed(n, l)
    /\ chan' = Push(Consumed(n, l), l, Other(l, n), DeltasAfter(n, Head(chan[l][n]).after))
    /\ UNCHANGED <<now, rows, log, watermark, restarts, seen, phase, active, authed, pending,
                    since, doubled, evicted>>

Applied(n, l) ==
    LET m == Other(l, n)
        packet == Head(chan[l][n])
    IN  /\ Arrives(n, l, "delta") /\ Authed(n, l)
        /\ rows' = [rows EXCEPT ![n] = Merged(@, m, packet)]
        /\ seen' = [seen EXCEPT ![n] = @ \cup {<<m, k>> : k \in packet.from + 1..packet.to}]
        /\ chan' = Consumed(n, l)
        /\ UNCHANGED <<now, log, watermark, restarts, phase, active, authed, pending, since, doubled, evicted>>

\* A frame of a peer that is not authenticated.
Dropped(n, l) ==
    /\ Arrives(n, l, "offer") \/ Arrives(n, l, "delta")
    /\ ~Authed(n, l)
    /\ chan' = Consumed(n, l)
    /\ UNCHANGED <<now, rows, log, watermark, restarts, seen, phase, active, authed, pending,
                    since, doubled, evicted>>

\* pollAndBroadcastDeltas, once per second.  A link that is down has the label
\* of a recipient all the same.
Recipients(n) == {l \in active[n] : Authed(n, l)}

\* Fault: only the newest event is sent.
PollNewest(n) ==
    LET packet == DeltasAfter(n, watermark[n]) IN
    /\ Recipients(n) # {} /\ packet.from < packet.to
    /\ watermark' = [watermark EXCEPT ![n] = log[n][packet.to].at]
    /\ chan' = [l \in Links |-> IF l \in Recipients(n) /\ phase[l] = "up"
                                THEN Push(chan, l, Other(l, n), [packet EXCEPT !.from = packet.to - 1])[l]
                                ELSE chan[l]]
    /\ UNCHANGED <<now, rows, log, restarts, seen, phase, active, authed, pending, since, doubled, evicted>>

Poll(n) ==
    LET packet == DeltasAfter(n, watermark[n]) IN
    /\ Recipients(n) # {} /\ packet.from < packet.to
    /\ watermark' = [watermark EXCEPT ![n] = log[n][packet.to].at]
    /\ chan' = [l \in Links |-> IF l \in Recipients(n) /\ phase[l] = "up"
                                THEN Push(chan, l, Other(l, n), packet)[l]
                                ELSE chan[l]]
    /\ UNCHANGED <<now, rows, log, restarts, seen, phase, active, authed, pending, since, doubled, evicted>>

-----------------------------------------------------------------------------
Receive(n, l) ==
    Challenged(n, l) \/ Proven(n, l) \/ Refused(n, l) \/ Offered(n, l) \/ Applied(n, l) \/ Dropped(n, l)

Socket(l) == Dial(l) \/ Accept(l) \/ Opened(l) \/ Breaks(l) \/ NoticesClose(l)

Next ==
    \/ Tick
    \/ \E n \in Nodes : Poll(n) \/ Restart(n) \/ \E r \in Rows : Edit(n, r)
    \/ \E l \in Links : Socket(l) \/ \E n \in Ends(l) : Receive(n, l) \/ HandshakeTimeout(n, l)

Spec == Init /\ [][Next]_vars

\* The interval of the poll and the delivery of what was sent.  Nothing is
\* assumed of users, timers and the network.
Fairness ==
    /\ \A n \in Nodes : WF_vars(Poll(n))
    /\ \A l \in Links : \A n \in Ends(l) : WF_vars(Receive(n, l))

FairSpec == Spec /\ Fairness
=============================================================================
