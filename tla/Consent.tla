------------------------------- MODULE Consent -------------------------------
(* The consent surface of the synchronisation: discovery stages a peer, the  *)
(* operator approves, rejects or enters one (server-main.ts), the list of    *)
(* approved peers and their fingerprints (sync-consent.ts) and the sockets   *)
(* the transport dials, with the maps it keys by peer (transport.ts).  What  *)
(* the peers exchange afterwards is NodeSync.                                *)
EXTENDS Naturals, FiniteSets

CONSTANTS Peers,
          Sockets,      \* sockets dialled at a time
          MaxSecret,    \* bound: versions of the shared secret
          MaxApproved,  \* MAX_APPROVED_PEERS
          MaxFails,     \* MAX_HANDSHAKE_FAILS
          Nobody,
          Stale         \* a challenge whose socket has gone

ASSUME ConsentAssumption ==
  /\ MaxSecret \in Nat \ {0}
  /\ MaxApproved \in Nat \ {0} /\ MaxFails \in Nat \ {0}
  /\ Nobody \notin Sockets /\ Stale \notin Sockets /\ Nobody \notin Peers

VARIABLES own, theirs,   \* the secret this node has cached, and each peer
          found,         \* nodes of the mDNS module
          pend,          \* pendingPeers
          listed,        \* sync_peers
          fingerprint,   \* of its peers, 0 while none is known
          sock,          \* socket -> [peer, manual, stage]
          active,        \* activeConnections: peer -> socket
          challenge,     \* pendingChallenges: peer -> the socket challenged
          authed,        \* authenticatedPeers
          fails,         \* handshakeFailures of the current window
          first,         \* history: the first fingerprint known of a peer
          proven,        \* history: those it was authenticated with
          reapproved     \* history: peers refused for their fingerprint, then
                         \* approved again, then refused again

nvars == <<own, theirs, found, pend, listed, fingerprint, sock, active, challenge, authed,
           fails, first, proven, reapproved>>

Secrets == 1..MaxSecret
Free == [peer |-> Nobody, manual |-> FALSE, stage |-> "free"]
PeerOf(s) == sock[s].peer

-----------------------------------------------------------------------------

ConsentInit ==
  /\ own = 1 /\ theirs = [p \in Peers |-> 1]
  /\ found = {} /\ pend = {} /\ listed = {} /\ fingerprint = [p \in Peers |-> 0]
  /\ sock = [s \in Sockets |-> Free]
  /\ active = [p \in Peers |-> Nobody] /\ challenge = [p \in Peers |-> Nobody]
  /\ authed = {} /\ fails = [p \in Peers |-> 0]
  /\ first = [p \in Peers |-> 0] /\ proven = [p \in Peers |-> {}]
  /\ reapproved = [p \in Peers |-> "no"]

\* The mDNS module announces a node once in the life of the process.
Discover(p) ==
  /\ p \notin found
  /\ found' = found \cup {p} /\ pend' = pend \cup {p}
  /\ UNCHANGED <<own, theirs, listed, fingerprint, sock, active, challenge, authed, fails,
                 first, proven, reapproved>>

Reject(p) ==
  /\ p \in pend /\ pend' = pend \ {p}
  /\ UNCHANGED <<own, theirs, found, listed, fingerprint, sock, active, challenge, authed,
                 fails, first, proven, reapproved>>

\* A fingerprint that is stated for a peer, 0 for no statement, is kept when
\* none is known yet.
Learn(p, fp) ==
  /\ fingerprint' = [fingerprint EXCEPT ![p] = IF @ = 0 THEN fp ELSE @]
  /\ first' = [first EXCEPT ![p] = IF @ = 0 THEN fp ELSE @]

Enlisted(p) ==
  /\ p \in listed \/ Cardinality(listed) < MaxApproved
  /\ listed' = listed \cup {p}
  /\ reapproved' = IF reapproved[p] = "refused" THEN [reapproved EXCEPT ![p] = "approved"]
                   ELSE reapproved

\* Fault: a second approval starts from what the operator states now.
AddApprovedAnew(p) ==
  /\ Enlisted(p)
  /\ \E fp \in Secrets \cup {0} :
       /\ fingerprint' = [fingerprint EXCEPT ![p] = fp]
       /\ first' = [first EXCEPT ![p] = IF @ = 0 THEN fp ELSE @]

\* addApprovedPeer: idempotent, and a full list refuses.  What is known of a
\* peer that is listed stays; the operator may state the fingerprint of another.
AddApproved(p) ==
  /\ Enlisted(p)
  /\ IF p \in listed THEN UNCHANGED <<fingerprint, first>>
     ELSE \E fp \in Secrets \cup {0} : Learn(p, fp)

\* connectToPeer and connectToManualPeer: only a connection that is open
\* keeps another socket from being dialled.
Dial(p, manual) ==
  IF active[p] # Nobody THEN UNCHANGED sock
  ELSE \E s \in Sockets :
         /\ sock[s] = Free
         /\ sock' = [sock EXCEPT ![s] = [peer |-> p, manual |-> manual, stage |-> "dialing"]]

\* POST /api/sync/peers approve.
Approve(p) ==
  /\ AddApproved(p) /\ Dial(p, FALSE)
  /\ pend' = pend \ {p}
  /\ UNCHANGED <<own, theirs, found, active, challenge, authed, fails, proven>>

\* POST /api/sync/manual: the same list, the pending peers are left alone.
Enter(p) ==
  /\ AddApproved(p) /\ Dial(p, TRUE)
  /\ UNCHANGED <<own, theirs, found, pend, active, challenge, authed, fails, proven>>

LockedOut(p) == fails[p] >= MaxFails

\* The open event: the socket takes the peer's place in the map, and the
\* challenge of another socket of the peer is dropped.
SocketOpens(s) ==
  /\ sock[s].stage = "dialing"
  /\ active' = [active EXCEPT ![PeerOf(s)] = s]
  /\ IF LockedOut(PeerOf(s))
     THEN /\ sock' = [sock EXCEPT ![s].stage = "closing"] /\ UNCHANGED challenge
     ELSE /\ sock' = [sock EXCEPT ![s].stage = "asked"]
          /\ challenge' = [challenge EXCEPT ![PeerOf(s)] = s]
  /\ UNCHANGED <<own, theirs, found, pend, listed, fingerprint, authed, fails, first, proven, reapproved>>

Failed(p) == fails' = [fails EXCEPT ![p] = IF @ < MaxFails THEN @ + 1 ELSE @]

\* failHandshake: the failure is the peer's, whichever socket it came from.
FailHandshake(s) ==
  /\ sock' = [sock EXCEPT ![s].stage = "closing"]
  /\ Failed(PeerOf(s))
  /\ challenge' = [challenge EXCEPT ![PeerOf(s)] = Nobody]
  /\ authed' = authed \ {PeerOf(s)}
  /\ UNCHANGED <<fingerprint, first, proven, reapproved>>

\* An old peer presents no fingerprint, every other that of its secret.
Presents(s) == {0, theirs[PeerOf(s)]}

Mismatch(s, fp) == 0 \notin {fp, fingerprint[PeerOf(s)]} /\ fp # fingerprint[PeerOf(s)]

Refuse(s) ==
  /\ sock' = [sock EXCEPT ![s].stage = "closing"]
  /\ challenge' = [challenge EXCEPT ![PeerOf(s)] = Nobody]
  /\ authed' = authed \ {PeerOf(s)}
  /\ reapproved' = [reapproved EXCEPT ![PeerOf(s)] =
                      IF @ \in {"approved", "again"} THEN "again" ELSE "refused"]
  /\ UNCHANGED <<fingerprint, fails, first, proven>>

\* Trust on first use: the fingerprint that is presented is learned once.
Authenticate(s, fp) ==
  LET p == PeerOf(s) IN
  /\ Learn(p, fp)
  /\ sock' = [sock EXCEPT ![s].stage = "up"]
  /\ challenge' = [challenge EXCEPT ![p] = Nobody]
  /\ authed' = authed \cup {p}
  /\ proven' = [proven EXCEPT ![p] = @ \cup ({fp} \ {0})]
  /\ UNCHANGED <<fails, reapproved>>

\* handleAuthFrame: the nonce must be the pending one of the peer, the MAC
\* made with the same secret, and a fingerprint, if the peer presents one, the
\* one that is known.
Answer(s) ==
  /\ sock[s].stage = "asked"
  /\ IF challenge[PeerOf(s)] # s \/ theirs[PeerOf(s)] # own THEN FailHandshake(s)
     ELSE \E fp \in Presents(s) : IF Mismatch(s, fp) THEN Refuse(s) ELSE Authenticate(s, fp)
  /\ UNCHANGED <<own, theirs, found, pend, listed, active>>

\* The five seconds of a challenge are over.
Timeout(p) ==
  /\ challenge[p] # Nobody
  /\ Failed(p)
  /\ sock' = IF challenge[p] = Stale THEN sock
             ELSE [sock EXCEPT ![challenge[p]].stage = "closing"]
  /\ challenge' = [challenge EXCEPT ![p] = Nobody]
  /\ UNCHANGED <<own, theirs, found, pend, listed, fingerprint, active, authed, first, proven, reapproved>>

\* The close event, or the error of a dial.  It empties the maps of the peer,
\* whichever socket they hold; a manual connection leaves two of them alone.
Close(s) ==
  LET p == PeerOf(s) IN
  /\ sock[s].stage # "free"
  /\ sock' = [sock EXCEPT ![s] = Free]
  /\ active' = [active EXCEPT ![p] = Nobody]
  /\ IF sock[s].manual
     THEN /\ challenge' = [challenge EXCEPT ![p] = IF @ = s THEN Stale ELSE @]
          /\ UNCHANGED authed
     ELSE /\ challenge' = [challenge EXCEPT ![p] = Nobody]
          /\ authed' = authed \ {p}
  /\ UNCHANGED <<own, theirs, found, pend, listed, fingerprint, fails, first, proven, reapproved>>

\* The five minutes since the first failure are over.
Unlock(p) ==
  /\ fails[p] > 0 /\ fails' = [fails EXCEPT ![p] = 0]
  /\ UNCHANGED <<own, theirs, found, pend, listed, fingerprint, sock, active, challenge,
                 authed, first, proven, reapproved>>

\* The operator installs a new secret; a process reads it when it starts.
Restart(v) ==
  /\ v \in {own, own + 1} \cap Secrets /\ own' = v
  /\ found' = {} /\ pend' = {} /\ authed' = {}
  /\ sock' = [s \in Sockets |-> Free]
  /\ active' = [p \in Peers |-> Nobody] /\ challenge' = [p \in Peers |-> Nobody]
  /\ fails' = [p \in Peers |-> 0]
  /\ UNCHANGED <<theirs, listed, fingerprint, first, proven, reapproved>>

PeerRestarts(p) ==
  /\ theirs[p] + 1 \in Secrets
  /\ theirs' = [theirs EXCEPT ![p] = @ + 1]
  /\ UNCHANGED <<own, found, pend, listed, fingerprint, sock, active, challenge, authed,
                 fails, first, proven, reapproved>>

ConsentNext ==
  \/ \E p \in Peers :
       \/ Discover(p) \/ Reject(p) \/ Approve(p) \/ Enter(p)
       \/ Timeout(p) \/ Unlock(p) \/ PeerRestarts(p)
  \/ \E s \in Sockets : SocketOpens(s) \/ Answer(s) \/ Close(s)
  \/ \E v \in Secrets : Restart(v)

ConsentSpec == ConsentInit /\ [][ConsentNext]_nvars

-----------------------------------------------------------------------------

\* Nothing is dialled without the consent that is recorded, a full list
\* included.
ConsentBeforeDial == \A s \in Sockets : sock[s] # Free => PeerOf(s) \in listed

\* Whoever presents a fingerprint is authenticated with the first one known of
\* it only, which the operator stated or it presented itself: across restarts,
\* rotations of the secret, overlapping dials and answers without one, which
\* the secret alone authenticates.
TrustOnFirstUse == \A p \in Peers : proven[p] \subseteq {first[p]}

ConsentSound == ConsentBeforeDial /\ TrustOnFirstUse

\* Refuted.  "Re-approve only if you rotated that peer" (PortGridDashboard.tsx):
\* a peer that was refused because its secret was rotated, and then approved
\* again, is not refused for its fingerprint a second time.
ReapprovalWorks == \A p \in Peers : reapproved[p] # "again"
=============================================================================
