------------------------- MODULE NodeSyncProperties -------------------------
(* What must hold of NodeSync. *)
EXTENDS NodeSync

\* Links whose label the transport forgets or keeps on behalf of another socket:
\* they share it at the dialer with one that was dialed at the same time, or
\* with an earlier one of connectToManualPeer, whose authentication outlives it,
\* or the bounded set has let it go while the link was up.
Confused ==
    evicted \cup
    {l \in Links : \E k \in SameLabel(Dialer[l], l) \ {l} : l \in doubled \/ k \in Manual}

\* An offer or a packet of deltas never meets an end that has not finished the
\* handshake, which would drop it in silence and for good: the frame with the
\* proof of the sender is in front of it.  Both ends challenge each other at
\* the same time and nobody waits for both proofs; the order of the frames of
\* handleIncomingMessage and beginHandshake has to see to it.
NothingDropped ==
    \A l \in Links \ Confused : \A n \in Ends(l) :
        \A i \in DOMAIN chan[l][n] :
            chan[l][n][i].type \in {"offer", "delta"} =>
                \/ Authed(n, l)
                \/ \E j \in 1..i - 1 : chan[l][n][j].type = "auth"

Carries(l, n, k) ==
    \E i \in DOMAIN chan[l][n] :
        LET frame == chan[l][n][i] IN frame.type = "delta" /\ frame.from < k /\ k <= frame.to

\* While a link stays up, an event logged after its sender authenticated the
\* other end has arrived, is on its way or will be polled, although one
\* watermark serves all links, offers are answered beside the poll and
\* handshakes come and go.  Events of the watermark's own millisecond are the
\* exception of "timestamp > ?".
NothingForgotten ==
    \A l \in Links \ Confused : \A n \in Ends(l) :
        phase[l] = "up" =>
            \A k \in since[n][l] + 1..Len(log[n]) :
                \/ log[n][k].skipped
                \/ log[n][k].at > watermark[n]
                \/ Carries(l, Other(l, n), k)
                \/ <<n, k>> \in seen[Other(l, n)]

\* On a link that stays up no event is lost, neither at the start of its
\* life, which is the handshake, nor later.
NothingLost == NothingDropped /\ NothingForgotten

\* The copy of a row never goes back to an earlier value of the same author,
\* whatever offers and polls send twice, as long as the two nodes are joined
\* by one socket at a time.
CopiesMoveOn ==
    [][\A n \in Nodes : \A r \in Rows :
         (rows[n][r] # NoRow /\ rows'[n][r][1] = rows[n][r][1]) =>
            \/ rows'[n][r][2] >= rows[n][r][2]
            \/ \E l \in doubled : Ends(l) = {n, rows[n][r][1]}]_vars

\* A socket that is up is either closed or authenticated on both ends; neither
\* end is left waiting for the other one's proof.
HandshakesSettle ==
    \A l \in Links :
        phase[l] = "up" ~> \/ phase[l] # "up" \/ l \in Confused
                           \/ \A n \in Ends(l) : Authed(n, l)

\* On a link that stays up every event logged after the authentication of the
\* receiver reaches it.
EventsArrive ==
    \A l \in Links : \A n \in Nodes : \A k \in 1..MaxEdits :
        (phase[l] = "up" /\ n \in Ends(l) /\ since[n][l] < k /\ k \in DOMAIN log[n])
            ~> \/ phase[l] # "up" \/ l \in Confused \/ <<n, k>> \in seen[Other(l, n)]
               \/ k \in DOMAIN log[n] /\ log[n][k].skipped

\* A link that stays up comes to carry every event.
SyncSettles == HandshakesSettle /\ EventsArrive
=============================================================================
