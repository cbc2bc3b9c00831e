--------------------------- MODULE SurfaceProofs ----------------------------
(***************************************************************************)
(* The services at the edges of the server.                                *)
(***************************************************************************)
EXTENDS Schema, Shutdown, Perimeter, Access, Console, Interview, Consent, FiniteSetTheorems, TLAPS

Slots == {Free} \cup [peer : Peers, manual : BOOLEAN,
                      stage : {"dialing", "asked", "closing", "up"}]

-----------------------------------------------------------------------------
(* The inductive invariant.                                                 *)

ConsentTypes ==
  /\ own \in Secrets /\ theirs \in [Peers -> Secrets]
  /\ listed \subseteq Peers /\ authed \subseteq Peers
  /\ sock \in [Sockets -> Slots]
  /\ challenge \in [Peers -> Sockets \cup {Nobody, Stale}]
  /\ fingerprint \in [Peers -> 0..MaxSecret]
  /\ first \in [Peers -> 0..MaxSecret] /\ proven \in [Peers -> SUBSET Secrets]

\* A pending challenge is one of a socket to that peer, so that the timer
\* closes no socket that is free.
Challenged == \A p \in Peers : challenge[p] \in Sockets => sock[challenge[p]].peer = p

\* The fingerprint that is known is the first one that was, and no other was
\* proven.
Pinned ==
  /\ \A p \in Peers : fingerprint[p] = first[p]
  /\ TrustOnFirstUse

ConsentInv == ConsentTypes /\ ConsentBeforeDial /\ Challenged /\ Pinned

LEMMA SlotFacts ==
  /\ \A x \in Slots : x # Free => x.peer \in Peers
  /\ \A x \in Slots : x.peer \in Peers => x # Free
  /\ \A x \in Slots : x.stage # "free" <=> x # Free
  /\ \A x \in Slots \ {Free} : \A t \in {"asked", "closing", "up"} :
        /\ [x EXCEPT !.stage = t] \in Slots \ {Free}
        /\ [x EXCEPT !.stage = t].peer = x.peer
BY ConsentAssumption DEF Slots, Free

\* A socket that is taken keeps its peer through the stages of its life.
LEMMA StageMoved ==
  ASSUME NEW f \in [Sockets -> Slots], NEW s \in Sockets, f[s] # Free,
         NEW t \in {"asked", "closing", "up"}, NEW g, g = [f EXCEPT ![s].stage = t]
  PROVE  /\ g \in [Sockets -> Slots]
         /\ \A k \in Sockets : (g[k] # Free <=> f[k] # Free) /\ g[k].peer = f[k].peer
<1>1. g[s] = [f[s] EXCEPT !.stage = t] /\ \A k \in Sockets \ {s} : g[k] = f[k]
  OBVIOUS
<1>2. g[s] \in Slots \ {Free} /\ g[s].peer = f[s].peer
  BY <1>1, SlotFacts
<1>3. DOMAIN g = Sockets /\ g = [k \in Sockets |-> g[k]]
  OBVIOUS
<1> QED
  BY <1>1, <1>2, <1>3

\* What is learned of a peer is the first that is known of it and stays known.
LEMMA Learning ==
  ASSUME ConsentTypes, \A q \in Peers : fingerprint[q] = first[q],
         NEW p \in Peers, NEW fp \in 0..MaxSecret, Learn(p, fp)
  PROVE  /\ fingerprint' \in [Peers -> 0..MaxSecret] /\ first' \in [Peers -> 0..MaxSecret]
         /\ \A q \in Peers : fingerprint'[q] = first'[q]
         /\ \A q \in Peers : first[q] # 0 => first'[q] = first[q]
         /\ fingerprint[p] = 0 => first'[p] = fp
BY DEF ConsentTypes, Learn

LEMMA ConsentBegins == ConsentInit => ConsentInv
BY ConsentAssumption, SlotFacts
   DEF ConsentInit, ConsentInv, ConsentTypes, ConsentBeforeDial, Challenged, Pinned,
       TrustOnFirstUse, Slots, Secrets

-----------------------------------------------------------------------------
(* The steps.                                                               *)

\* Taking a free socket for a peer that is on the list.
LEMMA Dialling ==
  ASSUME ConsentInv, NEW p \in Peers, NEW manual \in BOOLEAN,
         AddApproved(p), Dial(p, manual), UNCHANGED challenge
  PROVE  sock' \in [Sockets -> Slots] /\ ConsentBeforeDial' /\ Challenged' /\ listed' \subseteq Peers
<1>1. listed' = listed \cup {p}
  BY DEF AddApproved, Enlisted
<1>2. CASE sock' = sock
  BY <1>1, <1>2 DEF ConsentInv, ConsentTypes, ConsentBeforeDial, Challenged, PeerOf
<1>3. CASE sock' # sock
  <2>1. PICK s \in Sockets :
          sock[s] = Free /\ sock' = [sock EXCEPT ![s] = [peer |-> p, manual |-> manual, stage |-> "dialing"]]
    BY <1>3 DEF Dial
  <2>2. \A q \in Peers : challenge[q] # s
    BY <2>1, SlotFacts DEF ConsentInv, ConsentTypes, Challenged, Free, Slots
  <2> QED
    BY <1>1, <2>1, <2>2 DEF ConsentInv, ConsentTypes, ConsentBeforeDial, Challenged, PeerOf, Slots
<1> QED
  BY <1>2, <1>3

LEMMA ConsentHolds == ConsentInv /\ [ConsentNext]_nvars => ConsentInv'
<1> SUFFICES ASSUME ConsentInv, [ConsentNext]_nvars PROVE ConsentInv'
  OBVIOUS
<1> USE DEF Secrets
<1>1. ASSUME NEW p \in Peers, Discover(p) \/ Reject(p) \/ Unlock(p) PROVE ConsentInv'
  BY <1>1 DEF Discover, Reject, Unlock, ConsentInv, ConsentTypes, ConsentBeforeDial,
              Challenged, Pinned, TrustOnFirstUse, PeerOf
<1>2. ASSUME NEW p \in Peers, Approve(p) \/ Enter(p) PROVE ConsentInv'
  <2>1. sock' \in [Sockets -> Slots] /\ ConsentBeforeDial' /\ Challenged' /\ listed' \subseteq Peers
    BY <1>2, Dialling DEF Approve, Enter
  <2>2. UNCHANGED <<own, theirs, authed, challenge, proven>>
    BY <1>2 DEF Approve, Enter
  <2>3. UNCHANGED <<fingerprint, first>> \/ \E fp \in 0..MaxSecret : Learn(p, fp)
    <3>1. AddApproved(p)
      BY <1>2, Zenon DEF Approve, Enter
    <3>2. Secrets \cup {0} = 0..MaxSecret
      BY ConsentAssumption
    <3> QED
      BY <3>1, <3>2, Zenon DEF AddApproved
  <2>4. /\ fingerprint' \in [Peers -> 0..MaxSecret] /\ first' \in [Peers -> 0..MaxSecret]
        /\ \A q \in Peers : fingerprint'[q] = first'[q]
        /\ \A q \in Peers : first[q] # 0 => first'[q] = first[q]
    <3>0. ConsentTypes /\ \A q \in Peers : fingerprint[q] = first[q]
      BY DEF ConsentInv, Pinned
    <3>1. CASE UNCHANGED <<fingerprint, first>>
      BY <3>0, <3>1 DEF ConsentTypes
    <3>2. CASE \E fp \in 0..MaxSecret : Learn(p, fp)
      <4>1. PICK fp \in 0..MaxSecret : Learn(p, fp)
        BY <3>2
      <4> QED
        BY <3>0, <4>1, Learning
    <3> QED
      BY <2>3, <3>1, <3>2
  <2>5. Pinned'
    BY <2>2, <2>4 DEF ConsentInv, ConsentTypes, Pinned, TrustOnFirstUse
  <2> QED
    BY <2>1, <2>2, <2>4, <2>5 DEF ConsentInv, ConsentTypes
<1>3. ASSUME NEW p \in Peers, PeerRestarts(p) PROVE ConsentInv'
  BY <1>3 DEF PeerRestarts, ConsentInv, ConsentTypes, ConsentBeforeDial,
              Challenged, Pinned, TrustOnFirstUse, PeerOf
<1>4. ASSUME NEW p \in Peers, Timeout(p) PROVE ConsentInv'
  <2>2. challenge[p] \in Sockets => sock[challenge[p]] \in Slots \ {Free}
    BY SlotFacts DEF ConsentInv, ConsentTypes, Challenged
  <2>3. sock' \in [Sockets -> Slots] /\ \A s \in Sockets :
          /\ sock'[s] # Free <=> sock[s] # Free
          /\ sock'[s].peer = sock[s].peer
    <3>1. CASE challenge[p] \in Sockets /\ sock' = [sock EXCEPT ![challenge[p]].stage = "closing"]
      BY <2>2, <3>1, StageMoved DEF ConsentInv, ConsentTypes
    <3>2. CASE sock' = sock
      BY <3>2 DEF ConsentInv, ConsentTypes
    <3> QED
      BY <1>4, <3>1, <3>2 DEF Timeout, ConsentInv, ConsentTypes
  <2>4. challenge' = [challenge EXCEPT ![p] = Nobody]
        /\ UNCHANGED <<own, theirs, listed, fingerprint, authed, first, proven>>
    BY <1>4 DEF Timeout
  <2> QED
    BY <2>3, <2>4, ConsentAssumption DEF ConsentInv, ConsentTypes, ConsentBeforeDial,
              Challenged, Pinned, TrustOnFirstUse, PeerOf
<1>5. ASSUME NEW s \in Sockets, SocketOpens(s) PROVE ConsentInv'
  <2>1. sock[s] \in Slots \ {Free} /\ PeerOf(s) \in Peers
    BY <1>5, SlotFacts DEF SocketOpens, ConsentInv, ConsentTypes, PeerOf, Free
  <2>2. sock' \in [Sockets -> Slots] /\ \A k \in Sockets :
          /\ sock'[k] # Free <=> sock[k] # Free
          /\ sock'[k].peer = sock[k].peer
    <3>1. PICK t \in {"closing", "asked"} : sock' = [sock EXCEPT ![s].stage = t]
      BY <1>5 DEF SocketOpens
    <3> QED
      BY <2>1, <3>1, StageMoved DEF ConsentInv, ConsentTypes
  <2>3. challenge' = challenge \/ challenge' = [challenge EXCEPT ![PeerOf(s)] = s]
    BY <1>5 DEF SocketOpens
  <2>4. UNCHANGED <<own, theirs, listed, fingerprint, authed, first, proven>>
    BY <1>5 DEF SocketOpens
  <2>5. ConsentBeforeDial'
    BY <2>2, <2>4 DEF ConsentInv, ConsentBeforeDial, PeerOf
  <2>6. Challenged'
    BY <2>1, <2>2, <2>3 DEF ConsentInv, ConsentTypes, Challenged, PeerOf
  <2>7. ConsentTypes'
    BY <2>1, <2>2, <2>3, <2>4 DEF ConsentInv, ConsentTypes
  <2>8. Pinned'
    BY <2>4 DEF ConsentInv, Pinned, TrustOnFirstUse
  <2> QED
    BY <2>5, <2>6, <2>7, <2>8 DEF ConsentInv
<1>6. ASSUME NEW s \in Sockets, Answer(s) PROVE ConsentInv'
  <2>1. sock[s] \in Slots \ {Free} /\ PeerOf(s) \in Peers
    BY <1>6, SlotFacts DEF Answer, ConsentInv, ConsentTypes, PeerOf, Free
  <2>2. \/ sock' = [sock EXCEPT ![s].stage = "closing"]
        \/ sock' = [sock EXCEPT ![s].stage = "up"]
    BY <1>6 DEF Answer, FailHandshake, Refuse, Authenticate
  <2>3. sock' \in [Sockets -> Slots] /\ \A k \in Sockets :
          /\ sock'[k] # Free <=> sock[k] # Free
          /\ sock'[k].peer = sock[k].peer
    <3>0. sock \in [Sockets -> Slots]
      BY DEF ConsentInv, ConsentTypes
    <3>1. CASE sock' = [sock EXCEPT ![s].stage = "closing"]
      BY <2>1, <3>0, <3>1, StageMoved
    <3>2. CASE sock' = [sock EXCEPT ![s].stage = "up"]
      BY <2>1, <3>0, <3>2, StageMoved
    <3> QED
      BY <2>2, <3>1, <3>2
  <2>4. challenge' = [challenge EXCEPT ![PeerOf(s)] = Nobody]
        /\ UNCHANGED <<own, theirs, listed>>
    BY <1>6 DEF Answer, FailHandshake, Refuse, Authenticate
  <2>5. ConsentBeforeDial' /\ Challenged'
    <3>1. ConsentBeforeDial'
      BY <2>3, <2>4 DEF ConsentInv, ConsentBeforeDial, PeerOf
    <3>2. Challenged'
      BY <2>1, <2>3, <2>4, ConsentAssumption DEF ConsentInv, ConsentTypes, Challenged
    <3> QED
      BY <3>1, <3>2
  <2>6. ASSUME NEW fp \in Presents(s), Authenticate(s, fp), ~Mismatch(s, fp) PROVE ConsentInv'
    <3>1. fp \in 0..MaxSecret
      BY <2>1, ConsentAssumption DEF Presents, ConsentInv, ConsentTypes
    <3>2. /\ fingerprint' \in [Peers -> 0..MaxSecret] /\ first' \in [Peers -> 0..MaxSecret]
          /\ \A q \in Peers : fingerprint'[q] = first'[q]
          /\ \A q \in Peers : first[q] # 0 => first'[q] = first[q]
          /\ fingerprint[PeerOf(s)] = 0 => first'[PeerOf(s)] = fp
      BY <2>1, <2>6, <3>1, Learning DEF Authenticate, ConsentInv, Pinned
    <3>3. fp # 0 => first'[PeerOf(s)] = fp
      BY <2>1, <2>6, <3>2 DEF Mismatch, ConsentInv, Pinned
    <3>4. proven' = [proven EXCEPT ![PeerOf(s)] = @ \cup ({fp} \ {0})]
          /\ authed' = authed \cup {PeerOf(s)}
      BY <2>6 DEF Authenticate
    <3>5. proven' \in [Peers -> SUBSET Secrets]
      BY <2>1, <3>1, <3>4 DEF ConsentInv, ConsentTypes
    <3>6. Pinned'
      BY <2>1, <3>2, <3>3, <3>4 DEF ConsentInv, ConsentTypes, Pinned, TrustOnFirstUse
    <3> QED
      BY <2>1, <2>3, <2>4, <2>5, <3>2, <3>4, <3>5, <3>6, ConsentAssumption
         DEF ConsentInv, ConsentTypes
  <2>7. CASE FailHandshake(s) \/ Refuse(s)
    BY <2>1, <2>3, <2>4, <2>5, <2>7, ConsentAssumption
       DEF FailHandshake, Refuse, ConsentInv, ConsentTypes, Pinned, TrustOnFirstUse
  <2> QED
    BY <1>6, <2>6, <2>7 DEF Answer
<1>7. ASSUME NEW s \in Sockets, Close(s) PROVE ConsentInv'
  <2>1. sock[s] \in Slots \ {Free} /\ PeerOf(s) \in Peers
    BY <1>7, SlotFacts DEF Close, ConsentInv, ConsentTypes, PeerOf
  <2>2. sock' = [sock EXCEPT ![s] = Free]
        /\ UNCHANGED <<own, theirs, listed, fingerprint, first, proven>>
        /\ authed' \subseteq authed
    BY <1>7 DEF Close
  <2>3. /\ challenge' \in [Peers -> Sockets \cup {Nobody, Stale}]
        /\ \A p \in Peers : challenge'[p] \in Sockets => challenge'[p] = challenge[p] /\ challenge[p] # s
    BY <1>7, <2>1, ConsentAssumption DEF Close, ConsentInv, ConsentTypes, Challenged, PeerOf
  <2> QED
    BY <2>1, <2>2, <2>3 DEF ConsentInv, ConsentTypes, ConsentBeforeDial, Challenged, Pinned,
              TrustOnFirstUse, PeerOf, Slots
<1>8. ASSUME NEW v \in Secrets, Restart(v) PROVE ConsentInv'
  BY <1>8, ConsentAssumption DEF Restart, ConsentInv, ConsentTypes, ConsentBeforeDial, Challenged, Pinned,
              TrustOnFirstUse, PeerOf, Slots
<1>9. CASE UNCHANGED nvars
  BY <1>9 DEF nvars, ConsentInv, ConsentTypes, ConsentBeforeDial, Challenged, Pinned, TrustOnFirstUse, PeerOf
<1> QED
  BY <1>1, <1>2, <1>3, <1>4, <1>5, <1>6, <1>7, <1>8, <1>9 DEF ConsentNext

-----------------------------------------------------------------------------
(* Nothing is dialled without recorded consent, and whoever presents a       *)
(* fingerprint is authenticated only with the first one known of it          *)
(* (sync-consent.ts, transport.ts), whatever restarts, rotations of the      *)
(* secret, dials and answers without a fingerprint come between.             *)
THEOREM ConsentIsSound == ConsentSpec => []ConsentSound
<1>1. ConsentInv => ConsentSound
  BY DEF ConsentInv, ConsentSound, Pinned
<1> QED
  BY <1>1, ConsentBegins, ConsentHolds, PTL DEF ConsentSpec

-----------------------------------------------------------------------------
(* ScopeLogic: the inductive invariant.                                     *)

PromptRecord == [tab : Tabs, project : Projects, id : Nat, stage : Stages,
              draft : SUBSET ({"none", Safety} \cup Assertions)]
Entry == [key : Projects, id : Nat]

\* The tables have a row for each session that was created.
Tabled ==
  /\ created \in Nat
  /\ owner \in Seq(Projects) /\ Len(owner) = created
  /\ round \in Seq(Nat) /\ Len(round) = created
  /\ over \in Seq(BOOLEAN) /\ Len(over) = created
  /\ said \in Seq(Nat) /\ Len(said) = created
  /\ shown \in [Tabs -> Projects]

\* A map of sessions names each under the project it was created for.
Filed(map, of) ==
  /\ map \in Seq(Entry)
  /\ \A k \in 1..Len(map) : map[k].id \in 1..Len(of) /\ of[map[k].id] = map[k].key

\* A request in flight is of the session its project had when it was sent, and
\* carries no draft that breaks a locked assertion.
Asked ==
  \A r \in prompts : /\ r \in PromptRecord
                     /\ r.id \in 1..created /\ r.project = owner[r.id]
                     /\ Safety \notin r.draft

\* The round counts the messages, and the last one ends the interview.
Rounds ==
  \A i \in 1..created : /\ said[i] = round[i] /\ round[i] <= MaxRounds
                        /\ round[i] = MaxRounds => over[i]

Staged ==
  \A d \in drafts : /\ d.id \in 1..created /\ d.project = owner[d.id]
                    /\ Safety \notin d.flaws

InterviewInv == Tabled /\ Filed(interviews, owner) /\ Asked /\ Rounds /\ Staged

LEMMA InterviewBegins == InterviewInit => InterviewInv
<1> SUFFICES ASSUME InterviewInit PROVE InterviewInv
  OBVIOUS
<1>1. Tabled
  BY InterviewAssumption DEF InterviewInit, Tabled, FirstProject
<1> QED
  BY <1>1 DEF InterviewInit, InterviewInv, Filed, Asked, Rounds, Staged

-----------------------------------------------------------------------------
(* The tables once a session is found or created.                           *)

\* A table that has grown by one row.
LEMMA Grows ==
  ASSUME NEW S, NEW o \in Seq(S), NEW e \in S, NEW q, q = Append(o, e)
  PROVE  /\ q \in Seq(S) /\ Len(q) = Len(o) + 1 /\ q[Len(o) + 1] = e
         /\ \A i \in 1..Len(o) : q[i] = o[i]
OBVIOUS

\* A hit that moves to the end leaves the same entries.
LEMMA ToEndFacts ==
  ASSUME NEW S, NEW m \in Seq(S), NEW k \in 1..Len(m), NEW q, q = ToEnd(m, k)
  PROVE  /\ q \in Seq(S)
         /\ \A j \in 1..Len(q) : \E l \in 1..Len(m) : q[j] = m[l]
<1> DEFINE a == SubSeq(m, 1, k - 1)
           b == SubSeq(m, k + 1, Len(m))
<1>1. a \in Seq(S) /\ Len(a) = k - 1 /\ \A j \in 1..Len(a) : a[j] = m[j]
  OBVIOUS
<1>2. b \in Seq(S) /\ Len(b) = Len(m) - k /\ \A j \in 1..Len(b) : b[j] = m[k + j]
  OBVIOUS
<1>3. q = Append(RemoveAt(m, k), m[k]) /\ RemoveAt(m, k) = a \o b
  BY DEF RemoveAt, ToEnd
<1> HIDE DEF a, b
<1>4. PICK c : c = a \o b
  OBVIOUS
<1>5. /\ c \in Seq(S) /\ Len(c) = Len(a) + Len(b)
      /\ \A j \in 1..Len(a) : c[j] = a[j]
      /\ \A j \in 1..Len(b) : c[Len(a) + j] = b[j]
  <2>0. a \in Seq(S) /\ b \in Seq(S) /\ Len(a) \in Nat /\ Len(b) \in Nat
    BY <1>1, <1>2
  <2>1. c \in Seq(S) /\ Len(c) = Len(a) + Len(b)
    BY <1>4, <2>0
  <2>2. ASSUME NEW j \in 1..Len(a) PROVE c[j] = a[j]
    BY <1>4, <2>0
  <2>3. ASSUME NEW j \in 1..Len(b) PROVE c[Len(a) + j] = b[j]
    BY <1>4, <2>0
  <2> QED
    BY <2>1, <2>2, <2>3
<1>6. \A j \in 1..Len(c) : \E l \in 1..Len(m) : c[j] = m[l]
  <2> TAKE j \in 1..Len(c)
  <2>0. Len(m) \in Nat /\ k \in Nat /\ 1 <= k /\ k <= Len(m)
    OBVIOUS
  <2>1. CASE j <= Len(a)
    <3>1. j \in 1..Len(a) /\ j \in 1..Len(m)
      BY <1>1, <2>0, <2>1
    <3> QED
      BY <1>1, <1>5, <3>1
  <2>2. CASE j > Len(a)
    <3>1. PICK i \in 1..Len(b) : j = Len(a) + i
      <4>1. j - Len(a) \in 1..Len(b) /\ j = Len(a) + (j - Len(a))
        BY <1>1, <1>2, <1>5, <2>0, <2>2
      <4> QED
        BY <4>1
    <3>2. k + i \in 1..Len(m)
      BY <1>2, <2>0
    <3> QED
      BY <1>2, <1>5, <3>1, <3>2
  <2> QED
    BY <1>1, <1>5, <2>0, <2>1, <2>2
<1>7. q = Append(c, m[k]) /\ m[k] \in S
  BY <1>3, <1>4
<1>8. q \in Seq(S) /\ Len(q) = Len(c) + 1 /\ q[Len(q)] = m[k] /\ \A j \in 1..Len(c) : q[j] = c[j]
  <2>1. c \in Seq(S)
    BY <1>5
  <2> QED
    BY <1>7, <2>1, Grows
<1>9. \A j \in 1..Len(q) : j \in 1..Len(c) \/ j = Len(q)
  BY <1>5, <1>8
<1> QED
  BY <1>6, <1>8, <1>9

\* So does the eviction of the first.
LEMMA CappedFacts ==
  ASSUME NEW S, NEW m \in Seq(S), NEW q, q = Capped(m)
  PROVE  /\ q \in Seq(S)
         /\ \A j \in 1..Len(q) : \E l \in 1..Len(m) : q[j] = m[l]
<1>1. CASE Len(m) > KeptSessions
  <2>1. q = Tail(m) /\ m # <<>>
    BY <1>1, InterviewAssumption DEF Capped
  <2>2. q \in Seq(S) /\ Len(q) = Len(m) - 1 /\ \A j \in 1..Len(q) : q[j] = m[j + 1]
    BY <2>1
  <2>3. \A j \in 1..Len(q) : j + 1 \in 1..Len(m)
    BY <2>2
  <2> QED
    BY <2>2, <2>3
<1>2. CASE ~(Len(m) > KeptSessions)
  BY <1>2 DEF Capped
<1> QED
  BY <1>1, <1>2

\* Entries of a map that is filed are filed, under a table that has grown.
LEMMA FiledUnder ==
  ASSUME NEW m, NEW o \in Seq(Projects), Filed(m, o), NEW o2 \in Seq(Projects), NEW q \in Seq(Entry),
         Len(o) <= Len(o2), \A i \in 1..Len(o) : o2[i] = o[i],
         \A j \in 1..Len(q) : \/ \E l \in 1..Len(m) : q[j] = m[l]
                              \/ q[j].id \in 1..Len(o2) /\ o2[q[j].id] = q[j].key
  PROVE  Filed(q, o2)
<1> SUFFICES ASSUME NEW j \in 1..Len(q) PROVE q[j].id \in 1..Len(o2) /\ o2[q[j].id] = q[j].key
  BY DEF Filed
<1>1. ASSUME NEW l \in 1..Len(m), q[j] = m[l] PROVE q[j].id \in 1..Len(o2) /\ o2[q[j].id] = q[j].key
  <2>1. m[l].id \in 1..Len(o) /\ o[m[l].id] = m[l].key
    BY DEF Filed
  <2> QED
    BY <1>1, <2>1
<1> QED
  BY <1>1

LEMMA FiledStill ==
  ASSUME NEW m, NEW o \in Seq(Projects), Filed(m, o), NEW q \in Seq(Entry),
         \A j \in 1..Len(q) : \E l \in 1..Len(m) : q[j] = m[l]
  PROVE  Filed(q, o)
BY DEF Filed

LEMMA TouchedFacts ==
  ASSUME InterviewInv, NEW p \in Projects, NEW T, T = Touched(p)
  PROVE  /\ T.owner \in Seq(Projects) /\ T.id \in 1..Len(T.owner) /\ T.owner[T.id] = p
         /\ Filed(T.map, T.owner)
         /\ \/ /\ T.id <= created /\ T.owner = owner /\ T.round = round /\ T.over = over
            \/ /\ T.id = created + 1 /\ T.owner = Append(owner, p)
               /\ T.round = Append(round, 0) /\ T.over = Append(over, FALSE)
<1>1. Tabled /\ Filed(interviews, owner) /\ interviews \in Seq(Entry)
  BY DEF InterviewInv, Filed
<1>2. CASE PlacesOf(p) # {}
  <2>1. PICK k : k = CHOOSE j \in PlacesOf(p) : TRUE
    OBVIOUS
  <2>2. k \in 1..Len(interviews) /\ interviews[k].key = p
    BY <1>1, <1>2, <2>1 DEF PlacesOf
  <2>3. T = [id |-> interviews[k].id, map |-> ToEnd(interviews, k), owner |-> owner, round |-> round, over |-> over]
    BY <1>2, <2>1 DEF Touched
  <2>4. interviews[k].id \in 1..created /\ owner[interviews[k].id] = p
    BY <1>1, <2>2 DEF Filed, Tabled
  <2>5. PICK m, o, q : m = interviews /\ o = owner /\ q = ToEnd(m, k)
    OBVIOUS
  <2>6. m \in Seq(Entry) /\ o \in Seq(Projects) /\ k \in 1..Len(m) /\ Filed(m, o) /\ q = ToEnd(interviews, k)
    BY <1>1, <2>2, <2>5 DEF Tabled
  <2>7. q \in Seq(Entry) /\ \A j \in 1..Len(q) : \E l \in 1..Len(m) : q[j] = m[l]
    <3>1. m \in Seq(Entry) /\ k \in 1..Len(m)
      BY <2>6
    <3> QED
      BY ONLY <2>5, <3>1, ToEndFacts
  <2>8. Filed(q, o)
    BY <2>6, <2>7, FiledStill
  <2>9. T.owner = owner /\ T.id = interviews[k].id /\ T.map = q /\ T.round = round /\ T.over = over
    BY <2>3, <2>6
  <2>10. interviews[k].id <= created /\ created = Len(owner) /\ owner \in Seq(Projects)
    BY <1>1, <2>4 DEF Tabled
  <2> QED
    BY <2>4, <2>5, <2>8, <2>9, <2>10
<1>3. CASE PlacesOf(p) = {}
  <2>1. PICK e, n, m, o, o1 : /\ e = [key |-> p, id |-> created + 1]
                              /\ n = interviews /\ m = Append(n, e) /\ o1 = owner /\ o = Append(o1, p)
    OBVIOUS
  <2>2. T = [id |-> created + 1, map |-> Capped(m), owner |-> o,
             round |-> Append(round, 0), over |-> Append(over, FALSE)]
    BY <1>3, <2>1 DEF Touched
  <2>3. e \in Entry /\ e.key = p /\ e.id = created + 1 /\ created \in Nat /\ created = Len(o1)
    BY <1>1, <2>1 DEF Entry, Tabled
  <2>4. /\ o \in Seq(Projects) /\ Len(o) = created + 1 /\ o[created + 1] = p
        /\ \A i \in 1..Len(o1) : o[i] = o1[i]
    <3>1. o1 \in Seq(Projects)
      BY <1>1, <2>1 DEF Tabled
    <3> QED
      BY <2>1, <2>3, <3>1, Grows
  <2>5. /\ m \in Seq(Entry) /\ Len(m) = Len(n) + 1 /\ m[Len(n) + 1] = e
        /\ \A i \in 1..Len(n) : m[i] = n[i]
    <3>1. n \in Seq(Entry)
      BY <1>1, <2>1
    <3> QED
      BY <2>1, <2>3, <3>1, Grows
  <2>6. \A j \in 1..Len(m) : j \in 1..Len(n) \/ j = Len(n) + 1
    <3>1. Len(n) \in Nat
      BY <1>1, <2>1
    <3> QED
      BY <2>5, <3>1
  <2>7. Filed(m, o)
    <3>1. \A j \in 1..Len(m) : \/ \E l \in 1..Len(n) : m[j] = n[l]
                               \/ m[j].id \in 1..Len(o) /\ o[m[j].id] = m[j].key
      BY <2>3, <2>4, <2>5, <2>6
    <3>2. o1 \in Seq(Projects) /\ Filed(n, o1)
      BY <1>1, <2>1 DEF Tabled
    <3>3. Len(o1) <= Len(o)
      BY <2>3, <2>4
    <3> QED
      BY <2>4, <2>5, <3>1, <3>2, <3>3, FiledUnder
  <2>8. PICK q : q = Capped(m)
    OBVIOUS
  <2>9. q \in Seq(Entry) /\ \A j \in 1..Len(q) : \E l \in 1..Len(m) : q[j] = m[l]
    BY <2>5, <2>8, CappedFacts
  <2>10. Filed(q, o)
    BY <2>4, <2>7, <2>9, FiledStill
  <2>11. /\ T.id = created + 1 /\ T.owner = o /\ T.map = q
         /\ T.round = Append(round, 0) /\ T.over = Append(over, FALSE)
    <3>1. PICK c, r1, v1 : c = Capped(m) /\ r1 = Append(round, 0) /\ v1 = Append(over, FALSE)
      OBVIOUS
    <3>2. T = [id |-> created + 1, map |-> c, owner |-> o, round |-> r1, over |-> v1]
      BY <2>2, <3>1, Zenon
    <3>3. T.id = created + 1 /\ T.owner = o /\ T.map = c /\ T.round = r1 /\ T.over = v1
      BY ONLY <3>2
    <3> QED
      BY <2>8, <3>1, <3>3, Zenon
  <2>12. T.owner \in Seq(Projects) /\ T.id \in 1..Len(T.owner) /\ T.owner[T.id] = p
    <3>1. created + 1 \in 1..Len(o)
      BY <2>3, <2>4
    <3> QED
      BY <2>4, <2>11, <3>1
  <2>13. Filed(T.map, T.owner)
    BY <2>10, <2>11
  <2>14. T.owner = Append(owner, p)
    BY <2>1, <2>11
  <2> QED
    BY <2>11, <2>12, <2>13, <2>14
<1> QED
  BY <1>2, <1>3

\* The tables have grown by at most the row of a new session.
Grown(T, p) ==
  /\ T.owner \in Seq(Projects) /\ T.round \in Seq(Nat) /\ T.over \in Seq(BOOLEAN)
  /\ Len(T.round) = Len(T.owner) /\ Len(T.over) = Len(T.owner)
  /\ T.id \in 1..Len(T.owner) /\ T.owner[T.id] = p /\ Filed(T.map, T.owner)
  /\ Len(T.owner) = IF T.id > created THEN created + 1 ELSE created
  /\ \A i \in 1..created : /\ T.owner[i] = owner[i] /\ T.round[i] = round[i]
                           /\ T.over[i] = over[i]
  /\ T.id > created => T.id = created + 1 /\ T.round[T.id] = 0 /\ T.over[T.id] = FALSE

LEMMA TouchedTables ==
  ASSUME InterviewInv, NEW p \in Projects, NEW T, T = Touched(p)
  PROVE  Grown(T, p)
<1>0. /\ T.owner \in Seq(Projects) /\ T.id \in 1..Len(T.owner) /\ T.owner[T.id] = p
      /\ Filed(T.map, T.owner)
  BY TouchedFacts
<1>1. PICK c, o, r, v : c = created /\ o = owner /\ r = round /\ v = over
  OBVIOUS
<1>2. /\ c \in Nat /\ o \in Seq(Projects) /\ r \in Seq(Nat) /\ v \in Seq(BOOLEAN)
      /\ Len(o) = c /\ Len(r) = c /\ Len(v) = c
  BY <1>1 DEF InterviewInv, Tabled
<1>3. \/ T.id <= c /\ T.owner = o /\ T.round = r /\ T.over = v
      \/ T.id = c + 1 /\ T.owner = Append(o, p) /\ T.round = Append(r, 0) /\ T.over = Append(v, FALSE)
  BY <1>1, TouchedFacts
<1>4. CASE T.id <= c /\ T.owner = o /\ T.round = r /\ T.over = v
  <2>1. ~(T.id > c)
    BY <1>0, <1>2, <1>4
  <2> QED
    BY <1>0, <1>1, <1>2, <1>4, <2>1 DEF Grown
<1>5. CASE T.id = c + 1 /\ T.owner = Append(o, p) /\ T.round = Append(r, 0) /\ T.over = Append(v, FALSE)
  <2>0. T.over = Append(v, FALSE)
    BY <1>5, Zenon
  <2>1. PICK o1, r1, v1 : o1 = T.owner /\ r1 = T.round /\ v1 = T.over
    OBVIOUS
  <2>2. /\ o1 \in Seq(Projects) /\ Len(o1) = c + 1 /\ \A i \in 1..c : o1[i] = o[i]
    <3>1. o1 = Append(o, p)
      BY <1>5, <2>1
    <3> QED
      BY <1>2, <3>1, Grows
  <2>3. /\ r1 \in Seq(Nat) /\ Len(r1) = c + 1 /\ r1[c + 1] = 0 /\ \A i \in 1..c : r1[i] = r[i]
    <3>1. r1 = Append(r, 0) /\ 0 \in Nat
      BY <1>5, <2>1
    <3> QED
      BY <1>2, <3>1, Grows
  <2>4. /\ v1 \in Seq(BOOLEAN) /\ Len(v1) = c + 1 /\ v1[c + 1] = FALSE /\ \A i \in 1..c : v1[i] = v[i]
    <3>1. v1 = Append(v, FALSE) /\ FALSE \in BOOLEAN
      BY ONLY <2>0, <2>1, Zenon
    <3>2. PICK no : no = FALSE
      OBVIOUS
    <3>3. v1 = Append(v, no) /\ no \in BOOLEAN
      BY ONLY <3>1, <3>2, Zenon
    <3>4. /\ v1 \in Seq(BOOLEAN) /\ Len(v1) = Len(v) + 1 /\ v1[Len(v) + 1] = no
          /\ \A i \in 1..Len(v) : v1[i] = v[i]
      BY ONLY <1>2, <3>3, Grows
    <3> QED
      BY ONLY <1>2, <3>2, <3>4, Zenon
  <2>5. T.id = c + 1 /\ T.id > c
    BY <1>2, <1>5
  <2> QED
    BY <1>0, <1>1, <2>1, <2>2, <2>3, <2>4, <2>5 DEF Grown
<1> QED
  BY <1>3, <1>4, <1>5

\* A row that is set leaves the others.
LEMMA RowSet ==
  ASSUME NEW S, NEW s \in Seq(S), NEW i \in 1..Len(s), NEW e \in S, NEW q, q = [s EXCEPT ![i] = e]
  PROVE  /\ q \in Seq(S) /\ Len(q) = Len(s) /\ q[i] = e
         /\ \A j \in 1..Len(s) : j # i => q[j] = s[j]
OBVIOUS

-----------------------------------------------------------------------------
(* Every step of the interview preserves the invariant.                     *)

\* What is in flight and staged stays right while the owners stand.
LEMMA AskedStays ==
  ASSUME InterviewInv, created' \in Nat, created <= created',
         \A i \in 1..created : owner'[i] = owner[i],
         \A r \in prompts' : \/ r \in prompts
                             \/ /\ r \in PromptRecord /\ Safety \notin r.draft
                                /\ r.id \in 1..created' /\ r.project = owner'[r.id]
  PROVE  Asked'
<1> SUFFICES ASSUME NEW r \in prompts'
             PROVE  /\ r \in PromptRecord /\ r.id \in 1..created' /\ r.project = owner'[r.id]
                    /\ Safety \notin r.draft
  BY DEF Asked
<1>1. CASE r \in prompts
  BY <1>1 DEF InterviewInv, Asked, Tabled
<1> QED
  BY <1>1

LEMMA StagedStays ==
  ASSUME InterviewInv, created' \in Nat, created <= created',
         \A i \in 1..created : owner'[i] = owner[i], drafts' = drafts
  PROVE  Staged'
BY DEF InterviewInv, Staged, Tabled

LEMMA ShowProjectHolds ==
  ASSUME InterviewInv, NEW t \in Tabs, NEW p \in Projects, ShowProject(t, p)
  PROVE  InterviewInv'
<1>1. PICK T : T = Touched(p)
  OBVIOUS
<1>2. /\ T.owner \in Seq(Projects) /\ T.round \in Seq(Nat) /\ T.over \in Seq(BOOLEAN)
      /\ Len(T.round) = Len(T.owner) /\ Len(T.over) = Len(T.owner)
      /\ T.id \in 1..Len(T.owner) /\ Filed(T.map, T.owner)
      /\ Len(T.owner) = IF T.id > created THEN created + 1 ELSE created
      /\ \A i \in 1..created : T.owner[i] = owner[i] /\ T.round[i] = round[i] /\ T.over[i] = over[i]
      /\ T.id > created => T.id = created + 1 /\ T.round[T.id] = 0 /\ T.over[T.id] = FALSE
  <2>1. Grown(T, p)
    BY <1>1, TouchedTables
  <2> QED
    BY <2>1, Zenon DEF Grown
<1>3. /\ shown' = [shown EXCEPT ![t] = p] /\ interviews' = T.map /\ created' = Len(T.owner)
      /\ owner' = T.owner /\ round' = T.round /\ over' = T.over
      /\ said' = IF T.id > created THEN Append(said, 0) ELSE said
      /\ prompts' = prompts /\ drafts' = drafts
  BY <1>1, Zenon DEF ShowProject
<1>4. created \in Nat /\ said \in Seq(Nat) /\ Len(said) = created /\ shown \in [Tabs -> Projects]
  BY DEF InterviewInv, Tabled
<1>5. /\ said' \in Seq(Nat) /\ Len(said') = created' /\ \A i \in 1..created : said'[i] = said[i]
      /\ T.id > created => said'[T.id] = 0
  <2>1. CASE T.id > created
    <3>1. PICK s, z : s = said' /\ z = said
      OBVIOUS
    <3>2. s = Append(z, 0) /\ z \in Seq(Nat) /\ Len(z) = created
      BY <1>3, <1>4, <2>1, <3>1
    <3>3. s \in Seq(Nat) /\ Len(s) = created + 1 /\ s[created + 1] = 0 /\ \A i \in 1..created : s[i] = z[i]
      BY <3>2, Grows
    <3> QED
      BY <1>2, <1>3, <2>1, <3>1, <3>3
  <2>2. CASE ~(T.id > created)
    BY <1>2, <1>3, <1>4, <2>2
  <2> QED
    BY <2>1, <2>2
<1>6. Tabled'
  <2>1. shown' \in [Tabs -> Projects]
    BY <1>3, <1>4
  <2>2. created' \in Nat
    BY <1>2, <1>3, <1>4
  <2> QED
    BY <1>2, <1>3, <1>5, <2>1, <2>2 DEF Tabled
<1>7. Filed(interviews', owner')
  BY <1>2, <1>3
<1>8. Asked' /\ Staged'
  <2>1. created' \in Nat /\ created <= created' /\ \A i \in 1..created : owner'[i] = owner[i]
    BY <1>2, <1>3, <1>4
  <2> QED
    BY <1>3, <2>1, AskedStays, StagedStays
<1>9. Rounds'
  <2> SUFFICES ASSUME NEW i \in 1..created'
               PROVE  said'[i] = round'[i] /\ round'[i] <= MaxRounds /\ (round'[i] = MaxRounds => over'[i])
    BY DEF Rounds
  <2>1. CASE i \in 1..created
    <3>1. said[i] = round[i] /\ round[i] <= MaxRounds /\ (round[i] = MaxRounds => over[i])
      BY <2>1 DEF InterviewInv, Rounds
    <3> QED
      BY <1>2, <1>3, <1>5, <2>1, <3>1
  <2>2. CASE i \notin 1..created
    <3>1. T.id > created /\ i = T.id
      BY <1>2, <1>3, <1>4, <2>2
    <3>2. said'[i] = 0 /\ round'[i] = 0
      BY <1>2, <1>3, <1>5, <3>1
    <3> QED
      BY <3>2, InterviewAssumption
  <2> QED
    BY <2>1, <2>2
<1>10. Filed(interviews, owner)'
  BY <1>7 DEF Filed
<1> QED
  BY <1>6, <1>8, <1>9, <1>10 DEF InterviewInv

LEMMA SendHolds ==
  ASSUME InterviewInv, NEW t \in Tabs, Send(t) PROVE InterviewInv'
<1>1. PICK T, i, p : T = Touched(p) /\ i = T.id /\ p = shown[t]
  OBVIOUS
<1>2. /\ created \in Nat /\ said \in Seq(Nat) /\ Len(said) = created /\ shown \in [Tabs -> Projects]
      /\ p \in Projects
  BY <1>1 DEF InterviewInv, Tabled
<1>3. Grown(T, p)
  BY <1>1, <1>2, TouchedTables
<1>4. /\ T.owner \in Seq(Projects) /\ T.round \in Seq(Nat) /\ T.over \in Seq(BOOLEAN)
      /\ Len(T.round) = Len(T.owner) /\ Len(T.over) = Len(T.owner)
      /\ i \in 1..Len(T.owner) /\ T.owner[i] = p /\ Filed(T.map, T.owner)
      /\ Len(T.owner) = IF i > created THEN created + 1 ELSE created
      /\ \A j \in 1..created : T.owner[j] = owner[j] /\ T.round[j] = round[j] /\ T.over[j] = over[j]
      /\ i > created => i = created + 1 /\ T.round[i] = 0 /\ T.over[i] = FALSE
  BY <1>1, <1>3, Zenon DEF Grown
<1>5. /\ interviews' = T.map /\ created' = Len(T.owner) /\ owner' = T.owner
      /\ shown' = shown /\ drafts' = drafts
  BY <1>1, Zenon DEF Send
<1>6. created' \in Nat /\ created <= created' /\ \A j \in 1..created : owner'[j] = owner[j]
  BY <1>2, <1>4, <1>5
<1>7. \A j \in 1..created : said[j] = T.round[j] /\ T.round[j] <= MaxRounds
                            /\ (T.round[j] = MaxRounds => T.over[j])
  BY <1>4 DEF InterviewInv, Rounds
<1>8. \A j \in 1..created' : j \in 1..created \/ j = i
  BY <1>2, <1>4, <1>5
<1>9. Filed(interviews, owner)' /\ Staged'
  <2>1. Filed(interviews', owner')
    BY <1>4, <1>5
  <2> QED
    BY <1>5, <1>6, <2>1, StagedStays DEF Filed
<1>10. ASSUME NEW s \in Stages, prompts' = prompts \cup {Prompt(t, p, i, s)} PROVE Asked'
  <2>1. PICK r : r = Prompt(t, p, i, s)
    OBVIOUS
  <2>2. r \in PromptRecord /\ r.id = i /\ r.project = p /\ r.draft = {"none"}
    <3>1. i \in Nat
      BY <1>4
    <3> QED
      BY <1>2, <2>1, <3>1 DEF Prompt, PromptRecord
  <2>3. r \in PromptRecord /\ r.id \in 1..created' /\ r.project = owner'[r.id] /\ Safety \notin r.draft
    BY <1>4, <1>5, <2>2 DEF Safety
  <2>4. \A x \in prompts' : x \in prompts \/ x = r
    BY <1>10, <2>1
  <2> QED
    BY <1>6, <2>3, <2>4, AskedStays
<1>11. CASE T.over[i]
  <2>1. prompts' = prompts \cup {Prompt(t, p, i, "reply")} /\ said' = said
        /\ round' = T.round /\ over' = T.over
    BY <1>1, <1>11, Zenon DEF Send
  <2>2. ~(i > created)
    BY <1>4, <1>11
  <2>3. Asked'
    BY <1>10, <2>1 DEF Stages
  <2>4. Tabled'
    BY <1>2, <1>4, <1>5, <1>6, <2>1, <2>2 DEF Tabled
  <2>5. created' = created
    BY <1>4, <1>5, <2>2
  <2>6. Rounds'
    BY <1>7, <2>1, <2>5 DEF Rounds
  <2> QED
    BY <1>9, <2>3, <2>4, <2>6 DEF InterviewInv
<1>12. CASE ~T.over[i]
  <2>1. /\ round' = Counts(T.round, i)
        /\ said' = IF i > created THEN Append(said, 1) ELSE [said EXCEPT ![i] = @ + 1]
    BY <1>1, <1>12, Zenon DEF Send
  <2>2. PICK ends \in {T.round[i] + 1 >= MaxRounds, TRUE} :
           /\ over' = [T.over EXCEPT ![i] = ends]
           /\ prompts' = prompts \cup {Prompt(t, p, i, IF ends THEN "draft" ELSE "question")}
    BY <1>1, <1>12, Zenon DEF Send
  <2>3. Asked'
    <3>1. PICK s : s = IF ends THEN "draft" ELSE "question"
      OBVIOUS
    <3>2. s \in Stages /\ prompts' = prompts \cup {Prompt(t, p, i, s)}
      BY <2>2, <3>1 DEF Stages
    <3> QED
      BY <1>10, <3>2
  <2>4. /\ round' \in Seq(Nat) /\ Len(round') = Len(T.owner) /\ round'[i] = T.round[i] + 1
        /\ \A j \in 1..Len(T.owner) : j # i => round'[j] = T.round[j]
    <3>1. PICK q, s, e : q = round' /\ s = T.round /\ e = T.round[i] + 1
      OBVIOUS
    <3>2. q = [s EXCEPT ![i] = e] /\ s \in Seq(Nat) /\ i \in 1..Len(s) /\ e \in Nat
      BY <1>4, <2>1, <3>1 DEF Counts
    <3> QED
      BY <1>4, <3>1, <3>2, RowSet
  <2>5. ends \in BOOLEAN
    <3>1. (T.round[i] + 1 >= MaxRounds) \in BOOLEAN
      OBVIOUS
    <3> QED
      BY <2>2, <3>1, Zenon
  <2>6. /\ over' \in Seq(BOOLEAN) /\ Len(over') = Len(T.owner) /\ over'[i] = ends
        /\ \A j \in 1..Len(T.owner) : j # i => over'[j] = T.over[j]
    <3>1. PICK q, s, e : q = over' /\ s = T.over /\ e = ends
      OBVIOUS
    <3>2. q = [s EXCEPT ![i] = e] /\ s \in Seq(BOOLEAN) /\ i \in 1..Len(s) /\ e \in BOOLEAN
      BY <1>4, <2>2, <2>5, <3>1
    <3> QED
      BY <1>4, <3>1, <3>2, RowSet
  <2>7. T.round[i] \in Nat /\ T.round[i] < MaxRounds
    <3>1. CASE i \in 1..created
      BY <1>4, <1>7, <1>12, <3>1, InterviewAssumption
    <3>2. CASE i \notin 1..created
      BY <1>2, <1>4, <3>2, InterviewAssumption
    <3> QED
      BY <3>1, <3>2
  <2>8. /\ said' \in Seq(Nat) /\ Len(said') = Len(T.owner) /\ said'[i] = T.round[i] + 1
        /\ \A j \in 1..created : j # i => said'[j] = said[j]
    <3>1. PICK q, s : q = said' /\ s = said
      OBVIOUS
    <3>2. s \in Seq(Nat) /\ Len(s) = created
      BY <1>2, <3>1
    <3>3. CASE i > created
      <4>1. q = Append(s, 1) /\ i = created + 1 /\ T.round[i] = 0 /\ Len(T.owner) = created + 1
        BY <1>4, <2>1, <3>1, <3>3
      <4>2. q \in Seq(Nat) /\ Len(q) = Len(s) + 1 /\ q[Len(s) + 1] = 1 /\ \A j \in 1..Len(s) : q[j] = s[j]
        BY <3>2, <4>1, Grows
      <4> QED
        BY <3>1, <3>2, <4>1, <4>2
    <3>4. CASE ~(i > created)
      <4>1. i \in 1..created /\ Len(T.owner) = created
        BY <1>2, <1>4, <3>4
      <4>2. PICK e : e = s[i] + 1
        OBVIOUS
      <4>3. q = [s EXCEPT ![i] = e] /\ i \in 1..Len(s) /\ e \in Nat
        BY <2>1, <3>1, <3>2, <3>4, <4>1, <4>2
      <4>4. s[i] = T.round[i]
        BY <1>7, <3>1, <4>1
      <4> QED
        BY <3>1, <3>2, <4>1, <4>2, <4>3, <4>4, RowSet
    <3> QED
      BY <3>3, <3>4
  <2>9. Tabled'
    BY <1>2, <1>4, <1>5, <1>6, <2>4, <2>6, <2>8 DEF Tabled
  <2>10. Rounds'
    <3> SUFFICES ASSUME NEW j \in 1..created'
                 PROVE  said'[j] = round'[j] /\ round'[j] <= MaxRounds /\ (round'[j] = MaxRounds => over'[j])
      BY DEF Rounds
    <3>1. CASE j = i
      <4>1. ends \/ ~(T.round[i] + 1 >= MaxRounds)
        BY <2>2, Zenon
      <4>2. T.round[i] + 1 = MaxRounds => ends
        BY <2>7, <4>1, InterviewAssumption
      <4>3. said'[j] = T.round[i] + 1
        BY <2>8, <3>1
      <4>4. round'[j] = T.round[i] + 1
        BY <2>4, <3>1
      <4>5. ends => over'[j]
        BY <2>6, <3>1, Zenon
      <4> QED
        BY <2>7, <4>2, <4>3, <4>4, <4>5, InterviewAssumption
    <3>2. CASE j # i
      <4>1. j \in 1..created /\ j \in 1..Len(T.owner)
        BY <1>5, <1>8, <3>2
      <4>2. said'[j] = said[j] /\ round'[j] = T.round[j] /\ over'[j] = T.over[j]
        BY <2>4, <2>6, <2>8, <3>2, <4>1
      <4> QED
        BY <1>7, <4>1, <4>2
    <3> QED
      BY <3>1, <3>2
  <2> QED
    BY <1>9, <2>3, <2>9, <2>10 DEF InterviewInv
<1> QED
  BY <1>11, <1>12

\* An entry that a reset replaces, or a new one, names the new session.
LEMMA ReplacedFacts ==
  ASSUME NEW m \in Seq(Entry), m = interviews, NEW p \in Projects, NEW i \in Nat, NEW q, q = Replaced(p, i)
  PROVE  /\ q \in Seq(Entry)
         /\ \A j \in 1..Len(q) : (\E l \in 1..Len(m) : q[j] = m[l]) \/ q[j] = [key |-> p, id |-> i]
<1>1. PICK e : e = [key |-> p, id |-> i]
  OBVIOUS
<1>2. e \in Entry
  BY <1>1 DEF Entry
<1>3. CASE PlacesOf(p) = {}
  <2>1. q = Append(m, e)
    BY <1>1, <1>3 DEF Replaced
  <2>2. /\ q \in Seq(Entry) /\ Len(q) = Len(m) + 1 /\ q[Len(m) + 1] = e
        /\ \A j \in 1..Len(m) : q[j] = m[j]
    BY <1>2, <2>1, Grows
  <2>3. \A j \in 1..Len(q) : j \in 1..Len(m) \/ j = Len(m) + 1
    BY <2>2
  <2> QED
    BY <1>1, <2>2, <2>3
<1>4. CASE PlacesOf(p) # {}
  <2>1. q = [k \in 1..Len(m) |-> IF k \in PlacesOf(p) THEN [m[k] EXCEPT !.id = i] ELSE m[k]]
    <3>1. q = [k \in DOMAIN m |-> IF k \in PlacesOf(p) THEN [m[k] EXCEPT !.id = i] ELSE m[k]]
      BY <1>4, Zenon DEF Replaced
    <3>2. DOMAIN m = 1..Len(m)
      OBVIOUS
    <3> QED
      BY ONLY <3>1, <3>2, Zenon
  <2>2. ASSUME NEW k \in 1..Len(m), k \in PlacesOf(p) PROVE [m[k] EXCEPT !.id = i] = e
    <3>1. m[k] \in Entry /\ m[k].key = p
      BY <2>2 DEF PlacesOf
    <3> QED
      BY <1>1, <3>1 DEF Entry
  <2>3. \A k \in 1..Len(m) : m[k] \in Entry
    OBVIOUS
  <2>4. q = [k \in 1..Len(m) |-> IF k \in PlacesOf(p) THEN e ELSE m[k]]
    BY <2>1, <2>2
  <2>5. q \in [1..Len(m) -> Entry] /\ Len(m) \in Nat
    BY <1>2, <2>3, <2>4
  <2>6. q \in Seq(Entry) /\ Len(q) = Len(m)
    BY <2>5
  <2> QED
    BY <1>1, <2>4, <2>6
<1> QED
  BY <1>3, <1>4

LEMMA ResetHolds ==
  ASSUME InterviewInv, NEW t \in Tabs, Reset(t) PROVE InterviewInv'
<1>1. PICK p, c, o, m, n : /\ p = shown[t] /\ c = created /\ o = owner /\ m = interviews
                           /\ n = [key |-> p, id |-> c + 1]
  OBVIOUS
<1>2. /\ c \in Nat /\ o \in Seq(Projects) /\ Len(o) = c /\ p \in Projects
      /\ m \in Seq(Entry) /\ Filed(m, o) /\ shown \in [Tabs -> Projects]
  BY <1>1 DEF InterviewInv, Tabled, Filed
<1>3. /\ created' = c + 1 /\ owner' = Append(o, p) /\ interviews' = Replaced(p, c + 1)
      /\ shown' = shown /\ prompts' = prompts /\ drafts' = drafts
  <2>1. created' = c + 1 /\ interviews' = Replaced(shown[t], created')
    BY <1>1 DEF Reset
  <2>2. owner' = Append(o, p) /\ shown' = shown /\ prompts' = prompts /\ drafts' = drafts
    BY <1>1, Zenon DEF Reset
  <2> QED
    BY <1>1, <2>1, <2>2, Zenon
<1>4. round' = Append(round, 0) /\ said' = Append(said, 0) /\ over' = Append(over, FALSE)
  BY Zenon DEF Reset
<1>5. PICK o1, q : o1 = owner' /\ q = interviews'
  OBVIOUS
<1>6. o1 \in Seq(Projects) /\ Len(o1) = c + 1 /\ o1[c + 1] = p /\ \A i \in 1..c : o1[i] = o[i]
  <2>1. o1 = Append(o, p)
    BY <1>3, <1>5
  <2> QED
    BY <1>2, <2>1, Grows
<1>7. Filed(interviews, owner)'
  <2>1. c + 1 \in Nat /\ q = Replaced(p, c + 1)
    BY <1>2, <1>3, <1>5
  <2>2. PICK i : i = c + 1
    OBVIOUS
  <2>3. q = Replaced(p, i) /\ i \in Nat
    BY <2>1, <2>2
  <2>4. /\ q \in Seq(Entry)
        /\ \A j \in 1..Len(q) : (\E l \in 1..Len(m) : q[j] = m[l]) \/ q[j] = [key |-> p, id |-> i]
    BY <1>1, <1>2, <2>3, ReplacedFacts
  <2>5. \A j \in 1..Len(q) : \/ \E l \in 1..Len(m) : q[j] = m[l]
                             \/ q[j].id \in 1..Len(o1) /\ o1[q[j].id] = q[j].key
    BY <1>2, <1>6, <2>2, <2>4
  <2>6. Filed(q, o1)
    <3>1. Len(o) <= Len(o1) /\ \A i1 \in 1..Len(o) : o1[i1] = o[i1]
      BY <1>2, <1>6
    <3> QED
      BY <1>2, <1>6, <2>4, <2>5, <3>1, FiledUnder
  <2> QED
    BY <1>5, <2>6 DEF Filed
<1>8. /\ round' \in Seq(Nat) /\ Len(round') = c + 1 /\ round'[c + 1] = 0
      /\ \A i \in 1..c : round'[i] = round[i]
  <2>1. PICK s, z : s = round' /\ z = round
    OBVIOUS
  <2>2. s = Append(z, 0) /\ z \in Seq(Nat) /\ Len(z) = c /\ 0 \in Nat
    BY <1>1, <1>4, <2>1 DEF InterviewInv, Tabled
  <2> QED
    BY <2>1, <2>2, Grows
<1>9. /\ said' \in Seq(Nat) /\ Len(said') = c + 1 /\ said'[c + 1] = 0
      /\ \A i \in 1..c : said'[i] = said[i]
  <2>1. PICK s, z : s = said' /\ z = said
    OBVIOUS
  <2>2. s = Append(z, 0) /\ z \in Seq(Nat) /\ Len(z) = c /\ 0 \in Nat
    BY <1>1, <1>4, <2>1 DEF InterviewInv, Tabled
  <2> QED
    BY <2>1, <2>2, Grows
<1>10. /\ over' \in Seq(BOOLEAN) /\ Len(over') = c + 1 /\ \A i \in 1..c : over'[i] = over[i]
  <2>1. PICK s, z, e : s = over' /\ z = over /\ e = FALSE
    OBVIOUS
  <2>2. s = Append(z, e) /\ z \in Seq(BOOLEAN) /\ Len(z) = c /\ e \in BOOLEAN
    <3>1. z \in Seq(BOOLEAN) /\ Len(z) = c
      BY <1>1, <2>1 DEF InterviewInv, Tabled
    <3> QED
      BY <1>4, <2>1, <3>1, Zenon
  <2>3. s \in Seq(BOOLEAN) /\ Len(s) = Len(z) + 1 /\ \A i \in 1..Len(z) : s[i] = z[i]
    BY ONLY <2>2, Grows
  <2> QED
    BY <2>1, <2>2, <2>3
<1>11. Tabled'
  BY <1>2, <1>3, <1>5, <1>6, <1>8, <1>9, <1>10 DEF Tabled
<1>12. Asked' /\ Staged'
  <2>1. created' \in Nat /\ created <= created' /\ \A i \in 1..created : owner'[i] = owner[i]
    BY <1>1, <1>2, <1>3, <1>5, <1>6
  <2> QED
    BY <1>3, <2>1, AskedStays, StagedStays
<1>13. Rounds'
  <2> SUFFICES ASSUME NEW i \in 1..created'
               PROVE  said'[i] = round'[i] /\ round'[i] <= MaxRounds /\ (round'[i] = MaxRounds => over'[i])
    BY DEF Rounds
  <2>1. CASE i \in 1..c
    <3>1. said[i] = round[i] /\ round[i] <= MaxRounds /\ (round[i] = MaxRounds => over[i])
      BY <1>1, <2>1 DEF InterviewInv, Rounds
    <3> QED
      BY <1>8, <1>9, <1>10, <2>1, <3>1
  <2>2. CASE i \notin 1..c
    <3>1. i = c + 1
      BY <1>2, <1>3, <2>2
    <3> QED
      BY <1>8, <1>9, <3>1, InterviewAssumption
  <2> QED
    BY <2>1, <2>2
<1> QED
  BY <1>7, <1>11, <1>12, <1>13 DEF InterviewInv

\* The answers of the model: the tables stand, and a request moves on.
LEMMA AnswerHolds ==
  ASSUME InterviewInv, NEW r \in prompts, Question(r) \/ Draft(r) \/ Reply(r) \/ Abandon(r)
  PROVE  InterviewInv'
<1>1. /\ interviews' = interviews /\ created' = created /\ owner' = owner /\ round' = round
      /\ shown' = shown /\ said' = said
  BY DEF Question, Draft, Reply, Abandon
<1>2. /\ created \in Nat /\ r \in PromptRecord /\ r.id \in 1..created /\ r.project = owner[r.id]
      /\ Safety \notin r.draft
  BY DEF InterviewInv, Tabled, Asked
<1>3. Filed(interviews, owner)'
  BY <1>1 DEF InterviewInv, Filed
<1>4. /\ over' \in Seq(BOOLEAN) /\ Len(over') = created
      /\ \A i \in 1..created : over[i] => over'[i]
  <2>0. over \in Seq(BOOLEAN) /\ Len(over) = created
    BY DEF InterviewInv, Tabled
  <2>1. CASE over' = over
    BY <2>0, <2>1
  <2>2. CASE over' = [over EXCEPT ![r.id] = TRUE]
    <3>1. PICK s, z, i, e : s = over' /\ z = over /\ i = r.id /\ e = TRUE
      OBVIOUS
    <3>2. s = [z EXCEPT ![i] = e] /\ z \in Seq(BOOLEAN) /\ i \in 1..Len(z) /\ e \in BOOLEAN
      BY <1>2, <2>0, <2>2, <3>1
    <3>3. s \in Seq(BOOLEAN) /\ Len(s) = Len(z) /\ s[i] = e /\ \A j \in 1..Len(z) : j # i => s[j] = z[j]
      BY ONLY <3>2, RowSet
    <3> QED
      BY <2>0, <3>1, <3>3
  <2> QED
    BY <2>1, <2>2 DEF Question, Draft, Reply, Abandon
<1>5. Tabled' /\ Rounds'
  BY <1>1, <1>4 DEF InterviewInv, Tabled, Rounds
<1>6. \A x \in prompts' : x \in prompts \/ (x \in PromptRecord /\ x.id = r.id /\ x.project = r.project
                                             /\ Safety \notin x.draft)
  <2>1. ASSUME NEW s \in Stages, Moved(r, s)
        PROVE  \A x \in prompts' : x \in prompts \/ (x \in PromptRecord /\ x.id = r.id /\ x.project = r.project
                                                   /\ Safety \notin x.draft)
    <3>1. PICK y : y = [r EXCEPT !.stage = s]
      OBVIOUS
    <3>2. y \in PromptRecord /\ y.id = r.id /\ y.project = r.project /\ y.draft = r.draft
      BY <1>2, <3>1 DEF PromptRecord
    <3>3. \A x \in prompts' : x \in prompts \/ x = y
      BY <2>1, <3>1, Zenon DEF Moved
    <3> QED
      BY <1>2, <3>2, <3>3
  <2>2. CASE Question(r)
    <3>1. Moved(r, "reply") \/ Moved(r, "draft")
      BY <2>2 DEF Question
    <3> QED
      BY <2>1, <3>1 DEF Stages
  <2>3. CASE Draft(r)
    <3>1. PICK flaws \in SUBSET ({Safety} \cup Assertions) :
             prompts' = (prompts \ {r}) \cup
               {[r EXCEPT !.stage = "reply", !.draft = IF Passes(flaws) THEN flaws ELSE {"none"}]}
      BY <2>3 DEF Draft
    <3>2. PICK d : d = IF Passes(flaws) THEN flaws ELSE {"none"}
      OBVIOUS
    <3>3. d \in SUBSET ({"none", Safety} \cup Assertions) /\ Safety \notin d
      BY <3>2 DEF Passes, Safety
    <3>4. PICK y : y = [r EXCEPT !.stage = "reply", !.draft = d]
      OBVIOUS
    <3>5. y \in PromptRecord /\ y.id = r.id /\ y.project = r.project /\ y.draft = d
      BY <1>2, <3>3, <3>4 DEF PromptRecord, Stages
    <3> QED
      BY <3>1, <3>2, <3>3, <3>4, <3>5
  <2>4. CASE Reply(r) \/ Abandon(r)
    BY <2>4 DEF Reply, Abandon
  <2> QED
    BY <2>2, <2>3, <2>4
<1>7. Asked'
  <2>1. \A x \in prompts' : \/ x \in prompts
                            \/ /\ x \in PromptRecord /\ Safety \notin x.draft
                               /\ x.id \in 1..created' /\ x.project = owner'[x.id]
    BY <1>1, <1>2, <1>6
  <2>2. created' \in Nat /\ created <= created' /\ \A i \in 1..created : owner'[i] = owner[i]
    BY <1>1, <1>2
  <2> QED
    BY <2>1, <2>2, AskedStays
<1>8. Staged'
  <2>1. \A d \in drafts' : d \in drafts \/ (d.id = r.id /\ d.project = r.project /\ d.flaws = r.draft)
    <3>1. CASE drafts' = drafts
      BY <3>1
    <3>2. CASE drafts' = drafts \cup {[project |-> Scope(r), id |-> r.id, flaws |-> r.draft]}
      <4>1. PICK y : y = [project |-> Scope(r), id |-> r.id, flaws |-> r.draft]
        OBVIOUS
      <4>2. y.id = r.id /\ y.project = r.project /\ y.flaws = r.draft
        BY <4>1 DEF Scope
      <4> QED
        BY <3>2, <4>1, <4>2
    <3> QED
      BY <3>1, <3>2 DEF Question, Draft, Reply, Abandon
  <2> QED
    BY <1>1, <1>2, <2>1 DEF InterviewInv, Staged
<1> QED
  BY <1>3, <1>5, <1>7, <1>8 DEF InterviewInv

LEMMA InterviewHolds == InterviewInv /\ [InterviewNext]_ivars => InterviewInv'
<1> SUFFICES ASSUME InterviewInv, [InterviewNext]_ivars PROVE InterviewInv'
  OBVIOUS
<1>1. ASSUME NEW a \in Assertions, Toggle(a) PROVE InterviewInv'
  BY <1>1 DEF Toggle, InterviewInv, Tabled, Filed, Asked, Rounds, Staged
<1>2. CASE UNCHANGED ivars
  BY <1>2 DEF ivars, InterviewInv, Tabled, Filed, Asked, Rounds, Staged
<1> QED
  BY <1>1, <1>2, ShowProjectHolds, ResetHolds, SendHolds, AnswerHolds DEF InterviewNext

-----------------------------------------------------------------------------
(* An interview has at most MAX_ROUNDS rounds, a draft is staged for the     *)
(* project whose interview it comes from, and none breaks a locked assertion *)
(* (core/scopelogic, ui/views/ScopeLogicDashboard), whatever the tabs show   *)
(* and the operator switches while the model answers.                       *)
THEOREM InterviewIsSound == InterviewSpec => []InterviewSound
<1>1. InterviewInv => InterviewSound
  BY DEF InterviewInv, InterviewSound, Rounds, Staged, RoundsBounded, DraftBelongs, DraftSafe
<1> QED
  BY <1>1, InterviewBegins, InterviewHolds, PTL DEF InterviewSpec

-----------------------------------------------------------------------------
(* The terminal sessions: the inductive invariant.                          *)

TerminalTypes ==
  /\ session \in [Sessions -> {"none", "live", "disposing", "disposed"}]
  /\ child \in [Sessions -> {"none", "running", "exited"}]
  /\ docs \in [Workspaces -> Nat] /\ scanned \in [Workspaces -> Nat]
  /\ work \in [Sessions -> Nat]
  /\ lastScan \in [Workspaces -> {NoScan} \cup (Nat \X BOOLEAN)]

\* Only the last step of the shutdown closes the database.
OpenUntilExit == stage # "exited" => dbOpen

\* No shell has seen more than the documents are, and no scan; the signal a
\* scan left is of what it saw.
ScansLag ==
  /\ \A s \in Sessions : work[s] <= docs[ProjectOf[s]]
  /\ \A p \in Workspaces : /\ scanned[p] <= docs[p]
                           /\ lastScan[p] # NoScan => lastScan[p][1] = scanned[p]

\* A session that has waited for its shell has outlived none.
GoneIsGone ==
  \A s \in Sessions \ outlived : session[s] = "disposed" => child[s] # "running"

TerminalInv ==
  TerminalTypes /\ OpenUntilExit /\ ScansLag /\ GoneIsGone /\ ShellsReapable /\ WorkIsScanned

LEMMA TerminalsBegin == Init => TerminalInv
BY TerminalAssumption DEF Init, TerminalInit, TerminalInv, TerminalTypes, OpenUntilExit, ScansLag,
      GoneIsGone, ShellsReapable, WorkIsScanned

\* What leaves the documents and the scans alone, and ends no shell's session.
LEMMA Undisturbed ==
  ASSUME TerminalInv, UNCHANGED <<docs, lastScan, work, scanned, outlived>>,
         session' \in [Sessions -> {"none", "live", "disposing", "disposed"}],
         child' \in [Sessions -> {"none", "running", "exited"}],
         stage' # "exited" => dbOpen',
         \A s \in Sessions : /\ session'[s] = "disposed" => session[s] = "disposed" /\ child'[s] \in {child[s], "exited"}
                             /\ child'[s] = "running" => s \in registry' \cup outlived
  PROVE  TerminalInv'
<1>1. TerminalTypes' /\ OpenUntilExit' /\ ScansLag'
  BY DEF TerminalInv, TerminalTypes, OpenUntilExit, ScansLag
<1>2. GoneIsGone' /\ ShellsReapable' /\ WorkIsScanned'
  BY DEF TerminalInv, GoneIsGone, ShellsReapable, WorkIsScanned
<1> QED
  BY <1>1, <1>2 DEF TerminalInv

LEMMA DisposedFacts ==
  ASSUME TerminalTypes, NEW S
  PROVE  /\ Disposed(S) \in [Sessions -> {"none", "live", "disposing", "disposed"}]
         /\ \A s \in Sessions : Disposed(S)[s] = "disposed" => session[s] = "disposed"
BY DEF TerminalTypes, Disposed

\* The scan after the child has gone sees all that its project holds.
LEMMA ScanSees ==
  ASSUME TerminalInv, NEW p \in Workspaces, stage # "exited", AutoScan(p)
  PROVE  /\ lastScan' \in [Workspaces -> {NoScan} \cup (Nat \X BOOLEAN)]
         /\ scanned' \in [Workspaces -> Nat]
         /\ \A q \in Workspaces : /\ scanned[q] <= scanned'[q] /\ scanned'[q] <= docs[q]
                                  /\ lastScan'[q] # NoScan => lastScan'[q][1] = scanned'[q]
         /\ p \in Scannable => scanned'[p] = docs[p]
<1>1. CASE ScanWorks(p) /\ ~Skips(p)
  <2>1. lastScan' = [lastScan EXCEPT ![p] = <<docs[p], TRUE>>] /\ scanned' = [scanned EXCEPT ![p] = docs[p]]
    BY <1>1 DEF AutoScan
  <2>2. /\ docs \in [Workspaces -> Nat] /\ scanned \in [Workspaces -> Nat]
        /\ lastScan \in [Workspaces -> {NoScan} \cup (Nat \X BOOLEAN)]
        /\ \A q \in Workspaces : /\ scanned[q] <= docs[q]
                                 /\ lastScan[q] # NoScan => lastScan[q][1] = scanned[q]
    BY DEF TerminalInv, TerminalTypes, ScansLag
  <2>3. PICK e : e = <<docs[p], TRUE>>
    OBVIOUS
  <2>4. e \in Nat \X BOOLEAN /\ e[1] = docs[p]
    BY <2>2, <2>3
  <2>5. lastScan' = [lastScan EXCEPT ![p] = e] /\ scanned' = [scanned EXCEPT ![p] = docs[p]]
    BY <2>1, <2>3
  <2>6. lastScan' \in [Workspaces -> {NoScan} \cup (Nat \X BOOLEAN)] /\ scanned' \in [Workspaces -> Nat]
    BY ONLY <2>2, <2>4, <2>5
  <2>7. \A q \in Workspaces : /\ scanned[q] <= scanned'[q] /\ scanned'[q] <= docs[q]
                              /\ lastScan'[q] # NoScan => lastScan'[q][1] = scanned'[q]
    BY ONLY <2>2, <2>4, <2>5
  <2> QED
    BY <2>2, <2>5, <2>6, <2>7
<1>2. CASE ~(ScanWorks(p) /\ ~Skips(p))
  <2>1. lastScan' = lastScan /\ scanned' = scanned
    BY <1>2 DEF AutoScan
  <2>2. p \in Scannable => scanned[p] = docs[p]
    BY <1>2 DEF TerminalInv, OpenUntilExit, ScansLag, ScanWorks, Skips, SameSignal
  <2> QED
    BY <2>1, <2>2 DEF TerminalInv, TerminalTypes, ScansLag
<1> QED
  BY <1>1, <1>2

\* The rest of dispose, once the child has gone or is given up.
LEMMA AfterChildHolds ==
  ASSUME TerminalInv, NEW s \in Sessions, stage # "exited", AfterChild(s), s \in outlived' \/ child[s] # "running",
         UNCHANGED <<child, docs, dbOpen, work, dvars>>, outlived' \in {outlived, outlived \cup {s}}
  PROVE  TerminalInv'
<1>1. ProjectOf[s] \in Workspaces
  BY TerminalAssumption
<1>2. /\ lastScan' \in [Workspaces -> {NoScan} \cup (Nat \X BOOLEAN)] /\ scanned' \in [Workspaces -> Nat]
      /\ \A q \in Workspaces : /\ scanned[q] <= scanned'[q] /\ scanned'[q] <= docs[q]
                               /\ lastScan'[q] # NoScan => lastScan'[q][1] = scanned'[q]
      /\ ProjectOf[s] \in Scannable => scanned'[ProjectOf[s]] = docs[ProjectOf[s]]
  BY <1>1, ScanSees DEF AfterChild
<1>3. session' = [session EXCEPT ![s] = "disposed"] /\ registry' = registry \ {s}
  BY DEF AfterChild
<1>4. TerminalTypes' /\ OpenUntilExit' /\ ScansLag'
  BY <1>2, <1>3 DEF TerminalInv, TerminalTypes, OpenUntilExit, ScansLag, dvars
<1>5. GoneIsGone' /\ ShellsReapable'
  BY <1>3 DEF TerminalInv, TerminalTypes, GoneIsGone, ShellsReapable
<1>6. WorkIsScanned'
  <2> SUFFICES ASSUME NEW r \in Sessions, r \notin outlived', session'[r] = "disposed", ProjectOf[r] \in Scannable
               PROVE  work[r] <= scanned'[ProjectOf[r]]
    BY DEF WorkIsScanned
  <2>1. /\ ProjectOf[r] \in Workspaces /\ work[r] \in Nat /\ work[r] <= docs[ProjectOf[r]]
        /\ scanned[ProjectOf[r]] \in Nat /\ scanned'[ProjectOf[r]] \in Nat
    BY <1>2, TerminalAssumption DEF TerminalInv, TerminalTypes, ScansLag
  <2>2. CASE r = s
    BY <1>2, <2>1, <2>2
  <2>3. CASE r # s
    <3>1. work[r] <= scanned[ProjectOf[r]]
      BY <1>3, <2>3 DEF TerminalInv, TerminalTypes, WorkIsScanned
    <3> QED
      BY <1>2, <2>1, <3>1
  <2> QED
    BY <2>2, <2>3
<1> QED
  BY <1>4, <1>5, <1>6 DEF TerminalInv

LEMMA EditHolds ==
  ASSUME TerminalInv, NEW s \in Sessions, Edit(s), UNCHANGED dvars PROVE TerminalInv'
<1>1. PICK p : p = ProjectOf[s]
  OBVIOUS
<1>2. p \in Workspaces /\ docs[p] \in Nat
  BY <1>1, TerminalAssumption DEF TerminalInv, TerminalTypes
<1>3. /\ docs' = [docs EXCEPT ![p] = docs[p] + 1] /\ work' = [work EXCEPT ![s] = docs[p] + 1]
      /\ UNCHANGED <<session, child, registry, lastScan, dbOpen, scanned, outlived, stage>>
  BY <1>1, <1>2 DEF Edit, TerminalInv, TerminalTypes, dvars
<1>4. TerminalTypes' /\ OpenUntilExit'
  BY <1>2, <1>3 DEF TerminalInv, TerminalTypes, OpenUntilExit
<1>5. ScansLag'
  BY <1>1, <1>2, <1>3, TerminalAssumption DEF TerminalInv, TerminalTypes, ScansLag
<1>6. GoneIsGone' /\ ShellsReapable'
  BY <1>3 DEF TerminalInv, GoneIsGone, ShellsReapable
<1>7. WorkIsScanned'
  <2>1. child[s] = "running"
    BY DEF Edit
  <2> QED
    BY <1>3, <2>1 DEF TerminalInv, TerminalTypes, WorkIsScanned, GoneIsGone
<1> QED
  BY <1>4, <1>5, <1>6, <1>7 DEF TerminalInv

LEMMA CooldownHolds ==
  ASSUME TerminalInv, NEW p \in Workspaces, CooldownOver(p), UNCHANGED dvars PROVE TerminalInv'
<1>1. lastScan' = [lastScan EXCEPT ![p] = <<lastScan[p][1], FALSE>>] /\ lastScan[p] # NoScan
  BY DEF CooldownOver
<1>2. lastScan' \in [Workspaces -> {NoScan} \cup (Nat \X BOOLEAN)]
  BY <1>1 DEF TerminalInv, TerminalTypes
<1>3. \A q \in Workspaces : lastScan'[q] # NoScan => lastScan'[q][1] = scanned[q]
  BY <1>1 DEF TerminalInv, TerminalTypes, ScansLag
<1> QED
  BY <1>2, <1>3 DEF CooldownOver, dvars, TerminalInv, TerminalTypes, OpenUntilExit, ScansLag,
        GoneIsGone, ShellsReapable, WorkIsScanned

LEMMA TerminalsHold == TerminalInv /\ [Next]_vars => TerminalInv'
<1> SUFFICES ASSUME TerminalInv, [Next]_vars PROVE TerminalInv'
  OBVIOUS
<1> USE DEF dvars, tvars
<1>1. CASE Signal \/ SyncPeerJoins \/ SyncPeerLeaves
  BY <1>1, Undisturbed DEF Signal, SyncPeerJoins, SyncPeerLeaves, TerminalInv, TerminalTypes, ShellsReapable, OpenUntilExit
<1>2. CASE Release
  <2>1. session' = Disposed(registry) /\ registry' = registry
    BY <1>2 DEF Release, Dispose
  <2> QED
    BY <1>2, <2>1, DisposedFacts, Undisturbed DEF Release, TerminalInv, TerminalTypes, ShellsReapable, OpenUntilExit
<1>3. CASE Finish \/ ForceExit
  BY <1>3, Undisturbed DEF Finish, ForceExit, Exit, ShellsDie, TerminalInv, TerminalTypes
<1>4. CASE Upgrade
  <2>1. PICK s \in Sessions : Attach(s) \/ OpenFails(s)
    BY <1>4 DEF Upgrade
  <2>2. CASE Attach(s)
    BY <1>4, <2>2, Undisturbed DEF Upgrade, Attach, Spawn, TerminalInv, TerminalTypes, ShellsReapable, OpenUntilExit
  <2>3. CASE OpenFails(s)
    BY <1>4, <2>3, Undisturbed DEF Upgrade, OpenFails, TerminalInv, TerminalTypes, ShellsReapable, OpenUntilExit
  <2> QED
    BY <2>1, <2>2, <2>3
<1>5. CASE Sweep
  BY <1>5, Undisturbed DEF Sweep, HeartbeatSweep, TerminalInv, TerminalTypes, ShellsReapable, OpenUntilExit
<1>6. CASE Running
  <2>0. stage # "exited" /\ UNCHANGED dvars
    BY <1>6 DEF Running
  <2>1. ASSUME NEW s \in Sessions, SessionStep(s) PROVE TerminalInv'
    <3>1. CASE Edit(s)
      BY <2>0, <3>1, EditHolds
    <3>2. CASE ChildExits(s) \/ ClientLeaves(s) \/ Pong(s)
      BY <2>0, <3>2, Undisturbed DEF ChildExits, ClientLeaves, Pong, TerminalInv, TerminalTypes, ShellsReapable, OpenUntilExit
    <3>3. CASE CloseEvent(s) \/ IdleTimeout(s)
      <4>1. session' = Disposed({s}) /\ registry' = registry
        BY <3>3 DEF CloseEvent, IdleTimeout, Dispose
      <4> QED
        BY <2>0, <3>3, <4>1, DisposedFacts, Undisturbed DEF CloseEvent, IdleTimeout, TerminalInv, TerminalTypes,
              ShellsReapable, OpenUntilExit
    <3>4. CASE Reaped(s)
      BY <2>0, <3>4, AfterChildHolds DEF Reaped
    <3>5. CASE GivesUp(s)
      BY <2>0, <3>5, AfterChildHolds DEF GivesUp
    <3> QED
      BY <2>1, <3>1, <3>2, <3>3, <3>4, <3>5 DEF SessionStep
  <2>2. ASSUME NEW p \in Workspaces, CooldownOver(p) PROVE TerminalInv'
    BY <2>0, <2>2, CooldownHolds
  <2> QED
    BY <1>6, <2>1, <2>2 DEF Running
<1>7. CASE UNCHANGED vars
  BY <1>7 DEF vars, TerminalInv, TerminalTypes, OpenUntilExit, ScansLag, GoneIsGone, ShellsReapable, WorkIsScanned
<1> QED
  BY <1>1, <1>2, <1>3, <1>4, <1>5, <1>6, <1>7 DEF Next

(* No running shell is out of reach of disposeAllTerminalSessions, and no    *)
(* work of a session goes unseen by the scan of its project (terminal-      *)
(* session.ts, shutdown.ts), whoever tears it down and whenever.            *)
THEOREM TerminalsAreSound == Spec => []TerminalsSound
<1>1. TerminalInv => TerminalsSound
  BY DEF TerminalInv, TerminalsSound
<1> QED
  BY <1>1, TerminalsBegin, TerminalsHold, PTL DEF Spec

-----------------------------------------------------------------------------
(* The schema: the inductive invariant.                                     *)

Columns == {Alters[i] : i \in 1..Len(Alters)}

\* Past the first script.
Migrating == {"alters", "blob", "late", "stamp"}

SchemaTypes ==
  /\ phase \in {"off", "script", "up", "dead"} \cup Migrating
  /\ line \in Nat \ {0} /\ proposals \in Nat /\ held \in Nat
  /\ phase = "script" => line <= Len(Creates) + 1
  /\ phase = "alters" => line <= Len(Alters)
  /\ missing \subseteq Columns /\ version \in {0, SCHEMA_VERSION}

\* The first script has made the tables of the lines behind it.
TablesMade ==
  /\ tables \subseteq Latest
  /\ phase = "script" => \A i \in 1..Len(Creates) : i < line => Creates[i] \in tables
  /\ phase \in Migrating \cup {"up"} => tables = Latest

\* The migration runs only for a file that was not stamped, and what it has
\* not logged as an error it has done.
ColumnsAdded ==
  /\ phase \in Migrating => indexed
  /\ phase \in Migrating \cup {"script"} => (needs <=> version < SCHEMA_VERSION)
  /\ phase = "alters" => needs
  /\ phase = "alters" /\ ~swallowed => \A i \in 1..Len(Alters) : i < line => Alters[i] \notin missing
  /\ phase \in {"blob", "late", "stamp"} /\ needs /\ ~swallowed => missing = {}
  /\ phase = "stamp" /\ ~swallowed => triggers

SchemaInv == SchemaTypes /\ TablesMade /\ ColumnsAdded /\ SchemaSound

\* The two lists, whose entries no proof below looks at.
LEMMA Lists ==
  /\ Len(Creates) \in Nat \ {0} /\ Len(Alters) \in Nat \ {0}
  /\ \A i \in 1..Len(Creates) : Creates[i] \in Latest
  /\ \A l \in Legacies : l \subseteq Columns
<1>1. Len(Creates) \in Nat \ {0} /\ Len(Alters) \in Nat \ {0}
  BY DEF Creates, Alters
<1>2. \A i \in 1..Len(Creates) : Creates[i] \in Latest
  BY DEF Latest
<1>3. \A l \in Legacies : l \subseteq Columns
  BY SchemaAssumption, Zenon DEF Columns
<1> QED
  BY <1>1, <1>2, <1>3

LEMMA SchemaBegins == SchemaInit => SchemaInv
<1> SUFFICES ASSUME SchemaInit PROVE SchemaInv
  OBVIOUS
<1>1. SchemaTypes
  BY DEF SchemaInit, SchemaTypes, SCHEMA_VERSION, Migrating
<1>2. TablesMade
  BY DEF SchemaInit, TablesMade, Migrating
<1>3. ColumnsAdded
  BY DEF SchemaInit, ColumnsAdded, Migrating
<1>4. SchemaSound
  BY DEF SchemaInit, SchemaSound, StampedIsCurrent, ProposalKept, SCHEMA_VERSION
<1> QED
  BY <1>1, <1>2, <1>3, <1>4 DEF SchemaInv

\* An old file in a process that is off.
LEMMA OldFileHolds ==
  ASSUME SchemaInv, OldFile, phase' = "off", line' = line, needs' = needs PROVE SchemaInv'
<1>1. SchemaTypes'
  BY Lists DEF OldFile, SchemaInv, SchemaTypes, SCHEMA_VERSION, Migrating
<1>2. TablesMade'
  BY DEF OldFile, TablesMade, Migrating
<1>3. ColumnsAdded'
  BY DEF ColumnsAdded, Migrating
<1>4. SchemaSound'
  BY DEF OldFile, SchemaSound, StampedIsCurrent, ProposalKept, SCHEMA_VERSION
<1> QED
  BY <1>1, <1>2, <1>3, <1>4 DEF SchemaInv

LEMMA SchemaHolds == SchemaInv /\ [SchemaNext]_hvars => SchemaInv'
<1> SUFFICES ASSUME SchemaInv, [SchemaNext]_hvars PROVE SchemaInv'
  OBVIOUS
<1> USE Lists DEF SchemaInv, SchemaTypes, SCHEMA_VERSION, Migrating
<1>1. CASE NewRelease
  BY <1>1, OldFileHolds DEF NewRelease
<1>2. CASE (\E e \in {"profile", "server"} : Start(e)) \/ Migrate
  <2>0. /\ UNCHANGED file
        /\ \/ phase' = "dead" /\ line' = line /\ needs' = needs
           \/ phase' = "script" /\ line' = 1 /\ needs' = (version < SCHEMA_VERSION)
    BY <1>2 DEF Start, Migrate, EnterInit
  <2>1. SchemaTypes'
    BY <2>0 DEF file
  <2>2. TablesMade'
    BY <2>0 DEF file, TablesMade
  <2>3. ColumnsAdded'
    BY <2>0 DEF file, ColumnsAdded
  <2>4. SchemaSound'
    BY <2>0 DEF file, SchemaSound, StampedIsCurrent, ProposalKept
  <2> QED
    BY <2>1, <2>2, <2>3, <2>4
<1>3. CASE CreateTable
  BY <1>3 DEF CreateTable, TablesMade, ColumnsAdded, SchemaSound, StampedIsCurrent, ProposalKept
<1>4. CASE CreateIndex
  <2>0. phase = "script" /\ line = Len(Creates) + 1
    BY <1>4 DEF CreateIndex
  <2>a. \A i \in 1..Len(Creates) : Creates[i] \in tables
    BY <2>0 DEF TablesMade
  <2>1. tables = Latest
    BY <2>a DEF TablesMade, Latest
  <2>2. SchemaTypes'
    BY <1>4 DEF CreateIndex
  <2>3. TablesMade'
    BY <1>4, <2>1 DEF CreateIndex, TablesMade
  <2>4. ColumnsAdded'
    BY <1>4 DEF CreateIndex, ColumnsAdded, SchemaSound, StampedIsCurrent
  <2>5. SchemaSound'
    BY <1>4 DEF CreateIndex, ColumnsAdded, SchemaSound, StampedIsCurrent, ProposalKept
  <2> QED
    BY <2>2, <2>3, <2>4, <2>5
<1>5. CASE Alter
  <2>1. /\ missing' \subseteq missing
        /\ ~swallowed' => ~swallowed /\ Alters[line] \notin missing'
    <3>1. CASE missing' = missing \ {Alters[line]} /\ UNCHANGED swallowed
      BY <3>1
    <3>2. CASE swallowed' = TRUE /\ UNCHANGED missing
      BY <3>2
    <3> QED
      BY <1>5, <3>1, <3>2 DEF Alter
  <2>2. \/ line < Len(Alters) /\ line' = line + 1 /\ phase' = "alters"
        \/ line = Len(Alters) /\ line' = 1 /\ phase' = "blob"
    BY <1>5 DEF Alter, Proceed
  <2>3. UNCHANGED <<needs, tables, indexed, triggers, version, blob, proposals, held>> /\ phase = "alters"
    BY <1>5 DEF Alter
  <2>4. SchemaTypes' /\ TablesMade'
    BY <2>1, <2>2, <2>3 DEF TablesMade
  <2>5. ColumnsAdded'
    <3>1. \A i \in 1..Len(Alters) : i <= line /\ ~swallowed' => Alters[i] \notin missing'
      BY <2>1, <2>3 DEF ColumnsAdded
    <3>2. phase' = "blob" /\ ~swallowed' => missing' = {}
      BY <2>1, <2>2, <3>1 DEF Columns
    <3> QED
      BY <2>2, <2>3, <3>1, <3>2 DEF ColumnsAdded
  <2>6. SchemaSound'
    BY <2>1, <2>2, <2>3 DEF ColumnsAdded, SchemaSound, StampedIsCurrent, ProposalKept
  <2> QED
    BY <2>4, <2>5, <2>6
<1>6. CASE MoveBlob
  <2>1. SchemaTypes'
    BY <1>6 DEF MoveBlob
  <2>2. TablesMade'
    BY <1>6 DEF MoveBlob, TablesMade
  <2>3. ColumnsAdded'
    BY <1>6 DEF MoveBlob, ColumnsAdded, SchemaSound, StampedIsCurrent
  <2>4. SchemaSound'
    BY <1>6 DEF MoveBlob, ColumnsAdded, TablesMade, SchemaSound, StampedIsCurrent, ProposalKept
  <2> QED
    BY <2>1, <2>2, <2>3, <2>4
<1>7. CASE Late
  <2>1. SchemaTypes'
    BY <1>7 DEF Late
  <2>2. TablesMade'
    BY <1>7 DEF Late, TablesMade
  <2>3. ColumnsAdded'
    BY <1>7 DEF Late, ColumnsAdded, SchemaSound, StampedIsCurrent
  <2>4. SchemaSound'
    BY <1>7 DEF Late, ColumnsAdded, TablesMade, SchemaSound, StampedIsCurrent, ProposalKept
  <2> QED
    BY <2>1, <2>2, <2>3, <2>4
<1>8. CASE Stamp
  BY <1>8 DEF Stamp, TablesMade, ColumnsAdded, SchemaSound, StampedIsCurrent, ProposalKept
<1>9. CASE Kill
  BY <1>9 DEF Kill, file, TablesMade, ColumnsAdded, SchemaSound, StampedIsCurrent, ProposalKept
<1>10. CASE Restore
  BY <1>10, OldFileHolds DEF Restore
<1>11. CASE UNCHANGED hvars
  BY <1>11 DEF hvars, TablesMade, ColumnsAdded, SchemaSound, StampedIsCurrent, ProposalKept
<1> QED
  BY <1>1, <1>2, <1>3, <1>4, <1>5, <1>6, <1>7, <1>8, <1>9, <1>10, <1>11 DEF SchemaNext

(* A stamped file has every column and index of the latest shape, a server   *)
(* that serves has every table and trigger, and the proposal of an old file *)
(* is there once (db.ts), wherever the earlier starts were cut short.       *)
THEOREM SchemaIsSound == SchemaSpec => []SchemaSound
<1>1. SchemaInv => SchemaSound
  BY DEF SchemaInv
<1> QED
  BY <1>1, SchemaBegins, SchemaHolds, PTL DEF SchemaSpec

-----------------------------------------------------------------------------
(* The review queue: the inductive invariant.                               *)

\* The calls of a handler, and what a console shows and posts.
Calls == {c \in [op : {"resolveBulk", "reject", "launch", "settle", "rejectDraft"},
                 arg : SUBSET (Todos \cup Proposals)] : c.op = "launch" => c.arg \subseteq Proposals}
Handlers == [by : Consoles, calls : Seq(Calls), dropped : SUBSET (Todos \cup Proposals), approves : BOOLEAN]
Shown ==
  /\ queue \in [Consoles -> SUBSET Todos]
  /\ draft \in [Consoles -> Proposals \cup {NoDraft}]
  /\ handlers \subseteq Handlers

\* The cached bar has been the saved one within the life of the cache.
Barred ==
  /\ bar \in Levels /\ cachedBar \in Levels /\ cacheAge \in Nat /\ inForce \in [Levels -> Nat]
  /\ inForce[bar] = 0
  /\ cacheAge <= BarTTL => inForce[cachedBar] <= cacheAge

\* The tasks of a run that started are in the table.
Launched ==
  /\ runs \in Seq([of : Proposals, started : BOOLEAN])
  /\ \A i \in 1..Len(runs) : runs[i].started => \A k \in 1..Len(Nodes[runs[i].of]) : Nodes[runs[i].of][k] \in tasks

\* A proposal has a verdict once it is no longer pending, and that one.
Judged ==
  /\ table \in [Proposals -> {"unstaged", "pending", "superseded", "rejected", "approved"}]
  /\ verdict \in [Proposals -> {"none", "superseded", "rejected", "approved"}]
  /\ \A p \in Proposals : IF verdict[p] = "none" THEN table[p] \in {"unstaged", "pending"} ELSE table[p] = verdict[p]

ReviewInv == Shown /\ Barred /\ BulkWithinDial /\ Launched /\ StepsRunOnce /\ Judged

LEMMA ReviewBegins == ConsoleInit => ReviewInv
<1> SUFFICES ASSUME ConsoleInit PROVE ReviewInv
  OBVIOUS
<1>1. DefaultBar \in Levels
  BY ConsoleAssumption DEF DefaultBar
<1>2. Shown
  BY DEF ConsoleInit, Shown
<1>3. Barred /\ BulkWithinDial
  BY <1>1, ConsoleAssumption DEF ConsoleInit, Barred, BulkWithinDial
<1>4. Launched /\ StepsRunOnce
  BY DEF ConsoleInit, Launched, StepsRunOnce
<1>5. Judged
  BY DEF ConsoleInit, Judged
<1> QED
  BY <1>2, <1>3, <1>4, <1>5 DEF ReviewInv

\* What each part rests on stands.
LEMMA ShownStands == ASSUME Shown, UNCHANGED <<queue, draft, handlers>> PROVE Shown'
BY DEF Shown
LEMMA BarredStands == ASSUME Barred, BulkWithinDial, UNCHANGED <<bar, cachedBar, cacheAge, inForce, judged>>
                      PROVE  Barred' /\ BulkWithinDial'
BY DEF Barred, BulkWithinDial
LEMMA LaunchedStands == ASSUME Launched, StepsRunOnce, UNCHANGED <<runs, tasks>> PROVE Launched' /\ StepsRunOnce'
BY DEF Launched, StepsRunOnce
LEMMA JudgedStands == ASSUME Judged, UNCHANGED <<table, verdict>> PROVE Judged'
BY DEF Judged

\* The pending rows take a status, which is the verdict on them.
LEMMA Leaving ==
  ASSUME Judged, NEW P \in SUBSET Pending, NEW s \in {"superseded", "rejected", "approved"},
         NEW new \in SUBSET (Proposals \ P), \A p \in new : table[p] = "unstaged",
         verdict' = Noted(P, s),
         table' = [p \in Proposals |-> IF p \in new THEN "pending" ELSE Leave(P, s)[p]]
  PROVE  Judged'
<1>1. verdict' = [p \in Proposals |-> IF p \in P /\ verdict[p] = "none" THEN s ELSE verdict[p]]
  BY DEF Noted
<1>2. table' = [p \in Proposals |-> IF p \in new THEN "pending" ELSE IF p \in P THEN s ELSE table[p]]
  BY DEF Leave
<1>3. ASSUME NEW p \in P PROVE table[p] = "pending" /\ verdict[p] = "none" /\ p \in Proposals
  BY <1>3 DEF Pending, Judged
<1>4. ASSUME NEW p \in Proposals
      PROVE  IF verdict'[p] = "none" THEN table'[p] \in {"unstaged", "pending"} ELSE table'[p] = verdict'[p]
  BY <1>1, <1>2, <1>3 DEF Judged
<1>5. table' \in [Proposals -> {"unstaged", "pending", "superseded", "rejected", "approved"}]
  BY <1>2 DEF Judged
<1>6. verdict' \in [Proposals -> {"none", "superseded", "rejected", "approved"}]
  BY <1>1 DEF Judged
<1> QED
  BY <1>4, <1>5, <1>6 DEF Judged

\* The dial moves, the clock ticks, a bulk approval is judged.
LEMMA DialSteps == ASSUME Barred, BulkWithinDial, (\E l \in Levels : SaveDial(l)) \/ TickBar
                   PROVE  Barred' /\ BulkWithinDial'
<1>1. ASSUME NEW l \in Levels, SaveDial(l) PROVE Barred' /\ BulkWithinDial'
  <2>1. Barred'
    BY <1>1, ConsoleAssumption DEF SaveDial, Barred
  <2> QED
    BY <1>1, <2>1 DEF SaveDial, BulkWithinDial
<1>2. CASE TickBar
  <2>1. Barred'
    BY <1>2, ConsoleAssumption DEF TickBar, Barred
  <2> QED
    BY <1>2, <2>1 DEF TickBar, BulkWithinDial
<1> QED
  BY <1>1, <1>2

LEMMA BulkStep == ASSUME Barred, BulkWithinDial, NEW T, ResolveBulk(T) PROVE Barred' /\ BulkWithinDial'
<1>1. PICK b, a : b = Bar[1] /\ a = Bar[2]
  OBVIOUS
<1>2. b \in Levels /\ a \in Nat /\ inForce[b] <= BarTTL /\ (a <= BarTTL => inForce[b] <= a)
  BY <1>1, ConsoleAssumption DEF Bar, Barred
<1>3. cachedBar' = b /\ cacheAge' = a /\ bar' = bar /\ inForce' = inForce
  BY <1>1 DEF ResolveBulk
<1>4. Barred'
  BY <1>2, <1>3 DEF Barred
<1>5. PICK L, S : L = {l \in Levels : inForce[l] <= BarTTL} /\ S = {t \in T : todos[t] = "open" /\ Confidence[t] >= b}
  OBVIOUS
<1>6. judged' = judged \cup (S \X {L})
  BY <1>1, <1>5 DEF ResolveBulk
<1>7. ASSUME NEW j \in judged' PROVE \E l \in j[2] : Confidence[j[1]] >= l
  <2>1. CASE j \in judged
    BY <2>1 DEF BulkWithinDial
  <2>2. CASE j \in S \X {L}
    <3>1. j[1] \in S /\ j[2] = L
      BY <2>2
    <3>2. Confidence[j[1]] >= b /\ b \in L
      BY <1>2, <1>5, <3>1
    <3> QED
      BY <3>1, <3>2
  <2> QED
    BY <1>6, <2>1, <2>2
<1> QED
  BY <1>4, <1>7 DEF BulkWithinDial

\* A launch inserts every task of the proposal, or does not start.
LEMMA LaunchStep == ASSUME Launched, StepsRunOnce, NEW p \in Proposals, Launch(p) PROVE Launched' /\ StepsRunOnce'
<1>1. CASE UNCHANGED <<tasks, runs>>
  BY <1>1, LaunchedStands
<1>2. CASE ~UNCHANGED <<tasks, runs>>
  <2>1. PICK q, in, st : q = Nodes[p] /\ in = Inserted(q)[1] /\ st = Inserted(q)[2]
    OBVIOUS
  <2>2. tasks' = tasks \cup in /\ runs' = Append(runs, [of |-> p, started |-> st])
    BY <1>2, <2>1 DEF Launch
  <2>3. PICK clash : clash = {i \in 1..Len(q) : q[i] \in tasks \/ \E j \in 1..(i-1) : q[j] = q[i]}
    OBVIOUS
  <2>4. st = (clash = {})
    BY <2>1, <2>3 DEF Inserted
  <2>5. st => in = {q[i] : i \in 1..Len(q)}
    BY <2>1, <2>3, <2>4 DEF Inserted
  <2>6. q \in Seq(STRING) /\ q # <<>>
    BY <2>1, ConsoleAssumption
  <2>7. 1 \in 1..Len(q)
    BY <2>6
  <2>8. st => q[1] \notin tasks
    BY <2>3, <2>4, <2>7
  <2>9. PICK r : r = [of |-> p, started |-> st]
    OBVIOUS
  <2>10. r \in [of : Proposals, started : BOOLEAN] /\ r.of = p /\ r.started = st
    BY <2>4, <2>9
  <2>11. /\ runs' \in Seq([of : Proposals, started : BOOLEAN]) /\ Len(runs') = Len(runs) + 1 /\ Len(runs) \in Nat
         /\ runs'[Len(runs) + 1] = r /\ \A i \in 1..Len(runs) : runs'[i] = runs[i]
    BY <2>2, <2>9, <2>10 DEF Launched
  <2>12. ASSUME NEW i \in 1..Len(runs') PROVE i \in 1..Len(runs) \/ i = Len(runs) + 1
    BY <2>11
  <2>13. ASSUME NEW i \in 1..Len(runs'), runs'[i].started
         PROVE  \A k \in 1..Len(Nodes[runs'[i].of]) : Nodes[runs'[i].of][k] \in tasks'
    <3>1. CASE i \in 1..Len(runs)
      BY <2>2, <2>11, <2>13, <3>1 DEF Launched
    <3>2. CASE i = Len(runs) + 1
      BY <2>1, <2>2, <2>5, <2>10, <2>11, <2>13, <3>2
    <3> QED
      BY <2>12, <3>1, <3>2
  <2>14. ASSUME NEW i \in 1..Len(runs), runs[i].started, runs[i].of = p PROVE ~st
    BY <2>1, <2>7, <2>8, <2>14 DEF Launched
  <2>15. ASSUME NEW i \in 1..Len(runs'), NEW j \in 1..Len(runs'),
                runs'[i].started, runs'[j].started, runs'[i].of = runs'[j].of
         PROVE  i = j
    <3>1. CASE i \in 1..Len(runs) /\ j \in 1..Len(runs)
      BY <2>11, <2>15, <3>1 DEF StepsRunOnce
    <3>2. CASE i \in 1..Len(runs) /\ j = Len(runs) + 1
      BY <2>10, <2>11, <2>14, <2>15, <3>2
    <3>3. CASE j \in 1..Len(runs) /\ i = Len(runs) + 1
      BY <2>10, <2>11, <2>14, <2>15, <3>3
    <3> QED
      BY <2>12, <3>1, <3>2, <3>3
  <2> QED
    BY <2>11, <2>13, <2>15 DEF Launched, StepsRunOnce
<1> QED
  BY <1>1, <1>2

\* A click begins a handler of well-formed calls.
LEMMA BeginStep ==
  ASSUME Shown, NEW c \in Consoles, NEW calls \in Seq(Calls), NEW dropped \in SUBSET (Todos \cup Proposals),
         NEW approves \in BOOLEAN, Begin(c, calls, dropped, approves)
  PROVE  Shown'
<1>1. PICK h : h = [by |-> c, calls |-> calls, dropped |-> dropped, approves |-> approves]
  OBVIOUS
<1>2. h \in Handlers
  BY <1>1 DEF Handlers
<1>3. handlers' = handlers \cup {h} /\ UNCHANGED <<queue, draft>>
  BY <1>1 DEF Begin
<1> QED
  BY <1>2, <1>3 DEF Shown

\* Every call that a console makes is well formed.
LEMMA CallsFacts ==
  /\ \A op \in {"resolveBulk", "reject", "settle", "rejectDraft"}, A \in SUBSET (Todos \cup Proposals) : Call(op, A) \in Calls
  /\ \A A \in SUBSET Proposals : Call("launch", A) \in Calls
BY DEF Call, Calls

LEMMA LaunchCallsFacts == ASSUME NEW P \in SUBSET Proposals, NEW q, q = LaunchCalls(P) PROVE q \in Seq(Calls)
<1>1. PICK a, b : a = Call("launch", P) /\ b = Call("settle", P)
  OBVIOUS
<1>2. a \in Calls /\ b \in Calls
  BY <1>1, CallsFacts
<1>3. q = IF P = {} THEN <<>> ELSE <<a, b>>
  BY <1>1 DEF LaunchCalls
<1> QED
  BY <1>2, <1>3

LEMMA OneCall == ASSUME NEW a \in Calls, NEW q, q = <<a>> PROVE q \in Seq(Calls)
OBVIOUS

LEMMA ItemsFacts ==
  ASSUME Shown, NEW c \in Consoles
  PROVE  /\ High(c) \subseteq Todos \cup Proposals /\ Low(c) \subseteq Todos \cup Proposals
         /\ High(c) \ Todos \subseteq Proposals
         /\ draft[c] # NoDraft => draft[c] \in Proposals
BY DEF Shown, High, Low, Items

LEMMA ClickSteps ==
  ASSUME Shown, NEW c \in Consoles,
         (\E t \in Todos : ApproveTodo(c, t) \/ DeclineTodo(c, t))
           \/ ApproveProposal(c) \/ RejectProposal(c) \/ ApproveAll(c) \/ RejectAll(c)
  PROVE  Shown'
<1>n. PICK no : no = FALSE
  OBVIOUS
<1>y. PICK yes : yes = TRUE
  OBVIOUS
<1>s. PICK none, T, d : none = <<>> /\ T = High(c) \cap Todos /\ d = {draft[c]}
  OBVIOUS
<1>p. PICK P : P = High(c) \ T
  OBVIOUS
<1>0. none = <<>> /\ T = High(c) \cap Todos /\ P = High(c) \ T /\ d = {draft[c]}
  BY <1>s, <1>p
<1>t. no \in BOOLEAN /\ yes \in BOOLEAN /\ none \in Seq(Calls)
  <2>1. no \in BOOLEAN
    BY <1>n
  <2>2. yes \in BOOLEAN
    BY <1>y
  <2>3. none \in Seq(Calls)
    BY <1>0
  <2> QED
    BY <2>1, <2>2, <2>3
<1>h. /\ T \in SUBSET (Todos \cup Proposals) /\ P \in SUBSET Proposals /\ P \in SUBSET (Todos \cup Proposals)
      /\ High(c) \in SUBSET (Todos \cup Proposals)
  BY <1>0, ItemsFacts
<1>1. ASSUME NEW t \in Todos, ApproveTodo(c, t) PROVE Shown'
  <2>1. PICK D : D = {t}
    OBVIOUS
  <2>2. D \in SUBSET (Todos \cup Proposals) /\ Begin(c, none, D, yes)
    BY <1>0, <1>n, <1>y, <1>1, <2>1 DEF ApproveTodo
  <2> QED
    BY <1>t, <2>2, BeginStep
<1>2. ASSUME NEW t \in Todos, DeclineTodo(c, t) PROVE Shown'
  <2>1. PICK D, a, q : D = {t} /\ a = Call("reject", D) /\ q = <<a>>
    OBVIOUS
  <2>2. D \in SUBSET (Todos \cup Proposals) /\ Begin(c, q, D, no)
    BY <1>0, <1>n, <1>y, <1>2, <2>1 DEF DeclineTodo
  <2>3. a \in Calls
    BY <2>1, <2>2, CallsFacts
  <2> QED
    BY <1>t, <2>1, <2>2, <2>3, OneCall, BeginStep
<1>3. CASE ApproveProposal(c)
  <2>1. d \in SUBSET Proposals /\ d \in SUBSET (Todos \cup Proposals)
    BY <1>0, <1>3, ItemsFacts DEF ApproveProposal
  <2>2. PICK q : q = LaunchCalls(d)
    OBVIOUS
  <2>3. q \in Seq(Calls)
    BY <2>1, <2>2, LaunchCallsFacts
  <2>4. Begin(c, q, d, yes)
    BY <1>0, <1>n, <1>y, <1>3, <2>2 DEF ApproveProposal
  <2> QED
    BY <1>t, <2>1, <2>3, <2>4, BeginStep
<1>4. CASE RejectProposal(c)
  <2>1. d \in SUBSET (Todos \cup Proposals)
    BY <1>0, <1>4, ItemsFacts DEF RejectProposal
  <2>2. PICK a, q : a = Call("rejectDraft", d) /\ q = <<a>>
    OBVIOUS
  <2>3. a \in Calls
    BY <2>1, <2>2, CallsFacts
  <2>4. Begin(c, q, d, no)
    BY <1>0, <1>n, <1>y, <1>4, <2>2 DEF RejectProposal
  <2> QED
    BY <1>t, <2>1, <2>2, <2>3, <2>4, OneCall, BeginStep
<1>5. CASE ApproveAll(c)
  <2>1. PICK a, x, y, q : /\ a = Call("resolveBulk", T) /\ x = (IF T = {} THEN <<>> ELSE <<a>>)
                          /\ y = LaunchCalls(P) /\ q = x \o y
    OBVIOUS
  <2>2. a \in Calls /\ y \in Seq(Calls)
    BY <1>h, <2>1, CallsFacts, LaunchCallsFacts
  <2>3. x \in Seq(Calls)
    BY <2>1, <2>2
  <2>4. q \in Seq(Calls)
    BY <2>1, <2>2, <2>3
  <2>5. Begin(c, q, High(c), yes)
    BY <1>0, <1>n, <1>y, <1>5, <2>1 DEF ApproveAll
  <2> QED
    BY <1>t, <1>h, <2>4, <2>5, BeginStep
<1>6. CASE RejectAll(c)
  <2>1. PICK a, b, x, y, q : /\ a = Call("reject", T) /\ x = (IF T = {} THEN <<>> ELSE <<a>>)
                             /\ b = Call("rejectDraft", P) /\ y = (IF T = High(c) THEN <<>> ELSE <<b>>)
                             /\ q = x \o y
    OBVIOUS
  <2>2. a \in Calls /\ b \in Calls
    BY <1>h, <2>1, CallsFacts
  <2>3. x \in Seq(Calls) /\ y \in Seq(Calls)
    BY <2>1, <2>2
  <2>4. q \in Seq(Calls)
    BY <2>1, <2>3
  <2>5. Begin(c, q, High(c), no)
    BY <1>0, <1>n, <1>y, <1>6, <2>1 DEF RejectAll
  <2> QED
    BY <1>t, <1>h, <2>4, <2>5, BeginStep
<1> QED
  BY <1>1, <1>2, <1>3, <1>4, <1>5, <1>6

\* A console loads, a handler fails or ends.
LEMMA ShownSteps ==
  ASSUME Shown, (\E c \in Consoles : Load(c)) \/ (\E h \in handlers : Fail(h) \/ HandlerEnds(h))
  PROVE  Shown'
<1>1. ASSUME NEW c \in Consoles, Load(c) PROVE Shown'
  <2>1. Listed \in SUBSET Todos /\ Pending \in SUBSET Proposals
    BY DEF Listed, Pending
  <2>2. queue' \in [Consoles -> SUBSET Todos] /\ draft' \in [Consoles -> Proposals \cup {NoDraft}] /\ handlers' = handlers
    BY <1>1, <2>1 DEF Load, Shown
  <2> QED
    BY <2>2 DEF Shown
<1>2. ASSUME NEW h \in handlers, Fail(h) PROVE Shown'
  BY <1>2 DEF Fail, Shown
<1>3. ASSUME NEW h \in handlers, HandlerEnds(h) PROVE Shown'
  <2>1. queue' = [queue EXCEPT ![h.by] = queue[h.by] \ h.dropped] /\ h.by \in Consoles
    BY <1>3 DEF HandlerEnds, Shown, Handlers
  <2>2. draft' = [draft EXCEPT ![h.by] = IF draft[h.by] \in h.dropped THEN NoDraft ELSE draft[h.by]]
    BY <1>3 DEF HandlerEnds
  <2>3. queue' \in [Consoles -> SUBSET Todos]
    BY <2>1 DEF Shown
  <2>4. draft' \in [Consoles -> Proposals \cup {NoDraft}]
    BY <2>1, <2>2 DEF Shown
  <2> QED
    BY <1>3, <2>3, <2>4 DEF HandlerEnds, Shown
<1> QED
  BY <1>1, <1>2, <1>3

LEMMA ServeStep == ASSUME ReviewInv, NEW h \in handlers, Serve(h) PROVE ReviewInv'
<1>1. h \in Handlers /\ h.calls \in Seq(Calls) /\ h.calls # <<>>
  BY DEF ReviewInv, Shown, Handlers, Serve
<1>2. PICK g : g = [h EXCEPT !.calls = Tail(@)]
  OBVIOUS
<1>3. PICK q : q = Tail(h.calls)
  OBVIOUS
<1>4. q \in Seq(Calls)
  BY <1>1, <1>3
<1>5. g = [by |-> h.by, calls |-> q, dropped |-> h.dropped, approves |-> h.approves]
  BY <1>1, <1>2, <1>3 DEF Handlers
<1>6. g \in Handlers
  BY <1>1, <1>4, <1>5 DEF Handlers
<1>7. handlers' = (handlers \ {h}) \cup {g} /\ UNCHANGED <<queue, draft>>
  BY <1>2 DEF Serve
<1>8. Shown'
  BY <1>6, <1>7 DEF ReviewInv, Shown
<1>9. PICK call : call = Head(h.calls)
  OBVIOUS
<1>10. call \in Calls
  BY <1>1, <1>9
<1>11. PICK A, op : A = call.arg /\ op = call.op
  OBVIOUS
<1>12. /\ A \in SUBSET (Todos \cup Proposals) /\ op \in {"resolveBulk", "reject", "launch", "settle", "rejectDraft"}
       /\ op = "launch" => A \in SUBSET Proposals
  BY <1>10, <1>11 DEF Calls
<1>13. /\ op = "resolveBulk" => ResolveBulk(A)
       /\ op = "reject" => RejectTodos(A)
       /\ op = "launch" => \E p \in A : Launch(p)
       /\ op = "settle" => Settle(A, "approved")
       /\ op = "rejectDraft" => Settle(A, "rejected")
  BY <1>9, <1>11 DEF Serve
<1>i. Barred /\ BulkWithinDial /\ Launched /\ StepsRunOnce /\ Judged
  BY DEF ReviewInv
<1>14. CASE op = "resolveBulk"
  <2>1. Barred' /\ BulkWithinDial'
    BY <1>i, <1>13, <1>14, BulkStep
  <2>2. Launched' /\ StepsRunOnce' /\ Judged'
    BY <1>i, <1>13, <1>14, LaunchedStands, JudgedStands DEF ResolveBulk
  <2> QED
    BY <1>8, <2>1, <2>2 DEF ReviewInv
<1>15. CASE op = "reject"
  <2>1. Barred' /\ BulkWithinDial' /\ Launched' /\ StepsRunOnce' /\ Judged'
    BY <1>i, <1>13, <1>15, BarredStands, LaunchedStands, JudgedStands DEF RejectTodos
  <2> QED
    BY <1>8, <2>1 DEF ReviewInv
<1>16. CASE op = "launch"
  <2>1. PICK p \in Proposals : Launch(p)
    BY <1>12, <1>13, <1>16
  <2>2. Launched' /\ StepsRunOnce'
    BY <1>i, <2>1, LaunchStep
  <2>3. Barred' /\ BulkWithinDial' /\ Judged'
    BY <1>i, <2>1, BarredStands, JudgedStands DEF Launch
  <2> QED
    BY <1>8, <2>2, <2>3 DEF ReviewInv
<1>17. ASSUME NEW s \in {"approved", "rejected"}, Settle(A, s) PROVE ReviewInv'
  <2>1. PICK P, none : P = Decided(A) /\ none = {}
    OBVIOUS
  <2>2. P \in SUBSET Pending /\ none \in SUBSET (Proposals \ P) /\ \A p \in none : table[p] = "unstaged"
    BY <2>1 DEF Decided
  <2>3. verdict' = Noted(P, s) /\ table' = Leave(P, s)
    BY <1>17, <2>1 DEF Settle
  <2>4. table' = [p \in Proposals |-> IF p \in none THEN "pending" ELSE Leave(P, s)[p]]
    BY <2>1, <2>3 DEF Leave
  <2>5. Judged'
    BY <1>i, <2>2, <2>3, <2>4, Leaving
  <2>6. Barred' /\ BulkWithinDial' /\ Launched' /\ StepsRunOnce'
    BY <1>i, <1>17, BarredStands, LaunchedStands DEF Settle
  <2> QED
    BY <1>8, <2>5, <2>6 DEF ReviewInv
<1>18. CASE op \in {"settle", "rejectDraft"}
  BY <1>13, <1>17, <1>18
<1> QED
  BY <1>12, <1>14, <1>15, <1>16, <1>18

\* For every set of consoles, to-dos, proposals and bars, and whatever the
\* network loses or a console that shows an old state posts: a bulk approval
\* passes a to-do only over a bar that was saved within the life of the cache
\* (routes/todos.ts), the tasks of a proposal run once (coreexec-router.ts) and
\* the first verdict on a proposal stands (routes/system.ts).
THEOREM ReviewIsSound == ConsoleSpec => []ReviewSound
<1>1. ConsoleInit => ReviewInv
  BY ReviewBegins
<1>2. ReviewInv /\ [ConsoleNext]_cvars => ReviewInv'
  <2> SUFFICES ASSUME ReviewInv, [ConsoleNext]_cvars PROVE ReviewInv'
    OBVIOUS
  <2>i. Shown /\ Barred /\ BulkWithinDial /\ Launched /\ StepsRunOnce /\ Judged
    BY DEF ReviewInv
  <2>a. ASSUME UNCHANGED <<runs, tasks, bar, cachedBar, cacheAge, inForce, judged>> PROVE Barred' /\ BulkWithinDial' /\ Launched' /\ StepsRunOnce'
    BY <2>i, <2>a, BarredStands, LaunchedStands
  <2>1. CASE UNCHANGED cvars
    BY <2>1, <2>i, <2>a, ShownStands, JudgedStands DEF cvars, ReviewInv
  <2>2. ASSUME NEW t \in Todos, Escalate(t) PROVE ReviewInv'
    BY <2>2, <2>i, <2>a, ShownStands, JudgedStands DEF Escalate, ReviewInv
  <2>3. ASSUME NEW p \in Proposals, Stage(p) PROVE ReviewInv'
    <3>1. PICK P, new : P = Pending /\ new = {p}
      OBVIOUS
    <3>2. P \in SUBSET Pending /\ new \in SUBSET (Proposals \ P) /\ \A r \in new : table[r] = "unstaged"
      BY <2>3, <3>1 DEF Stage, Pending
    <3>3. verdict' = Noted(P, "superseded") /\ table' = [Leave(P, "superseded") EXCEPT ![p] = "pending"]
      BY <2>3, <3>1 DEF Stage
    <3>4. table' = [r \in Proposals |-> IF r \in new THEN "pending" ELSE Leave(P, "superseded")[r]]
      BY <3>1, <3>3 DEF Leave
    <3>5. PICK s : s = "superseded"
      OBVIOUS
    <3>6. s \in {"superseded", "rejected", "approved"} /\ verdict' = Noted(P, s)
          /\ table' = [r \in Proposals |-> IF r \in new THEN "pending" ELSE Leave(P, s)[r]]
      BY <3>3, <3>4, <3>5
    <3>7. Judged'
      BY <2>i, <3>2, <3>6, Leaving
    <3> QED
      BY <2>3, <2>i, <2>a, <3>7, ShownStands DEF Stage, ReviewInv
  <2>4. CASE ClearPending
    <3>1. PICK P, none, s : P = Pending /\ none = {} /\ s = "rejected"
      OBVIOUS
    <3>2. P \in SUBSET Pending /\ none \in SUBSET (Proposals \ P) /\ \A r \in none : table[r] = "unstaged"
      BY <3>1
    <3>3. s \in {"superseded", "rejected", "approved"} /\ verdict' = Noted(P, s) /\ table' = Leave(P, s)
      BY <2>4, <3>1 DEF ClearPending
    <3>4. table' = [r \in Proposals |-> IF r \in none THEN "pending" ELSE Leave(P, s)[r]]
      BY <3>1, <3>3 DEF Leave
    <3>5. Judged'
      BY <2>i, <3>2, <3>3, <3>4, Leaving
    <3> QED
      BY <2>4, <2>i, <2>a, <3>5, ShownStands DEF ClearPending, ReviewInv
  <2>5. CASE (\E l \in Levels : SaveDial(l)) \/ TickBar
    <3>1. Barred' /\ BulkWithinDial'
      BY <2>i, <2>5, DialSteps
    <3>2. UNCHANGED <<runs, tasks, table, verdict, queue, draft, handlers>>
      BY <2>5 DEF SaveDial, TickBar
    <3> QED
      BY <2>i, <3>1, <3>2, LaunchedStands, JudgedStands, ShownStands DEF ReviewInv
  <2>6. CASE (\E c \in Consoles : Load(c)) \/ (\E h \in handlers : Fail(h) \/ HandlerEnds(h))
    <3>1. Shown'
      BY <2>i, <2>6, ShownSteps
    <3>2. UNCHANGED <<runs, tasks, bar, cachedBar, cacheAge, inForce, judged, table, verdict>>
      BY <2>6 DEF Load, Fail, HandlerEnds, serverSide
    <3> QED
      BY <2>i, <2>a, <3>1, <3>2, JudgedStands DEF ReviewInv
  <2>7. ASSUME NEW c \in Consoles,
               (\E t \in Todos : ApproveTodo(c, t) \/ DeclineTodo(c, t))
                 \/ ApproveProposal(c) \/ RejectProposal(c) \/ ApproveAll(c) \/ RejectAll(c)
        PROVE ReviewInv'
    <3>1. Shown'
      BY <2>i, <2>7, ClickSteps
    <3>2. UNCHANGED serverSide
      BY <2>7 DEF ApproveTodo, DeclineTodo, ApproveProposal, RejectProposal, ApproveAll, RejectAll, Begin
    <3>3. UNCHANGED <<runs, tasks, bar, cachedBar, cacheAge, inForce, judged, table, verdict>>
      BY <3>2 DEF serverSide
    <3> QED
      BY <2>i, <2>a, <3>1, <3>3, JudgedStands DEF ReviewInv
  <2>8. ASSUME NEW h \in handlers, Serve(h) PROVE ReviewInv'
    BY <2>8, ServeStep
  <2> QED
    BY <2>1, <2>2, <2>3, <2>4, <2>5, <2>6, <2>7, <2>8 DEF ConsoleNext
<1>3. ReviewInv => ReviewSound
  <2> SUFFICES ASSUME ReviewInv PROVE ReviewSound
    OBVIOUS
  <2>1. VerdictsStand
    BY DEF ReviewInv, Judged, VerdictsStand
  <2> QED
    BY <2>1 DEF ReviewInv, ReviewSound
<1> QED
  BY <1>1, <1>2, <1>3, PTL DEF ConsoleSpec

-----------------------------------------------------------------------------
(* The sessions: the inductive invariant.                                   *)

\* A set of numbers has a least one.
LEMMA LeastOf ==
  ASSUME NEW T, T \subseteq Nat, T # {}
  PROVE  \E m \in T : \A x \in T : m <= x
<1> DEFINE less == {ss \in Nat \X Nat : ss[1] < ss[2]}
<1>0. less = OpToRel(<, Nat)
  BY DEF OpToRel
<1>2. \A x, y \in Nat : <<y, x>> \notin less => x <= y
  OBVIOUS
<1> HIDE DEF less
<1>3. IsWellFoundedOn(less, Nat)
  BY <1>0, NatLessThanWellFounded, Zenon
<1>1. \E x \in T : \A y \in T : ~(<<y, x>> \in less)
  BY <1>3, WFMin, Zenon
<1> QED
  BY <1>1, <1>2

\* What is evicted is the oldest of more than MaxSessions.
LEMMA EvictFacts ==
  ASSUME NEW n \in Nat, NEW live \in SUBSET (1..n), NEW rest, rest = Evict(live)
  PROVE  rest \subseteq live /\ \A t \in live \ rest : n - t >= MaxSessions
<1>0. MaxSessions \in Nat \ {0}
  BY AccessAssumption
<1>1. CASE Cardinality(live) <= MaxSessions
  BY <1>1 DEF Evict
<1>2. CASE ~(Cardinality(live) <= MaxSessions)
  <2>1. IsFiniteSet(1..n)
    BY FS_Interval
  <2>2. IsFiniteSet(live) /\ Cardinality(live) \in Nat
    BY <2>1, FS_Subset, FS_CardinalityType
  <2>3. live # {}
    BY <1>0, <1>2, <2>2, FS_EmptySet
  <2>4. live \subseteq Nat
    OBVIOUS
  <2>5. PICK m \in live : \A x \in live : m <= x
    BY <2>3, <2>4, LeastOf
  <2>6. PICK low : low = Min(live)
    OBVIOUS
  <2>7. low \in live /\ \A x \in live : low <= x
    BY <2>5, <2>6 DEF Min
  <2>8. rest = live \ {low}
    BY <1>2, <2>6 DEF Evict
  <2>9. live \in SUBSET (low..n) /\ low \in 1..n
    BY <2>7
  <2>10. IsFiniteSet(low..n) /\ Cardinality(low..n) = n - low + 1
    BY <2>9, FS_Interval
  <2>11. Cardinality(live) <= n - low + 1
    <3>1. PICK all : all = low..n
      OBVIOUS
    <3>2. IsFiniteSet(all) /\ live \in SUBSET all /\ Cardinality(all) = n - low + 1
      BY <2>9, <2>10, <3>1
    <3>3. Cardinality(live) <= Cardinality(all)
      BY <3>2, FS_Subset
    <3> QED
      BY <3>2, <3>3
  <2>12. n - low >= MaxSessions
    BY <1>0, <1>2, <2>2, <2>9, <2>11
  <2> QED
    BY <2>8, <2>12
<1> QED
  BY <1>1, <1>2

TokenInv ==
  /\ now \in Nat /\ issued \in 0..MaxTokens
  /\ sessions \subseteq 1..issued
  /\ seen \in [1..MaxTokens -> Nat]
  /\ TokensWork

LEMMA TokensBegin == AccessInit => TokenInv
BY AccessAssumption DEF AccessInit, TokenInv, TokensWork

\* No token is handed out, and only what is no longer good is dropped.
LEMMA TokensStand ==
  ASSUME TokenInv, now' \in Nat, now' >= now, issued' = issued,
         sessions' \subseteq sessions, ended \subseteq ended',
         seen' \in [1..MaxTokens -> Nat], \A t \in 1..issued : seen'[t] # seen[t] => Alive(t) /\ t \in sessions',
         \A t \in sessions \ sessions' : ~Alive(t) \/ t \in ended'
  PROVE  TokenInv'
<1>0. SessionTTL \in Nat /\ MaxTokens \in Nat /\ MaxSessions \in Nat
  BY AccessAssumption
<1>1. ASSUME NEW t \in 1..issued
      PROVE  t \in sessions' \cup ended' \/ now' - seen'[t] > SessionTTL \/ issued - t >= MaxSessions
  <2>0. t \in 1..MaxTokens /\ seen[t] \in Nat /\ now \in Nat
    BY <1>0 DEF TokenInv
  <2>1. CASE t \in sessions' \cup ended' \/ issued - t >= MaxSessions
    BY <2>1
  <2>2. CASE t \notin sessions' \cup ended' /\ ~(issued - t >= MaxSessions)
    <3>1. seen'[t] = seen[t]
      BY <2>2
    <3>2. now - seen[t] > SessionTTL
      <4>1. CASE t \in sessions
        BY <1>0, <2>0, <2>2, <4>1 DEF Alive
      <4>2. CASE t \notin sessions
        BY <2>2, <4>2 DEF TokenInv, TokensWork
      <4> QED
        BY <4>1, <4>2
    <3> QED
      BY <1>0, <2>0, <3>1, <3>2
  <2> QED
    BY <2>1, <2>2
<1> QED
  BY <1>1 DEF TokenInv, TokensWork

LEMMA SignedInStep == ASSUME TokenInv, NEW b, SignedIn(b), now' = now PROVE TokenInv'
<1>0. SessionTTL \in Nat /\ MaxTokens \in Nat /\ MaxSessions \in Nat \ {0}
  BY AccessAssumption
<1>1. PICK n, live : n = issued + 1 /\ live = {t \in sessions : Alive(t)} \cup {n}
  OBVIOUS
<1>2. /\ issued < MaxTokens /\ issued' = n /\ seen' = [seen EXCEPT ![n] = now] /\ sessions' = Evict(live) /\ ended' = ended
  BY <1>1 DEF SignedIn
<1>a. issued \in Nat /\ n \in 0..MaxTokens /\ n \in Nat /\ n \in 1..MaxTokens /\ n \in 1..n
  BY <1>0, <1>1, <1>2 DEF TokenInv
<1>b. 1..issued \subseteq 1..n
  BY <1>1, <1>a
<1>c. live \in SUBSET (1..n)
  BY <1>1, <1>a, <1>b DEF TokenInv
<1>3. n \in 0..MaxTokens /\ n \in Nat /\ live \in SUBSET (1..n) /\ n \in 1..MaxTokens
  BY <1>a, <1>c
<1>4. sessions' \subseteq live /\ \A t \in live \ sessions' : n - t >= MaxSessions
  BY <1>2, <1>3, EvictFacts
<1>5. ASSUME NEW t \in 1..n
      PROVE  t \in sessions' \cup ended' \/ now - seen'[t] > SessionTTL \/ n - t >= MaxSessions
  <2>1. CASE t \in live
    BY <1>4, <2>1
  <2>2. CASE t \notin live
    <3>1. t \in 1..issued /\ t # n /\ seen'[t] = seen[t] /\ seen[t] \in Nat /\ now \in Nat
      BY <1>0, <1>1, <1>2, <1>3, <2>2 DEF TokenInv
    <3>2. CASE t \in sessions
      BY <1>0, <1>1, <2>2, <3>1, <3>2 DEF Alive
    <3>3. CASE t \notin sessions
      BY <1>0, <1>1, <1>2, <3>1, <3>3 DEF TokenInv, TokensWork
    <3> QED
      BY <3>2, <3>3
  <2> QED
    BY <2>1, <2>2
<1>6. seen' \in [1..MaxTokens -> Nat]
  BY <1>2 DEF TokenInv
<1>7. sessions' \subseteq 1..n
  BY <1>3, <1>4
<1> QED
  BY <1>2, <1>3, <1>5, <1>6, <1>7 DEF TokenInv, TokensWork

LEMMA VerifiedStep == ASSUME TokenInv, NEW t, Verified(t), now' = now PROVE TokenInv'
<1>1. /\ sessions' = {u \in sessions : Alive(u)} /\ issued' = issued /\ ended' = ended
      /\ seen' = IF Alive(t) THEN [seen EXCEPT ![t] = now] ELSE seen
  BY DEF Verified
<1>5. now \in Nat /\ seen \in [1..MaxTokens -> Nat]
  BY DEF TokenInv
<1>6. [seen EXCEPT ![t] = now] \in [1..MaxTokens -> Nat]
  BY <1>5
<1>7. seen' \in [1..MaxTokens -> Nat]
  BY <1>1, <1>5, <1>6, Zenon
<1>2. seen' \in [1..MaxTokens -> Nat] /\ now' \in Nat /\ now' >= now
  BY <1>5, <1>7
<1>3. \A u \in 1..issued : seen'[u] # seen[u] => Alive(u) /\ u \in sessions'
  BY <1>1 DEF TokenInv, Alive
<1>4. \A u \in sessions \ sessions' : ~Alive(u) \/ u \in ended'
  BY <1>1
<1> QED
  BY <1>1, <1>2, <1>3, <1>4, TokensStand

\* For any number of browsers, sessions, tickets and any course of time: a
\* token that was handed out is good until it is logged out, lost in a restart,
\* idle past its time or evicted by MaxSessions newer ones (auth/sessions.ts).
THEOREM TokensDoWork == AccessSpec => []TokensWork
<1>1. AccessInit => TokenInv
  BY TokensBegin
<1>2. TokenInv /\ [AccessNext]_avars => TokenInv'
  <2> SUFFICES ASSUME TokenInv, [AccessNext]_avars PROVE TokenInv'
    OBVIOUS
  <2>i. now \in Nat /\ seen \in [1..MaxTokens -> Nat]
    BY DEF TokenInv
  <2>u. ASSUME UNCHANGED tokens, now' \in Nat, now' >= now PROVE TokenInv'
    <3>1. /\ issued' = issued /\ sessions' \subseteq sessions /\ ended \subseteq ended'
          /\ seen' \in [1..MaxTokens -> Nat] /\ (\A t \in 1..issued : seen'[t] # seen[t] => Alive(t) /\ t \in sessions')
          /\ \A t \in sessions \ sessions' : ~Alive(t) \/ t \in ended'
      BY <2>i, <2>u DEF tokens
    <3> QED
      BY <2>u, <3>1, TokensStand
  <2>s. ASSUME UNCHANGED tokens, now' = now PROVE TokenInv'
    <3>1. now' \in Nat /\ now' >= now
      BY <2>i, <2>s
    <3> QED
      BY <2>s, <2>u, <3>1
  <2>1. CASE UNCHANGED avars
    BY <2>1, <2>s DEF avars
  <2>2. CASE TimePasses
    <3>1. UNCHANGED tokens /\ now' = now + 1
      BY <2>2 DEF TimePasses
    <3>2. now' \in Nat /\ now' >= now
      BY <2>i, <3>1
    <3> QED
      BY <2>u, <3>1, <3>2
  <2>3. CASE ServerRestarts
    <3>1. ended' = 1..issued /\ issued' = issued /\ sessions' = {} /\ seen' = seen /\ now' = now
      BY <2>3 DEF ServerRestarts
    <3> QED
      BY <3>1 DEF TokenInv, TokensWork
  <2>4. CASE LoginVerified
    <3>1. now' = now
      BY <2>4 DEF LoginVerified
    <3>2. PICK try : try = Head(verifying)
      OBVIOUS
    <3>3. SignedIn(try[1]) \/ UNCHANGED tokens
      BY <2>4, <3>2 DEF LoginVerified
    <3>4. PICK b : b = try[1]
      OBVIOUS
    <3>5. SignedIn(b) \/ UNCHANGED tokens
      BY <3>3, <3>4
    <3> QED
      BY <2>s, <3>1, <3>5, SignedInStep
  <2>5. ASSUME NEW b \in Browsers, Probe(b) \/ CallApi(b) \/ Mint(b) PROVE TokenInv'
    <3>1. now' = now
      BY <2>5 DEF Probe, CallApi, Mint
    <3>2. PICK t : t = token[b]
      OBVIOUS
    <3>3. Verified(t) \/ UNCHANGED tokens
      BY <2>5, <3>2 DEF Probe, CallApi, Mint
    <3> QED
      BY <2>s, <3>1, <3>3, VerifiedStep
  <2>6. ASSUME NEW b \in Browsers, SetupHashed(b) PROVE TokenInv'
    <3>1. SignedIn(b) /\ now' = now
      BY <2>6 DEF SetupHashed
    <3> QED
      BY <3>1, SignedInStep
  <2>7. ASSUME NEW b \in Browsers, Logout(b) PROVE TokenInv'
    <3>1. /\ sessions' = {u \in sessions : Alive(u)} \ {token[b]} /\ ended' = ended \cup {token[b]}
          /\ issued' = issued /\ seen' = seen /\ now' = now
      BY <2>7 DEF Logout
    <3>2. /\ sessions' \subseteq sessions /\ ended \subseteq ended' /\ seen' \in [1..MaxTokens -> Nat]
          /\ (\A t \in 1..issued : seen'[t] # seen[t] => Alive(t) /\ t \in sessions')
          /\ \A t \in sessions \ sessions' : ~Alive(t) \/ t \in ended'
      BY <2>i, <3>1
    <3>3. now' \in Nat /\ now' >= now
      BY <2>i, <3>1
    <3> QED
      BY <3>1, <3>2, <3>3, TokensStand
  <2>8. ASSUME NEW b \in Browsers, Connect(b) PROVE TokenInv'
    <3>1. sessions' = {u \in sessions : Alive(u)} /\ ended' = ended /\ issued' = issued /\ seen' = seen /\ now' = now
      BY <2>8 DEF Connect
    <3>2. /\ sessions' \subseteq sessions /\ ended \subseteq ended' /\ seen' \in [1..MaxTokens -> Nat]
          /\ (\A t \in 1..issued : seen'[t] # seen[t] => Alive(t) /\ t \in sessions')
          /\ \A t \in sessions \ sessions' : ~Alive(t) \/ t \in ended'
      BY <2>i, <3>1
    <3>3. now' \in Nat /\ now' >= now
      BY <2>i, <3>1
    <3> QED
      BY <3>1, <3>2, <3>3, TokensStand
  <2>9. ASSUME NEW b \in Browsers,
               \/ ProbeFails(b) \/ SubmitSetup(b) \/ SubmitLogin(b) \/ LoginWithoutSetup(b)
               \/ OpenStream(b) \/ MintFails(b) \/ Reconnect(b) \/ StreamBreaks(b) \/ CloseStream(b)
        PROVE TokenInv'
    <3>1. UNCHANGED tokens /\ now' = now
      BY <2>9 DEF ProbeFails, SubmitSetup, SubmitLogin, LoginWithoutSetup, OpenStream, MintFails, Reconnect,
                  StreamBreaks, CloseStream
    <3> QED
      BY <2>s, <3>1
  <2> QED
    BY <2>1, <2>2, <2>3, <2>4, <2>5, <2>6, <2>7, <2>8, <2>9 DEF AccessNext, StreamRetries
<1>3. TokenInv => TokensWork
  BY DEF TokenInv
<1> QED
  BY <1>1, <1>2, <1>3, PTL DEF AccessSpec

-----------------------------------------------------------------------------
(* The rate limiter: the inductive invariant.                               *)

KeysOf(p) == {k \in Addresses : p[k] # 0}
Distinct(p, K) == \A j, k \in K : p[j] = p[k] => j = k

\* The map is bounded, and the places are those of its keys.
Ranked(p) ==
  /\ p \in [Addresses -> Nat] /\ IsFiniteSet(KeysOf(p)) /\ Cardinality(KeysOf(p)) <= MaxKeys
  /\ Distinct(p, KeysOf(p)) /\ \A k \in KeysOf(p) : p[k] <= Cardinality(KeysOf(p))

\* A running window that was not lost has the bucket that counts it, and a
\* bucket outlives its window only as an expired one.
WindowKept(a) ==
  IF until[a] >= clock THEN HasBucket(a) /\ resetTime[a] = until[a] /\ count[a] = spent[a] /\ spent[a] <= LimitMax
  ELSE spent[a] <= LimitMax /\ (HasBucket(a) => Expired(a))

RateInv ==
  /\ clock \in Nat /\ Ranked(place)
  /\ count \in [Addresses -> Nat] /\ resetTime \in [Addresses -> Nat]
  /\ until \in [Addresses -> Nat] /\ spent \in [Addresses -> Nat]
  /\ \A a \in Addresses : a \notin lost => WindowKept(a)

LEMMA RateBegins == PerimeterInit => RateInv
<1> SUFFICES ASSUME PerimeterInit PROVE RateInv
  OBVIOUS
<1>1. LimitMax \in Nat /\ MaxKeys \in Nat
  BY PerimeterAssumption
<1>2. KeysOf(place) = {} /\ place \in [Addresses -> Nat]
  BY DEF PerimeterInit, KeysOf
<1>3. Ranked(place)
  BY <1>1, <1>2, FS_EmptySet DEF Ranked, Distinct
<1> QED
  BY <1>1, <1>3 DEF PerimeterInit, RateInv, WindowKept, HasBucket

\* Closing up the places of some keys keeps their order.
LEMMA KeptFacts ==
  ASSUME NEW p \in [Addresses -> Nat], NEW K \in SUBSET Addresses, IsFiniteSet(K), Distinct(p, K), NEW q, q = Kept(p, K)
  PROVE  /\ q \in [Addresses -> Nat] /\ KeysOf(q) = K /\ Distinct(q, K)
         /\ \A k \in K : q[k] <= Cardinality(K)
<1> DEFINE UpTo(k) == {j \in K : p[j] <= p[k]}
<1>1. ASSUME NEW k \in K
      PROVE  IsFiniteSet(UpTo(k)) /\ Cardinality(UpTo(k)) \in Nat /\ Cardinality(UpTo(k)) <= Cardinality(K) /\ Cardinality(UpTo(k)) # 0
  <2>1. UpTo(k) \in SUBSET K /\ k \in UpTo(k)
    OBVIOUS
  <2>2. IsFiniteSet(UpTo(k)) /\ Cardinality(UpTo(k)) <= Cardinality(K)
    BY <2>1, FS_Subset
  <2> HIDE DEF UpTo
  <2> QED
    BY <2>1, <2>2, FS_EmptySet, FS_CardinalityType
<1>2. \A k \in Addresses : q[k] = IF k \in K THEN Cardinality(UpTo(k)) ELSE 0
  BY DEF Kept
<1>3. ASSUME NEW j \in K, NEW k \in K, p[j] < p[k]
      PROVE  Cardinality(UpTo(j)) < Cardinality(UpTo(k))
  <2>1. UpTo(j) \in SUBSET (UpTo(k) \ {k}) /\ k \in UpTo(k)
    BY <1>3
  <2> HIDE DEF UpTo
  <2>2. IsFiniteSet(UpTo(k) \ {k}) /\ Cardinality(UpTo(k) \ {k}) = Cardinality(UpTo(k)) - 1
    BY <1>1, <2>1, FS_RemoveElement
  <2>3. Cardinality(UpTo(j)) <= Cardinality(UpTo(k) \ {k})
    BY <2>1, <2>2, FS_Subset
  <2> QED
    BY <1>1, <2>2, <2>3
<1>4. ASSUME NEW j \in K, NEW k \in K, j # k PROVE q[j] # q[k]
  <2>1. p[j] \in Nat /\ p[k] \in Nat /\ p[j] # p[k]
    BY <1>4 DEF Distinct
  <2>a. q[j] = Cardinality(UpTo(j)) /\ q[k] = Cardinality(UpTo(k))
    BY <1>2
  <2>b. Cardinality(UpTo(j)) \in Nat /\ Cardinality(UpTo(k)) \in Nat
    BY <1>1
  <2>c. p[j] < p[k] => Cardinality(UpTo(j)) < Cardinality(UpTo(k))
    BY <1>3
  <2>d. p[k] < p[j] => Cardinality(UpTo(k)) < Cardinality(UpTo(j))
    BY <1>3
  <2> HIDE DEF UpTo
  <2>2. CASE p[j] < p[k]
    BY <2>a, <2>b, <2>c, <2>2
  <2>3. CASE p[k] < p[j]
    BY <2>a, <2>b, <2>d, <2>3
  <2> QED
    BY <2>1, <2>2, <2>3
<1>5. q \in [Addresses -> Nat]
  <2>1. q = [k \in Addresses |-> IF k \in K THEN Cardinality(UpTo(k)) ELSE 0]
    BY DEF Kept
  <2>2. \A k \in Addresses : (IF k \in K THEN Cardinality(UpTo(k)) ELSE 0) \in Nat
    BY <1>1
  <2> QED
    BY <2>1, <2>2
<1>6. KeysOf(q) = K
  BY <1>1, <1>2 DEF KeysOf
<1>7. \A k \in K : q[k] <= Cardinality(K)
  BY <1>1, <1>2
<1> QED
  BY <1>4, <1>5, <1>6, <1>7 DEF Distinct

\* At most m elements have fewer than m above them.
LEMMA NewestFew ==
  ASSUME NEW p \in [Addresses -> Nat], NEW A \in SUBSET Addresses, IsFiniteSet(A), Distinct(p, A), NEW m \in Nat \ {0},
         NEW K, K = {k \in A : Cardinality({j \in A : p[j] > p[k]}) < m}
  PROVE  IsFiniteSet(K) /\ Cardinality(K) <= m
<1>1. K \in SUBSET A
  OBVIOUS
<1>2. IsFiniteSet(K) /\ Cardinality(K) \in Nat
  BY <1>1, FS_Subset, FS_CardinalityType
<1>3. CASE K = {}
  <2>1. Cardinality(K) = 0
    BY <1>3, FS_EmptySet
  <2> QED
    BY <1>2, <2>1
<1>4. CASE K # {}
  <2>1. PICK T : T = {p[k] : k \in K}
    OBVIOUS
  <2>2. T \subseteq Nat /\ T # {}
    BY <1>1, <1>4, <2>1
  <2>3. PICK b \in T : \A x \in T : b <= x
    BY <2>2, LeastOf
  <2>4. PICK k \in K : p[k] = b
    BY <2>1
  <2>5. PICK B : B = {j \in A : p[j] > p[k]}
    OBVIOUS
  <2>6. B \in SUBSET A /\ Cardinality(B) < m
    BY <1>1, <2>4, <2>5
  <2>7. ASSUME NEW j \in K \ {k} PROVE j \in B
    <3>1. p[j] \in T /\ p[j] \in Nat /\ p[k] \in Nat /\ j \in A /\ k \in A
      BY <1>1, <2>1
    <3>2. p[j] >= p[k] /\ p[j] # p[k]
      BY <2>3, <2>4, <2>7, <3>1 DEF Distinct
    <3> QED
      BY <2>5, <3>1, <3>2
  <2>8. K \ {k} \in SUBSET B
    BY <2>7
  <2>9. IsFiniteSet(B) /\ Cardinality(B) \in Nat
    BY <2>6, FS_Subset, FS_CardinalityType
  <2>10. Cardinality(K \ {k}) <= Cardinality(B)
    BY <2>8, <2>9, FS_Subset
  <2>11. Cardinality(K \ {k}) = Cardinality(K) - 1
    BY <1>2, <2>4, FS_RemoveElement
  <2> QED
    BY <1>2, <2>6, <2>9, <2>10, <2>11
<1> QED
  BY <1>3, <1>4

\* The map after a request: within its bound, and the bucket just set is in it.
LEMMA MapBounded ==
  ASSUME Ranked(place), NEW a \in Addresses, place' = Bounded(WithKey(a), a)
  PROVE  /\ Ranked(place') /\ place'[a] # 0
         /\ \A b \in Addresses : place'[b] # 0 => b = a \/ place[b] # 0
<1>0. MaxKeys \in Nat \ {0}
  BY PerimeterAssumption
<1>1. PICK o, p, q, n : o = place /\ p = WithKey(a) /\ q = place' /\ n = Cardinality(KeysOf(place))
  OBVIOUS
<1>2. /\ o \in [Addresses -> Nat] /\ IsFiniteSet(KeysOf(o)) /\ n <= MaxKeys /\ n = Cardinality(KeysOf(o))
      /\ Distinct(o, KeysOf(o)) /\ \A k \in KeysOf(o) : o[k] <= n
  BY <1>1 DEF Ranked
<1>3. n \in Nat
  BY <1>2, FS_CardinalityType
<1>4. p = IF o[a] # 0 THEN o ELSE [o EXCEPT ![a] = n + 1]
  BY <1>1 DEF WithKey, HasBucket, KeysOf
<1>5. PICK A : A = {k \in KeysOf(p) : k = a \/ ~Expired(k)}
  OBVIOUS
<1>6. PICK K : K = {k \in A : Cardinality({j \in A : p[j] > p[k]}) < MaxKeys}
  OBVIOUS
<1>7. q = IF Cardinality(KeysOf(p)) <= MaxKeys THEN p ELSE Kept(p, K)
  BY <1>1, <1>5, <1>6 DEF Bounded, KeysOf
<1>8. p \in [Addresses -> Nat] /\ p[a] # 0 /\ \A b \in Addresses : b # a => p[b] = o[b]
  BY <1>2, <1>3, <1>4
<1>9. KeysOf(p) = KeysOf(o) \cup {a} /\ (o[a] # 0 => KeysOf(p) = KeysOf(o))
  BY <1>4, <1>8 DEF KeysOf
<1>10. IsFiniteSet(KeysOf(p)) /\ Cardinality(KeysOf(p)) = IF o[a] # 0 THEN n ELSE n + 1
  <2>1. a \in KeysOf(o) <=> o[a] # 0
    BY DEF KeysOf
  <2> QED
    BY <1>2, <1>9, <2>1, FS_AddElement
<1>11. Distinct(p, KeysOf(p)) /\ \A k \in KeysOf(p) : p[k] <= Cardinality(KeysOf(p))
  <2>1. CASE o[a] # 0
    BY <1>2, <1>4, <1>10, <2>1
  <2>2. CASE o[a] = 0
    <3>1. p[a] = n + 1 /\ \A k \in KeysOf(p) : k = a \/ (k \in KeysOf(o) /\ p[k] = o[k] /\ o[k] <= n /\ o[k] \in Nat)
      BY <1>2, <1>4, <1>8, <1>9, <2>2 DEF KeysOf
    <3>2. Distinct(p, KeysOf(p))
      BY <1>2, <1>3, <3>1 DEF Distinct
    <3>3. \A k \in KeysOf(p) : p[k] <= n + 1
      BY <1>3, <3>1
    <3> QED
      BY <1>10, <2>2, <3>2, <3>3
  <2> QED
    BY <2>1, <2>2
<1>12. CASE Cardinality(KeysOf(p)) <= MaxKeys
  <2>1. q = p
    BY <1>7, <1>12
  <2>2. Ranked(q) /\ q[a] # 0
    BY <1>8, <1>10, <1>11, <1>12, <2>1 DEF Ranked
  <2>3. \A b \in Addresses : q[b] # 0 => b = a \/ o[b] # 0
    BY <1>8, <2>1
  <2> QED
    BY <1>1, <2>2, <2>3
<1>13. CASE ~(Cardinality(KeysOf(p)) <= MaxKeys)
  <2>1. q = Kept(p, K)
    BY <1>7, <1>13
  <2>2. o[a] = 0 /\ Cardinality(KeysOf(p)) = n + 1 /\ p[a] = n + 1
    BY <1>2, <1>4, <1>8, <1>10, <1>13
  <2>3. A \in SUBSET KeysOf(p) /\ A \in SUBSET Addresses /\ K \in SUBSET A /\ K \in SUBSET Addresses /\ a \in A
    BY <1>5, <1>6, <1>8 DEF KeysOf
  <2>4. IsFiniteSet(A) /\ Distinct(p, A) /\ Distinct(p, K)
    BY <1>10, <1>11, <2>3, FS_Subset DEF Distinct
  <2>5. IsFiniteSet(K) /\ Cardinality(K) <= MaxKeys
    BY <1>0, <1>6, <1>8, <2>3, <2>4, NewestFew
  <2>6. q \in [Addresses -> Nat] /\ KeysOf(q) = K /\ Distinct(q, K) /\ \A k \in K : q[k] <= Cardinality(K)
    BY <1>8, <2>1, <2>3, <2>4, <2>5, KeptFacts
  <2>7. a \in K
    <3>1. {j \in A : p[j] > p[a]} = {}
      BY <1>3, <1>8, <1>11, <2>2, <2>3
    <3>2. Cardinality({j \in A : p[j] > p[a]}) = 0
      BY <3>1, FS_EmptySet
    <3> QED
      BY <1>0, <1>6, <2>3, <3>2
  <2>8. Ranked(q)
    BY <2>5, <2>6 DEF Ranked
  <2>9. q[a] # 0
    BY <2>6, <2>7 DEF KeysOf
  <2>10. \A b \in Addresses : q[b] # 0 => b = a \/ o[b] # 0
    <3>1. \A b \in Addresses : q[b] # 0 => b \in KeysOf(p)
      BY <2>3, <2>6 DEF KeysOf
    <3> QED
      BY <1>9, <3>1 DEF KeysOf
  <2> QED
    BY <1>1, <2>8, <2>9, <2>10
<1> QED
  BY <1>12, <1>13

LEMMA RequestStep == ASSUME RateInv, NEW a \in Addresses, Request(a) PROVE RateInv'
<1>0. LimitMax \in Nat \ {0} /\ Window \in Nat \ {0}
  BY PerimeterAssumption
<1>1. /\ Counted(a) < LimitMax /\ count' = [count EXCEPT ![a] = Counted(a) + 1]
      /\ resetTime' = [resetTime EXCEPT ![a] = IF HasBucket(a) /\ ~Expired(a) THEN @ ELSE clock + Window]
      /\ place' = Bounded(WithKey(a), a)
      /\ until' = [until EXCEPT ![a] = IF @ < clock THEN clock + Window ELSE @]
      /\ spent' = [spent EXCEPT ![a] = IF a \in lost THEN 0 ELSE IF until[a] < clock THEN 1 ELSE @ + 1]
      /\ lost' = lost \cup {b \in Addresses : HasBucket(b) /\ until[b] >= clock /\ place'[b] = 0}
      /\ clock' = clock
  BY DEF Request
<1>2. /\ clock \in Nat /\ Ranked(place) /\ count \in [Addresses -> Nat] /\ resetTime \in [Addresses -> Nat]
      /\ until \in [Addresses -> Nat] /\ spent \in [Addresses -> Nat]
      /\ \A b \in Addresses : b \notin lost => WindowKept(b)
  BY DEF RateInv
<1>3. /\ Ranked(place') /\ place'[a] # 0
      /\ \A b \in Addresses : place'[b] # 0 => b = a \/ place[b] # 0
  BY <1>1, <1>2, MapBounded
<1>4. Counted(a) \in Nat
  BY <1>2 DEF Counted
<1>5. count' \in [Addresses -> Nat] /\ resetTime' \in [Addresses -> Nat] /\ until' \in [Addresses -> Nat] /\ spent' \in [Addresses -> Nat]
  BY <1>0, <1>1, <1>2, <1>4
<1>6. \A b \in Addresses \ {a} : count'[b] = count[b] /\ resetTime'[b] = resetTime[b] /\ until'[b] = until[b] /\ spent'[b] = spent[b]
  BY <1>1, <1>2
<1>7. ASSUME NEW b \in Addresses \ {a}, b \notin lost' PROVE WindowKept(b)'
  <2>1. WindowKept(b)
    BY <1>1, <1>2, <1>7
  <2>2. until[b] >= clock /\ place[b] # 0 => place'[b] # 0
    BY <1>1, <1>7 DEF HasBucket
  <2>3. place'[b] # 0 => place[b] # 0
    BY <1>3
  <2> QED
    BY <1>1, <1>6, <2>1, <2>2, <2>3 DEF WindowKept, HasBucket, Expired
<1>8. ASSUME a \notin lost' PROVE WindowKept(a)'
  <2>1. a \notin lost /\ WindowKept(a) /\ clock \in Nat /\ until[a] \in Nat /\ count[a] \in Nat /\ spent[a] \in Nat /\ resetTime[a] \in Nat
    BY <1>1, <1>2, <1>8
  <2>2. CASE until[a] >= clock
    <3>1. HasBucket(a) /\ resetTime[a] = until[a] /\ count[a] = spent[a] /\ ~Expired(a) /\ ~(until[a] < clock)
      BY <2>1, <2>2 DEF WindowKept, Expired
    <3>2. Counted(a) = spent[a] /\ spent[a] + 1 <= LimitMax
      BY <1>0, <1>1, <2>1, <3>1 DEF Counted
    <3>3. until'[a] = until[a] /\ resetTime'[a] = until[a] /\ count'[a] = spent[a] + 1 /\ spent'[a] = spent[a] + 1
      BY <1>1, <1>2, <2>1, <3>1, <3>2
    <3> QED
      BY <1>1, <1>3, <2>2, <3>2, <3>3 DEF WindowKept, HasBucket
  <2>3. CASE ~(until[a] >= clock)
    <3>1. Counted(a) = 0 /\ ~(HasBucket(a) /\ ~Expired(a)) /\ until[a] < clock
      BY <2>1, <2>3 DEF WindowKept, Counted
    <3>2. until'[a] = clock + Window /\ resetTime'[a] = clock + Window /\ count'[a] = 1 /\ spent'[a] = 1
      BY <1>1, <1>2, <2>1, <3>1
    <3> QED
      BY <1>0, <1>1, <1>3, <2>1, <3>2 DEF WindowKept, HasBucket
  <2> QED
    BY <2>2, <2>3
<1>9. \A b \in Addresses : b \notin lost' => WindowKept(b)'
  BY <1>7, <1>8
<1> QED
  BY <1>1, <1>2, <1>3, <1>5, <1>9 DEF RateInv

LEMMA RateSteps == RateInv /\ [PerimeterNext]_pvars => RateInv'
<1> SUFFICES ASSUME RateInv, [PerimeterNext]_pvars PROVE RateInv'
  OBVIOUS
<1>1. CASE ClockTicks
  <2>1. clock' = clock + 1 /\ UNCHANGED <<place, count, resetTime, until, spent, lost>>
    BY <1>1 DEF ClockTicks
  <2>2. ASSUME NEW a \in Addresses, a \notin lost PROVE WindowKept(a)'
    <3>1. WindowKept(a) /\ clock \in Nat /\ until[a] \in Nat /\ resetTime[a] \in Nat
      BY <2>2 DEF RateInv
    <3>2. CASE until[a] >= clock + 1
      BY <2>1, <3>1, <3>2 DEF WindowKept, HasBucket
    <3>3. CASE until[a] = clock
      BY <2>1, <3>1, <3>3 DEF WindowKept, HasBucket, Expired
    <3>4. CASE until[a] < clock
      BY <2>1, <3>1, <3>4 DEF WindowKept, HasBucket, Expired
    <3> QED
      BY <3>1, <3>2, <3>3, <3>4
  <2> QED
    BY <2>1, <2>2 DEF RateInv
<1>2. ASSUME NEW a \in Addresses, Request(a) PROVE RateInv'
  BY <1>2, RequestStep
<1>3. CASE UNCHANGED pvars
  BY <1>3 DEF RateInv, WindowKept, HasBucket, Expired, pvars
<1> QED
  BY <1>1, <1>2, <1>3 DEF PerimeterNext

(* The map of the rate limiter never outgrows its bound, and an address     *)
(* that never lost a running window gets LimitMax requests in each          *)
(* (rateLimitMiddleware and boundRateLimits, perimeter.ts).                 *)
THEOREM RatesAreHeld == PerimeterSpec => []RateHeld
<1>1. PerimeterInit => RateInv
  BY RateBegins
<1>2. RateInv /\ [PerimeterNext]_pvars => RateInv'
  BY RateSteps
<1>3. RateInv => RateHeld
  <2> SUFFICES ASSUME RateInv PROVE RateHeld
    OBVIOUS
  <2>1. {a \in Addresses : HasBucket(a)} = KeysOf(place)
    BY DEF HasBucket, KeysOf
  <2> QED
    BY <2>1 DEF RateInv, RateHeld, Ranked, WindowKept
<1> QED
  BY <1>1, <1>2, <1>3, PTL DEF PerimeterSpec
=============================================================================
