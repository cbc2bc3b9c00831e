--------------------------- MODULE NodeSyncProofs ---------------------------
(***************************************************************************)
(* On a link that stays up the sync loses no event, and the copy of a row  *)
(* never goes back: proofs for any number of nodes, rows and sockets, any  *)
(* bounded set of authenticated peers, any breaks and restarts.            *)
(***************************************************************************)
EXTENDS NodeSyncProperties, FiniteSetTheorems, SequenceTheorems, WellFoundedInduction, TLAPS

USE SyncAssumption

-----------------------------------------------------------------------------
(* The inductive invariant.                                                *)

Events == Seq([row : Rows, at : 0..MaxTime, skipped : BOOLEAN])
Channels == [Links -> [Nodes -> Seq(Frames)]]

\* The types of everything but the rows.
NetTypeOK ==
    /\ now \in 0..MaxTime
    /\ log \in [Nodes -> Events]
    /\ watermark \in [Nodes -> 0..MaxTime]
    /\ phase \in [Links -> Phases]
    /\ active \in [Nodes -> SUBSET Links]
    /\ authed \in [Nodes -> Seq(Nodes \cup Links)]
    /\ pending \in [Nodes -> SUBSET Links]
    /\ chan \in Channels
    /\ seen \in [Nodes -> SUBSET (Nodes \X (1..MaxEdits))]
    /\ since \in [Nodes -> [Links -> 0..MaxEdits]]
    /\ \A n \in Nodes : IsInjective(authed[n])
    /\ \A n \in Nodes : \A l \in active[n] : n \in Ends(l)

\* A log never runs ahead of the clock, nor backwards.
ClockInv ==
    \A n \in Nodes :
        /\ watermark[n] <= now /\ Len(log[n]) <= MaxEdits
        /\ \A i \in DOMAIN log[n] : log[n][i].at <= now
        /\ \A i, j \in DOMAIN log[n] : i <= j => log[n][i].at <= log[n][j].at

\* What is under way on a socket that is not up: at most the challenge of the
\* acceptor.
PhaseOf(l) ==
    /\ phase[l] \in {"unused", "dialing", "down", "gone"} =>
          \A n \in Nodes : chan[l][n] = <<>>
    /\ phase[l] = "accepted" =>
          /\ chan[l][Dialer[l]] = <<[type |-> "challenge"]>>
          /\ chan[l][Acceptor[l]] = <<>>
          /\ l \in active[Acceptor[l]]
    /\ phase[l] \in {"unused", "dialing", "accepted"} =>
          \A n \in Nodes : since[n][l] = MaxEdits
PhaseInv == \A l \in Links : PhaseOf(l)

\* Whose authentication a label stands for: that of an incoming socket, of a
\* dialed one whose close has not been noticed, or of one dialed by hand.
Backed(n, x) ==
    \/ x \in Links /\ n = Acceptor[x] /\ phase[x] \in {"up", "down", "gone"}
    \/ \E k \in Links :
          /\ n = Dialer[k] /\ x = Acceptor[k]
          /\ phase[k] \in {"up", "down"} \/ (k \in Manual /\ phase[k] = "gone")
AuthInv == \A n \in Nodes : \A x \in Range(authed[n]) : Backed(n, x)

Rivals(l) == SameLabel(Dialer[l], l) \ {l}
Registered(l) == l \in active[Dialer[l]] /\ l \in active[Acceptor[l]]
NoRival(l) == \A k \in Rivals(l) : phase[k] \in {"unused", "gone"}

\* The handshake towards n.  The challenge is the first frame on its way and
\* comes before the authentication; until n has authenticated the other end,
\* the proof is on its way unless that end has still to be challenged, and
\* offers and deltas follow the proof.
Among(q, type) == \E i \in DOMAIN q : q[i].type = type
Clean(q) == ~Among(q, "challenge")
Waiting(q) ==
    \A i \in DOMAIN q :
        /\ q[i].type = "challenge" => i = 1
        /\ q[i].type \in {"offer", "delta"} => \E j \in 1..i - 1 : q[j].type = "auth"
Shaken(l, n) ==
    IF Authed(n, l) THEN Clean(chan[l][n])
    ELSE /\ Waiting(chan[l][n])
         /\ Among(chan[l][n], "auth") \/ Among(chan[l][Other(l, n)], "challenge")

\* The k-th event of n has been told on l or will be.
ToldOne(l, n, k) ==
    \/ log[n][k].skipped
    \/ log[n][k].at > watermark[n]
    \/ Carries(l, Other(l, n), k)
    \/ <<n, k>> \in seen[Other(l, n)]
Told(l, n) ==
    /\ since[n][l] # MaxEdits => Authed(n, l)
    /\ \A k \in since[n][l] + 1..Len(log[n]) : ToldOne(l, n, k)

LinkSound(l) ==
    /\ Registered(l) /\ NoRival(l)
    /\ \A n \in Ends(l) : Shaken(l, n)
    /\ \A n \in Ends(l) : Told(l, n)
LinkInv == \A l \in Links \ Confused : phase[l] = "up" => LinkSound(l)

NetInv == NetTypeOK /\ ClockInv
IInv == NetInv /\ PhaseInv /\ AuthInv /\ LinkInv

-----------------------------------------------------------------------------
(* Links, labels and frames.                                               *)

LEMMA Joined ==
  ASSUME NEW l \in Links
  PROVE  /\ Dialer[l] \in Nodes /\ Acceptor[l] \in Nodes /\ Dialer[l] # Acceptor[l]
         /\ Ends(l) = {Dialer[l], Acceptor[l]} /\ Ends(l) \subseteq Nodes
         /\ \A n \in Ends(l) : /\ Other(l, n) \in Ends(l) /\ Other(l, n) # n
                               /\ Other(l, Other(l, n)) = n
                               /\ Label(n, l) \in Nodes \cup Links
                               /\ l \in SameLabel(n, l)
BY DEF Ends, Other, Label, SameLabel

\* Two sockets have one label at a node only if it dialed both, and to one address.
LEMMA Labels ==
  ASSUME NEW k \in Links, NEW l \in Links, NEW n \in Nodes, n \in Ends(k), n \in Ends(l),
         k # l
  PROVE  Label(n, k) = Label(n, l) <=>
           n = Dialer[k] /\ n = Dialer[l] /\ Acceptor[k] = Acceptor[l]
BY DEF Ends, Label

LEMMA RivalFacts ==
  ASSUME NEW l \in Links, NEW k \in Links
  PROVE  /\ k \in Rivals(l) <=>
               k # l /\ Dialer[k] = Dialer[l] /\ Acceptor[k] = Acceptor[l]
         /\ k \in Rivals(l) => l \in Rivals(k) /\ Ends(k) = Ends(l)
BY Joined, Labels DEF Rivals, SameLabel, Ends, Label

LEMMA FrameFacts ==
  /\ [type |-> "challenge"] \in Frames /\ [type |-> "auth"] \in Frames
  /\ \A t \in 0..MaxTime : [type |-> "offer", after |-> t] \in Frames
  /\ \A f, t \in 0..MaxEdits : [type |-> "delta", from |-> f, to |-> t] \in Frames
  /\ \A f \in Frames :
       /\ f.type \in {"challenge", "auth", "offer", "delta"}
       /\ f.type = "offer" => f.after \in 0..MaxTime
       /\ f.type = "delta" => f.from \in 0..MaxEdits /\ f.to \in 0..MaxEdits
BY DEF Frames

LEMMA Pushing ==
  ASSUME NEW c \in Channels, NEW l \in Links, NEW n \in Nodes, NEW f \in Frames
  PROVE  /\ Push(c, l, n, f) \in Channels
         /\ Push(c, l, n, f)[l][n] = Append(c[l][n], f)
         /\ \A m \in Nodes \ {n} : Push(c, l, n, f)[l][m] = c[l][m]
         /\ \A k \in Links \ {l} : Push(c, l, n, f)[k] = c[k]
BY DEF Push, Channels

LEMMA Consuming ==
  ASSUME NetTypeOK, NEW l \in Links, NEW n \in Nodes, chan[l][n] # <<>>
  PROVE  /\ Consumed(n, l) \in Channels
         /\ Consumed(n, l)[l][n] = Tail(chan[l][n])
         /\ \A m \in Nodes \ {n} : Consumed(n, l)[l][m] = chan[l][m]
         /\ \A k \in Links \ {l} : Consumed(n, l)[k] = chan[k]
BY DEF Consumed, NetTypeOK, Channels

LEMMA FrontFacts ==
  ASSUME NetTypeOK, NEW l \in Links, NEW n \in Nodes, chan[l][n] # <<>>
  PROVE  /\ Head(chan[l][n]) \in Frames /\ Head(chan[l][n]) = chan[l][n][1]
         /\ chan[l][n] \in Seq(Frames) /\ 1 \in DOMAIN chan[l][n]
BY DEF NetTypeOK, Channels

LEMMA Hanging ==
  ASSUME NetTypeOK, NEW l \in Links, Hangup(l)
  PROVE  /\ phase' \in [Links -> Phases] /\ chan' \in Channels
         /\ phase'[l] = "down" /\ \A n \in Nodes : chan'[l][n] = <<>>
         /\ \A k \in Links \ {l} : phase'[k] = phase[k] /\ chan'[k] = chan[k]
<1>1. [n \in Nodes |-> <<>>] \in [Nodes -> Seq(Frames)]
  OBVIOUS
<1> DEFINE silence == [n \in Nodes |-> <<>>]
<1>2. \A n \in Nodes : silence[n] = <<>>
  OBVIOUS
<1> HIDE DEF silence
<1>3. /\ phase' = [phase EXCEPT ![l] = "down"] /\ chan' = [chan EXCEPT ![l] = silence]
      /\ phase \in [Links -> Phases] /\ chan \in [Links -> [Nodes -> Seq(Frames)]]
  BY DEF Hangup, NetTypeOK, Channels, silence
<1>4. silence \in [Nodes -> Seq(Frames)]
  BY <1>1 DEF silence
<1>5. "down" \in Phases
  BY DEF Phases
<1> QED
  BY <1>2, <1>3, <1>4, <1>5 DEF Channels

-----------------------------------------------------------------------------
(* The bounded set of authenticated labels.                                *)

LEMMA RangeOf ==
  ASSUME NEW S, NEW s \in Seq(S)
  PROVE  \A x : x \in Range(s) <=> \E i \in 1..Len(s) : s[i] = x
BY DEF Range

LEMMA Elements ==
  ASSUME NEW S, NEW s \in Seq(S)
  PROVE  /\ Len(s) \in Nat /\ DOMAIN s = 1..Len(s)
         /\ \A i \in 1..Len(s) : s[i] \in S
OBVIOUS

LEMMA Cutting ==
  ASSUME NEW S, NEW s \in Seq(S), NEW i \in 1..Len(s)
  PROVE  /\ RemoveAt(s, i) \in Seq(S) /\ Len(RemoveAt(s, i)) = Len(s) - 1
         /\ \A j \in 1..Len(RemoveAt(s, i)) :
               /\ j < i => RemoveAt(s, i)[j] = s[j]
               /\ j >= i => RemoveAt(s, i)[j] = s[j + 1]
<1> DEFINE a == SubSeq(s, 1, i - 1)
           b == SubSeq(s, i + 1, Len(s))
           t == a \o b
<1>0. Len(s) \in Nat /\ i \in Nat /\ i >= 1 /\ i <= Len(s)
  OBVIOUS
<1>1. /\ a \in Seq(S) /\ Len(a) = i - 1
      /\ \A j \in 1..(i - 1) : a[j] = s[j]
  OBVIOUS
<1>2. /\ b \in Seq(S) /\ Len(b) = Len(s) - i
      /\ \A j \in 1..(Len(s) - i) : b[j] = s[i + j]
  OBVIOUS
<1> HIDE DEF a, b
<1>3. a \in Seq(S) /\ b \in Seq(S) /\ Len(a) \in Nat /\ Len(b) \in Nat
  BY <1>1, <1>2
<1>4. /\ t \in Seq(S) /\ Len(t) = Len(a) + Len(b)
      /\ \A j \in 1..Len(a) : t[j] = a[j]
      /\ \A j \in 1..Len(b) : t[Len(a) + j] = b[j]
  <2>1. t \in Seq(S) /\ Len(t) = Len(a) + Len(b)
    BY <1>3
  <2>2. ASSUME NEW j \in 1..Len(a) PROVE t[j] = a[j]
    BY <1>3
  <2>3. ASSUME NEW j \in 1..Len(b) PROVE t[Len(a) + j] = b[j]
    BY <1>3
  <2> QED
    BY <2>1, <2>2, <2>3
<1> HIDE DEF t
<1>5. Len(t) = Len(s) - 1
  BY <1>0, <1>1, <1>2, <1>4
<1>6. ASSUME NEW j \in 1..Len(t), j < i PROVE t[j] = s[j]
  BY <1>0, <1>1, <1>4, <1>6
<1>7. ASSUME NEW j \in 1..Len(t), j >= i PROVE t[j] = s[j + 1]
  <2>1. PICK k \in 1..(Len(s) - i) : j = Len(a) + k /\ j + 1 = i + k
    <3>1. j - Len(a) \in 1..(Len(s) - i) /\ j = Len(a) + (j - Len(a)) /\ j + 1 = i + (j - Len(a))
      BY <1>0, <1>1, <1>5, <1>7
    <3> QED
      BY <3>1
  <2>2. k \in 1..Len(b)
    BY <1>2, <2>1
  <2> QED
    BY <2>1, <2>2, <1>2, <1>4
<1>8. t = RemoveAt(s, i)
  BY DEF t, a, b, RemoveAt
<1> QED
  BY <1>4, <1>5, <1>6, <1>7, <1>8

LEMMA Removing ==
  ASSUME NEW S, NEW s \in Seq(S), IsInjective(s), NEW x \in S
  PROVE  /\ RemoveFirst(s, x) \in Seq(S) /\ IsInjective(RemoveFirst(s, x))
         /\ Range(RemoveFirst(s, x)) = Range(s) \ {x}
<1>1. CASE ~ \E i \in 1..Len(s) : s[i] = x
  BY <1>1 DEF RemoveFirst, Range
<1>2. CASE \E i \in 1..Len(s) : s[i] = x
  <2>1. PICK i \in 1..Len(s) : s[i] = x
    BY <1>2
  <2>2. \A j \in 1..Len(s) : s[j] = x => j = i
    BY <2>1 DEF IsInjective
  <2>3. {j \in 1..Len(s) : s[j] = x} = {i}
    BY <2>1, <2>2
  <2>4. Min({i}) = i
    BY DEF Min
  <2>5. SelectInSeq(s, LAMBDA v : v = x) = i
    BY <2>3, <2>4 DEF SelectInSeq
  <2>6. RemoveFirst(s, x) = RemoveAt(s, i)
    BY <1>2, <2>5 DEF RemoveFirst
  <2> DEFINE t == RemoveAt(s, i)
  <2>7. /\ t \in Seq(S) /\ Len(t) = Len(s) - 1
        /\ \A j \in 1..Len(t) : /\ j < i => t[j] = s[j]
                                /\ j >= i => t[j] = s[j + 1]
    BY <2>1, Cutting
  <2> HIDE DEF t
  <2>8. IsInjective(t)
    <3> SUFFICES ASSUME NEW j \in 1..Len(t), NEW k \in 1..Len(t), t[j] = t[k], j # k
                 PROVE  FALSE
      <4>1. DOMAIN t = 1..Len(t)
        BY <2>7
      <4> QED
        BY <4>1, Zenon DEF IsInjective
    <3>1. \A a, b \in 1..Len(s) : s[a] = s[b] => a = b
      <4>1. DOMAIN s = 1..Len(s)
        OBVIOUS
      <4> QED
        BY <4>1, Zenon DEF IsInjective
    <3>2. j + 1 \in 1..Len(s) /\ k + 1 \in 1..Len(s) /\ j \in 1..Len(s) /\ k \in 1..Len(s)
      BY <2>7
    <3>3. t[j] = (IF j < i THEN s[j] ELSE s[j + 1]) /\ t[k] = (IF k < i THEN s[k] ELSE s[k + 1])
      BY <2>1, <2>7, <3>2
    <3>4. CASE j < i /\ k < i
      BY <3>1, <3>2, <3>3, <3>4
    <3>5. CASE j < i /\ ~(k < i)
      <4>1. j = k + 1
        BY <3>1, <3>2, <3>3, <3>5
      <4> QED
        BY <2>1, <3>2, <3>5, <4>1
    <3>6. CASE ~(j < i) /\ k < i
      <4>1. k = j + 1
        BY <3>1, <3>2, <3>3, <3>6
      <4> QED
        BY <2>1, <3>2, <3>6, <4>1
    <3>7. CASE ~(j < i) /\ ~(k < i)
      <4>1. j + 1 = k + 1
        BY <3>1, <3>2, <3>3, <3>7
      <4> QED
        BY <3>2, <4>1
    <3> QED
      BY <3>4, <3>5, <3>6, <3>7
  <2>9. ASSUME NEW y PROVE y \in Range(t) <=> y \in Range(s) \ {x}
    <3>1. ASSUME NEW j \in 1..Len(t), t[j] = y PROVE y \in Range(s) \ {x}
      BY <2>1, <2>2, <2>7, <3>1, RangeOf
    <3>2. ASSUME NEW j \in 1..Len(s), s[j] = y, y # x PROVE \E k \in 1..Len(t) : t[k] = y
      <4>1. CASE j < i
        BY <2>7, <3>2, <4>1
      <4>2. CASE j > i
        <5>1. PICK k \in 1..Len(t) : k >= i /\ k + 1 = j
          <6>1. j - 1 \in 1..Len(t) /\ j - 1 >= i /\ (j - 1) + 1 = j
            BY <2>1, <2>7, <4>2
          <6> QED
            BY <6>1
        <5> QED
          BY <2>7, <3>2, <5>1
      <4> QED
        BY <2>1, <3>2, <4>1, <4>2
    <3> QED
      BY <2>7, <3>1, <3>2, RangeOf
  <2> QED
    BY <2>6, <2>7, <2>8, <2>9 DEF t
<1> QED
  BY <1>1, <1>2

LEMMA Admitting ==
  ASSUME NEW S, NEW s \in Seq(S), IsInjective(s), NEW x \in S
  PROVE  /\ Admit(s, x) \in Seq(S) /\ IsInjective(Admit(s, x))
         /\ x \in Range(Admit(s, x))
         /\ Range(Admit(s, x)) \subseteq Range(s) \cup {x}
<1>1. CASE x \in Range(s)
  <2>1. Admit(s, x) = s
    BY <1>1 DEF Admit
  <2> QED
    BY <1>1, <2>1
<1>2. ASSUME NEW r \in Seq(S), IsInjective(r), Range(r) \subseteq Range(s), x \notin Range(r)
      PROVE  /\ Append(r, x) \in Seq(S) /\ IsInjective(Append(r, x))
             /\ x \in Range(Append(r, x)) /\ Range(Append(r, x)) \subseteq Range(s) \cup {x}
  <2>1. /\ Append(r, x) \in Seq(S) /\ Len(Append(r, x)) = Len(r) + 1 /\ Len(r) \in Nat
        /\ \A i \in 1..Len(r) : Append(r, x)[i] = r[i]
        /\ Append(r, x)[Len(r) + 1] = x
    OBVIOUS
  <2>2. \A i \in 1..Len(r) : r[i] # x
    BY <1>2, RangeOf
  <2>3. IsInjective(Append(r, x))
    <3> SUFFICES ASSUME NEW j \in 1..(Len(r) + 1), NEW k \in 1..(Len(r) + 1),
                        Append(r, x)[j] = Append(r, x)[k], j # k
                 PROVE  FALSE
      BY <2>1 DEF IsInjective
    <3> QED
      BY <1>2, <2>1, <2>2 DEF IsInjective
  <2>4. x \in Range(Append(r, x))
    BY <2>1 DEF Range
  <2>5. ASSUME NEW i \in 1..(Len(r) + 1) PROVE Append(r, x)[i] \in Range(s) \cup {x}
    <3>1. CASE i = Len(r) + 1
      BY <2>1, <3>1
    <3>2. CASE i # Len(r) + 1
      <4>1. i \in 1..Len(r)
        BY <2>1, <3>2
      <4>2. r[i] \in Range(r)
        BY <4>1, RangeOf
      <4> QED
        BY <1>2, <2>1, <4>1, <4>2
    <3> QED
      BY <3>1, <3>2
  <2>6. Range(Append(r, x)) \subseteq Range(s) \cup {x}
    BY <2>1, <2>5 DEF Range
  <2> QED
    BY <2>1, <2>3, <2>4, <2>6
<1>3. CASE x \notin Range(s) /\ Len(s) >= MaxAuthenticated
  <2>1. s # <<>> /\ Len(s) \in Nat /\ Len(s) > 0
    BY <1>3
  <2>2. /\ Tail(s) \in Seq(S) /\ Len(Tail(s)) = Len(s) - 1
        /\ \A i \in 1..Len(Tail(s)) : Tail(s)[i] = s[i + 1] /\ i + 1 \in 1..Len(s)
    BY <2>1
  <2>3. IsInjective(Tail(s))
    BY <2>1, <2>2 DEF IsInjective
  <2>4. Range(Tail(s)) \subseteq Range(s)
    <3> SUFFICES ASSUME NEW y \in Range(Tail(s)) PROVE y \in Range(s)
      OBVIOUS
    <3>1. PICK t \in Seq(S) : t = Tail(s)
      BY <2>2
    <3>2. PICK i \in 1..Len(t) : t[i] = y
      BY <3>1, RangeOf
    <3>3. i + 1 \in 1..Len(s) /\ s[i + 1] = y
      BY <2>2, <3>1, <3>2
    <3> QED
      BY <3>3, RangeOf
  <2>5. Admit(s, x) = Append(Tail(s), x)
    BY <1>3 DEF Admit
  <2> QED
    BY <1>2, <1>3, <2>2, <2>3, <2>4, <2>5
<1>4. CASE x \notin Range(s) /\ ~(Len(s) >= MaxAuthenticated)
  <2>1. Admit(s, x) = Append(s, x)
    BY <1>4 DEF Admit
  <2> QED
    BY <1>2, <1>4, <2>1
<1> QED
  BY <1>1, <1>3, <1>4

-----------------------------------------------------------------------------
(* Packets.  The events of n not later than t are the first of its log.    *)

LEMMA PacketFacts ==
  ASSUME NetInv, NEW n \in Nodes, NEW t \in Nat
  PROVE  /\ UpTo(n, t) \in 0..Len(log[n]) /\ Len(log[n]) \in 0..MaxEdits
         /\ DeltasAfter(n, t) \in Frames
         /\ DeltasAfter(n, t).type = "delta"
         /\ DeltasAfter(n, t).from = UpTo(n, t) /\ DeltasAfter(n, t).to = Len(log[n])
         /\ \A k \in 1..Len(log[n]) : log[n][k].at > t => UpTo(n, t) < k
<1> DEFINE early == {k \in DOMAIN log[n] : log[n][k].at <= t}
<1>1. /\ log[n] \in Events /\ Len(log[n]) \in Nat /\ DOMAIN log[n] = 1..Len(log[n])
      /\ Len(log[n]) <= MaxEdits
      /\ \A i \in 1..Len(log[n]) : log[n][i].at \in Nat
      /\ \A i, j \in 1..Len(log[n]) : i <= j => log[n][i].at <= log[n][j].at
  <2>1. log[n] \in Events
    BY DEF NetInv, NetTypeOK
  <2>2. /\ Len(log[n]) \in Nat /\ DOMAIN log[n] = 1..Len(log[n])
        /\ \A i \in 1..Len(log[n]) : log[n][i].at \in 0..MaxTime
    <3> DEFINE Event == [row : Rows, at : 0..MaxTime, skipped : BOOLEAN]
    <3>1. \A e \in Event : e.at \in 0..MaxTime
      OBVIOUS
    <3>2. log[n] \in Seq(Event)
      BY <2>1 DEF Events
    <3> HIDE DEF Event
    <3> QED
      BY <3>1, <3>2, Elements
  <2> QED
    BY <2>1, <2>2 DEF NetInv, ClockInv
<1>2. \A m \in Nat : IsFiniteSet(1..m) /\ Cardinality(1..m) = m
  BY FS_Interval
<1>3. \A m \in Nat : early \subseteq 1..m => Cardinality(early) \in Nat /\ Cardinality(early) <= m
  BY <1>2, FS_Subset, FS_CardinalityType
<1>4. Cardinality(early) \in 0..Len(log[n])
  BY <1>1, <1>3
<1>5. ASSUME NEW k \in 1..Len(log[n]), log[n][k].at > t
      PROVE  Cardinality(early) < k
  <2>1. early \subseteq 1..(k - 1)
    BY <1>1, <1>5
  <2>2. k - 1 \in Nat
    OBVIOUS
  <2> HIDE DEF early
  <2>3. Cardinality(early) \in Nat /\ Cardinality(early) <= k - 1
    BY <1>3, <2>1, <2>2
  <2> QED
    BY <2>3
<1>6. UpTo(n, t) = Cardinality(early)
  BY DEF UpTo
<1> HIDE DEF early
<1>7. UpTo(n, t) \in 0..MaxEdits /\ Len(log[n]) \in 0..MaxEdits
  BY <1>1, <1>4, <1>6
<1> QED
  BY <1>1, <1>4, <1>5, <1>6, <1>7, FrameFacts DEF DeltasAfter

-----------------------------------------------------------------------------
(* What each kind of step does to the channels.                            *)

LEMMA PollSends ==
  ASSUME NetInv, NEW n \in Nodes, Poll(n)
  PROVE  /\ chan' \in Channels /\ Len(log[n]) > 0
         /\ watermark[n] \in Nat
         /\ \A l \in Links : \A m \in Nodes :
              chan'[l][m] = IF l \in Recipients(n) /\ phase[l] = "up" /\ m = Other(l, n)
                            THEN Append(chan[l][m], DeltasAfter(n, watermark[n])) ELSE chan[l][m]
<1> DEFINE packet == DeltasAfter(n, watermark[n])
<1>1. watermark[n] \in Nat
  BY DEF NetInv, NetTypeOK
<1>2. packet \in Frames /\ packet.from < packet.to /\ packet.from \in Nat /\ packet.to = Len(log[n])
  <2>1. UpTo(n, watermark[n]) \in 0..Len(log[n]) /\ Len(log[n]) \in 0..MaxEdits
    BY <1>1, PacketFacts
  <2>2. packet.from < packet.to
    BY DEF Poll
  <2>3. packet \in Frames /\ packet.from = UpTo(n, watermark[n]) /\ packet.to = Len(log[n])
    BY <1>1, PacketFacts
  <2> HIDE DEF packet
  <2> QED
    BY <2>1, <2>2, <2>3
<1>3. chan' = [l \in Links |-> IF l \in Recipients(n) /\ phase[l] = "up"
                             THEN Push(chan, l, Other(l, n), packet)[l] ELSE chan[l]]
  BY DEF Poll
<1> HIDE DEF packet
<1>4. chan \in Channels /\ chan \in [Links -> [Nodes -> Seq(Frames)]]
  BY DEF NetInv, NetTypeOK, Channels
<1>5. ASSUME NEW l \in Links
      PROVE  /\ chan'[l] \in [Nodes -> Seq(Frames)]
             /\ \A m \in Nodes :
                  chan'[l][m] = IF l \in Recipients(n) /\ phase[l] = "up" /\ m = Other(l, n)
                                THEN Append(chan[l][m], packet) ELSE chan[l][m]
  <2>1. Other(l, n) \in Nodes
    BY Joined DEF Other
  <2>2. /\ Push(chan, l, Other(l, n), packet) \in [Links -> [Nodes -> Seq(Frames)]]
        /\ Push(chan, l, Other(l, n), packet)[l][Other(l, n)] = Append(chan[l][Other(l, n)], packet)
        /\ \A m \in Nodes \ {Other(l, n)} : Push(chan, l, Other(l, n), packet)[l][m] = chan[l][m]
    <3>1. /\ Push(chan, l, Other(l, n), packet) \in Channels
          /\ Push(chan, l, Other(l, n), packet)[l][Other(l, n)] = Append(chan[l][Other(l, n)], packet)
          /\ \A m \in Nodes \ {Other(l, n)} : Push(chan, l, Other(l, n), packet)[l][m] = chan[l][m]
      BY <1>2, <1>4, <2>1, Pushing
    <3> QED
      BY <3>1 DEF Channels
  <2>3. CASE l \in Recipients(n) /\ phase[l] = "up"
    BY <1>3, <2>1, <2>2, <2>3
  <2>4. CASE ~(l \in Recipients(n) /\ phase[l] = "up")
    BY <1>3, <1>4, <2>4
  <2> QED
    BY <2>3, <2>4
<1>6. chan' \in Channels
  BY <1>3, <1>5 DEF Channels
<1> QED
  BY <1>1, <1>2, <1>5, <1>6 DEF packet

\* A frame is read, and f is sent to the other end.
LEMMA Answering ==
  ASSUME NetTypeOK, NEW l \in Links, NEW n \in Ends(l), chan[l][n] # <<>>, NEW f \in Frames,
         chan' = Push(Consumed(n, l), l, Other(l, n), f)
  PROVE  /\ chan' \in Channels
         /\ chan'[l][n] = Tail(chan[l][n])
         /\ chan'[l][Other(l, n)] = Append(chan[l][Other(l, n)], f)
         /\ \A k \in Links \ {l} : chan'[k] = chan[k]
<1>1. n \in Nodes /\ Other(l, n) \in Nodes \ {n}
  BY Joined
<1>2. /\ Consumed(n, l) \in Channels
      /\ Consumed(n, l)[l][n] = Tail(chan[l][n])
      /\ Consumed(n, l)[l][Other(l, n)] = chan[l][Other(l, n)]
      /\ \A k \in Links \ {l} : Consumed(n, l)[k] = chan[k]
  BY <1>1, Consuming
<1>3. /\ chan' \in Channels
      /\ chan'[l][Other(l, n)] = Append(Consumed(n, l)[l][Other(l, n)], f)
      /\ \A m \in Nodes \ {Other(l, n)} : chan'[l][m] = Consumed(n, l)[l][m]
      /\ \A k \in Links \ {l} : chan'[k] = Consumed(n, l)[k]
  <2>1. PICK c \in Channels : c = Consumed(n, l)
    BY <1>2
  <2>2. PICK o \in Nodes : o = Other(l, n)
    BY <1>1
  <2>3. chan' = Push(c, l, o, f)
    BY <2>1, <2>2
  <2>4. /\ Push(c, l, o, f) \in Channels
        /\ Push(c, l, o, f)[l][o] = Append(c[l][o], f)
        /\ \A m \in Nodes \ {o} : Push(c, l, o, f)[l][m] = c[l][m]
        /\ \A k \in Links \ {l} : Push(c, l, o, f)[k] = c[k]
    BY ONLY l \in Links, f \in Frames, <2>1, <2>2, Pushing
  <2> QED
    BY <2>1, <2>2, <2>3, <2>4
<1> QED
  BY <1>1, <1>2, <1>3

LEMMA Reading ==
  ASSUME NetTypeOK, NEW l \in Links, NEW n \in Ends(l), chan[l][n] # <<>>,
         chan' = Consumed(n, l)
  PROVE  /\ chan' \in Channels
         /\ chan'[l][n] = Tail(chan[l][n])
         /\ chan'[l][Other(l, n)] = chan[l][Other(l, n)]
         /\ \A k \in Links \ {l} : chan'[k] = chan[k]
<1>1. n \in Nodes /\ Other(l, n) \in Nodes \ {n}
  BY Joined
<1> QED
  BY <1>1, Consuming

LEMMA Registering ==
  ASSUME NetTypeOK, NEW l \in Links, NEW n \in Ends(l), Register(n, l)
  PROVE  /\ active' \in [Nodes -> SUBSET Links] /\ pending' \in [Nodes -> SUBSET Links]
         /\ \A m \in Nodes : \A k \in active'[m] : m \in Ends(k)
         /\ l \in active'[n]
         /\ \A m \in Nodes : \A k \in active[m] \ SameLabel(n, l) : k \in active'[m]
         /\ \A m \in Nodes \ {n} : active'[m] = active[m]
         /\ chan' \in Channels
         /\ chan'[l][Other(l, n)] = Append(chan[l][Other(l, n)], [type |-> "challenge"])
         /\ chan'[l][n] = chan[l][n]
         /\ \A k \in Links \ {l} : chan'[k] = chan[k]
<1>1. n \in Nodes /\ Other(l, n) \in Nodes \ {n}
  BY Joined
<1>2. chan \in Channels /\ chan' = Push(chan, l, Other(l, n), [type |-> "challenge"])
  BY DEF NetTypeOK, Register
<1>3. /\ chan' \in Channels
      /\ chan'[l][Other(l, n)] = Append(chan[l][Other(l, n)], [type |-> "challenge"])
      /\ chan'[l][n] = chan[l][n]
      /\ \A k \in Links \ {l} : chan'[k] = chan[k]
  <2>1. [type |-> "challenge"] \in Frames
    BY FrameFacts
  <2> QED
    BY <1>1, <1>2, <2>1, Pushing
<1>4. /\ active' \in [Nodes -> SUBSET Links] /\ pending' \in [Nodes -> SUBSET Links]
      /\ active' = [active EXCEPT ![n] = (@ \ SameLabel(n, l)) \cup {l}]
  BY <1>1 DEF NetTypeOK, Register
<1>5. \A m \in Nodes : \A k \in active'[m] : m \in Ends(k)
  BY <1>1, <1>4 DEF NetTypeOK
<1> QED
  BY <1>1, <1>3, <1>4, <1>5 DEF NetTypeOK

LEMMA Proving ==
  ASSUME NetInv, NEW l \in Links, NEW n \in Ends(l), Proven(n, l)
  PROVE  /\ chan' \in Channels
         /\ chan'[l][n] = Tail(chan[l][n])
         /\ chan'[l][Other(l, n)] =
              IF n = Dialer[l]
              THEN Append(chan[l][Other(l, n)], [type |-> "offer", after |-> watermark[n]])
              ELSE chan[l][Other(l, n)]
         /\ \A k \in Links \ {l} : chan'[k] = chan[k]
         /\ authed' \in [Nodes -> Seq(Nodes \cup Links)]
         /\ \A m \in Nodes : IsInjective(authed'[m])
         /\ \A m \in Nodes \ {n} : authed'[m] = authed[m]
         /\ Label(n, l) \in Range(authed'[n])
         /\ Range(authed'[n]) \subseteq Range(authed[n]) \cup {Label(n, l)}
<1>1. n \in Nodes /\ Other(l, n) \in Nodes \ {n} /\ Label(n, l) \in Nodes \cup Links
  BY Joined
<1>2. chan[l][n] # <<>>
  BY DEF Proven, Arrives
<1>3. [type |-> "offer", after |-> watermark[n]] \in Frames
  BY <1>1, FrameFacts DEF NetInv, NetTypeOK
<1>4. /\ chan' \in Channels
      /\ chan'[l][n] = Tail(chan[l][n])
      /\ chan'[l][Other(l, n)] =
           IF n = Dialer[l]
           THEN Append(chan[l][Other(l, n)], [type |-> "offer", after |-> watermark[n]])
           ELSE chan[l][Other(l, n)]
      /\ \A k \in Links \ {l} : chan'[k] = chan[k]
  <2>1. CASE n = Dialer[l]
    <3>1. Other(l, n) = Acceptor[l]
      BY <2>1 DEF Other
    <3>2. chan' = Push(Consumed(n, l), l, Other(l, n), [type |-> "offer", after |-> watermark[n]])
      BY <2>1, <3>1 DEF Proven
    <3> QED
      BY <1>2, <1>3, <2>1, <3>2, Answering DEF NetInv
  <2>2. CASE n # Dialer[l]
    <3>1. chan' = Consumed(n, l)
      BY <2>2 DEF Proven
    <3> QED
      BY <1>2, <2>2, <3>1, Reading DEF NetInv
  <2> QED
    BY <2>1, <2>2
<1>5. /\ authed \in [Nodes -> Seq(Nodes \cup Links)] /\ \A m \in Nodes : IsInjective(authed[m])
      /\ authed' = [authed EXCEPT ![n] = Admit(authed[n], Label(n, l))]
  BY DEF NetInv, NetTypeOK, Proven
<1>6. /\ Admit(authed[n], Label(n, l)) \in Seq(Nodes \cup Links)
      /\ IsInjective(Admit(authed[n], Label(n, l)))
      /\ Label(n, l) \in Range(Admit(authed[n], Label(n, l)))
      /\ Range(Admit(authed[n], Label(n, l))) \subseteq Range(authed[n]) \cup {Label(n, l)}
  <2>1. authed[n] \in Seq(Nodes \cup Links) /\ IsInjective(authed[n])
    BY <1>1, <1>5
  <2> QED
    BY <1>1, <2>1, Admitting
<1>7. authed'[n] = Admit(authed[n], Label(n, l)) /\ \A m \in Nodes \ {n} : authed'[m] = authed[m]
  BY <1>1, <1>5
<1>8. authed' \in [Nodes -> Seq(Nodes \cup Links)] /\ \A m \in Nodes : IsInjective(authed'[m])
  BY <1>1, <1>5, <1>6, <1>7
<1> QED
  BY <1>4, <1>6, <1>7, <1>8

\* A label is withdrawn at n.
LEMMA Withdrawing ==
  ASSUME NetTypeOK, NEW l \in Links, NEW n \in Ends(l),
         authed' = [authed EXCEPT ![n] = RemoveFirst(authed[n], Label(n, l))]
  PROVE  /\ authed' \in [Nodes -> Seq(Nodes \cup Links)]
         /\ \A m \in Nodes : IsInjective(authed'[m])
         /\ \A m \in Nodes \ {n} : authed'[m] = authed[m]
         /\ Range(authed'[n]) = Range(authed[n]) \ {Label(n, l)}
<1>1. n \in Nodes /\ Label(n, l) \in Nodes \cup Links
  BY Joined
<1>2. authed[n] \in Seq(Nodes \cup Links) /\ IsInjective(authed[n])
  BY <1>1 DEF NetTypeOK
<1>3. /\ RemoveFirst(authed[n], Label(n, l)) \in Seq(Nodes \cup Links)
      /\ IsInjective(RemoveFirst(authed[n], Label(n, l)))
      /\ Range(RemoveFirst(authed[n], Label(n, l))) = Range(authed[n]) \ {Label(n, l)}
  BY <1>1, <1>2, Removing
<1>4. /\ authed'[n] = RemoveFirst(authed[n], Label(n, l))
      /\ \A m \in Nodes \ {n} : authed'[m] = authed[m]
  BY <1>1 DEF NetTypeOK
<1> QED
  BY <1>1, <1>3, <1>4 DEF NetTypeOK

\* What a step of handleIncomingMessage reads on l, and what it answers.
Answers(z, l) ==
    /\ Challenged(z, l) /\ Head(chan[l][z]).type = "challenge"
    /\ chan'[l][Other(l, z)] = Append(chan[l][Other(l, z)], [type |-> "auth"])
Takes(z, l) ==
    \/ Proven(z, l) /\ Head(chan[l][z]).type = "auth"
    \/ Authed(z, l) /\ Offered(z, l) /\ Head(chan[l][z]).type = "offer"
    \/ Authed(z, l) /\ Applied(z, l) /\ Head(chan[l][z]).type = "delta"
    \/ ~Authed(z, l) /\ Dropped(z, l) /\ Head(chan[l][z]).type \in {"offer", "delta"}
Sends(z, l) ==
    \/ chan'[l][Other(l, z)] = chan[l][Other(l, z)]
    \/ \E f \in Frames : /\ f.type \in {"offer", "delta"}
                         /\ chan'[l][Other(l, z)] = Append(chan[l][Other(l, z)], f)

LEMMA Receiving ==
  ASSUME NetInv, NEW l \in Links, NEW z \in Ends(l), Receive(z, l), ~Refused(z, l)
  PROVE  /\ chan[l][z] # <<>> /\ chan'[l][z] = Tail(chan[l][z])
         /\ \A k \in Links \ {l} : chan'[k] = chan[k]
         /\ Answers(z, l) \/ (Takes(z, l) /\ Sends(z, l))
<1>0. z \in Nodes /\ NetTypeOK /\ chan[l][z] # <<>>
  BY Joined DEF NetInv, Receive, Challenged, Proven, Refused, Offered, Applied, Dropped, Arrives
<1>1. CASE Challenged(z, l)
  BY <1>0, <1>1, Answering, FrameFacts DEF Challenged, Arrives, Answers
<1>2. CASE Proven(z, l)
  <2>1. Head(chan[l][z]).type = "auth"
    BY <1>2 DEF Proven, Arrives
  <2>2. [type |-> "offer", after |-> watermark[z]] \in Frames
    BY <1>0, FrameFacts DEF NetTypeOK
  <2>3. PICK f \in Frames : f = [type |-> "offer", after |-> watermark[z]]
    BY <2>2
  <2>4. /\ chan'[l][z] = Tail(chan[l][z]) /\ \A k \in Links \ {l} : chan'[k] = chan[k]
        /\ \/ chan'[l][Other(l, z)] = chan[l][Other(l, z)]
           \/ chan'[l][Other(l, z)] = Append(chan[l][Other(l, z)], f)
    BY <1>2, <2>3, Proving
  <2>5. f.type = "offer"
    BY <2>3
  <2> QED
    BY <1>0, <1>2, <2>1, <2>4, <2>5 DEF Takes, Sends
<1>3. CASE Offered(z, l)
  <2>1. Head(chan[l][z]).type = "offer" /\ Authed(z, l)
    BY <1>3 DEF Offered, Arrives
  <2>2. Head(chan[l][z]).after \in Nat
    BY <1>0, <2>1, FrontFacts, FrameFacts
  <2>3. PICK f \in Frames : f = DeltasAfter(z, Head(chan[l][z]).after) /\ f.type = "delta"
    BY <1>0, <2>2, PacketFacts
  <2>4. chan' = Push(Consumed(z, l), l, Other(l, z), f)
    BY <1>3, <2>3 DEF Offered
  <2>5. /\ chan'[l][z] = Tail(chan[l][z]) /\ \A k \in Links \ {l} : chan'[k] = chan[k]
        /\ chan'[l][Other(l, z)] = Append(chan[l][Other(l, z)], f)
    BY <1>0, <2>4, Answering
  <2> QED
    BY <1>0, <1>3, <2>1, <2>3, <2>5 DEF Takes, Sends
<1>4. CASE Applied(z, l)
  BY <1>0, <1>4, Reading DEF Applied, Arrives, Takes, Sends
<1>5. CASE Dropped(z, l)
  BY <1>0, <1>5, Reading DEF Dropped, Arrives, Takes, Sends
<1> QED
  BY <1>1, <1>2, <1>3, <1>4, <1>5 DEF Receive

-----------------------------------------------------------------------------
(* Types and the clock.                                                    *)

LEMMA NetInit == Init => IInv
<1> SUFFICES ASSUME Init PROVE IInv
  OBVIOUS
<1>1. NetTypeOK
  BY DEF Init, NetTypeOK, Events, Channels, Phases, IsInjective
<1>2. ClockInv
  BY DEF Init, ClockInv
<1>3. PhaseInv
  BY Joined DEF Init, PhaseInv, PhaseOf
<1>4. AuthInv
  BY DEF Init, AuthInv, Range
<1>5. LinkInv
  BY DEF Init, LinkInv
<1> QED
  BY <1>1, <1>2, <1>3, <1>4, <1>5 DEF IInv, NetInv

LEMMA TypeDatabase ==
  ASSUME NetInv, NEW n \in Nodes
  PROVE  /\ Tick => NetTypeOK'
         /\ \A r \in Rows : Edit(n, r) => NetTypeOK'
         /\ Poll(n) => NetTypeOK'
         /\ Restart(n) => NetTypeOK'
<1> USE DEF NetInv
<1>1. ASSUME Tick PROVE NetTypeOK'
  BY <1>1 DEF Tick, NetTypeOK, netVars, Ends
<1>2. ASSUME NEW r \in Rows, Edit(n, r) PROVE NetTypeOK'
  <2>1. log' = [log EXCEPT ![n] = Append(log[n], [row |-> r, at |-> now, skipped |-> now = watermark[n]])]
    BY <1>2 DEF Edit
  <2>2. [row |-> r, at |-> now, skipped |-> now = watermark[n]] \in
           [row : Rows, at : 0..MaxTime, skipped : BOOLEAN]
    BY DEF NetTypeOK
  <2>3. log' \in [Nodes -> Events]
    <3>1. log[n] \in Events
      BY DEF NetTypeOK
    <3>2. Append(log[n], [row |-> r, at |-> now, skipped |-> now = watermark[n]]) \in Events
      BY <2>2, <3>1, AppendProperties DEF Events
    <3> QED
      BY <2>1, <3>2 DEF NetTypeOK
  <2> QED
    BY <1>2, <2>3 DEF Edit, NetTypeOK, netVars, Ends
<1>3. ASSUME Poll(n) PROVE NetTypeOK'
  <2>1. chan' \in Channels /\ Len(log[n]) > 0
    BY <1>3, PollSends
  <2>2. watermark' \in [Nodes -> 0..MaxTime]
    <3>1. watermark' = [watermark EXCEPT ![n] = log[n][Len(log[n])].at]
      BY <1>3 DEF Poll, DeltasAfter
    <3>2. Len(log[n]) \in Nat /\ Len(log[n]) \in DOMAIN log[n]
      <4>1. log[n] \in Events
        BY DEF NetTypeOK
      <4> QED
        BY <2>1, <4>1, Elements DEF Events
    <3>3. log[n][Len(log[n])].at \in 0..MaxTime
      <4> DEFINE Event == [row : Rows, at : 0..MaxTime, skipped : BOOLEAN]
      <4>1. \A e \in Event : e.at \in 0..MaxTime
        OBVIOUS
      <4>2. log[n] \in Seq(Event)
        BY DEF Events, NetTypeOK
      <4> HIDE DEF Event
      <4> QED
        BY <3>2, <4>1, <4>2, Elements
    <3> QED
      BY <3>1, <3>3 DEF NetTypeOK
  <2> QED
    BY <1>3, <2>1, <2>2 DEF Poll, NetTypeOK, Ends
<1>4. ASSUME Restart(n) PROVE NetTypeOK'
  <2>1. phase' \in [Links -> Phases]
    BY <1>4 DEF Restart, NetTypeOK, Phases
  <2>2. chan' \in Channels
    BY <1>4 DEF Restart, NetTypeOK, Channels
  <2>3. authed' \in [Nodes -> Seq(Nodes \cup Links)] /\ \A m \in Nodes : IsInjective(authed'[m])
    BY <1>4 DEF Restart, NetTypeOK, IsInjective
  <2> QED
    BY <1>4, <2>1, <2>2, <2>3 DEF Restart, NetTypeOK, Ends
<1> QED
  BY <1>1, <1>2, <1>3, <1>4

LEMMA TypeSocket ==
  ASSUME NetInv, NEW l \in Links
  PROVE  /\ Socket(l) => NetTypeOK'
         /\ \A n \in Ends(l) : HandshakeTimeout(n, l) => NetTypeOK'
<1> USE DEF NetInv
<1>1. ASSUME Dial(l) PROVE NetTypeOK'
  BY <1>1 DEF Dial, NetTypeOK, Phases, Ends
<1>2. ASSUME Accept(l) PROVE NetTypeOK'
  <2>1. Acceptor[l] \in Ends(l) /\ Register(Acceptor[l], l)
    BY <1>2 DEF Accept, Ends
  <2>2. /\ active' \in [Nodes -> SUBSET Links] /\ pending' \in [Nodes -> SUBSET Links]
        /\ \A m \in Nodes : \A k \in active'[m] : m \in Ends(k)
        /\ chan' \in Channels
    BY <2>1, Registering
  <2>3. phase' \in [Links -> Phases]
    BY <1>2 DEF Accept, NetTypeOK, Phases
  <2> QED
    BY <1>2, <2>2, <2>3 DEF Accept, NetTypeOK, Ends
<1>3. ASSUME Opened(l) PROVE NetTypeOK'
  <2>1. Dialer[l] \in Ends(l) /\ Register(Dialer[l], l)
    BY <1>3 DEF Opened, Ends
  <2>2. /\ active' \in [Nodes -> SUBSET Links] /\ pending' \in [Nodes -> SUBSET Links]
        /\ \A m \in Nodes : \A k \in active'[m] : m \in Ends(k)
        /\ chan' \in Channels
    BY <2>1, Registering
  <2>3. phase' \in [Links -> Phases]
    BY <1>3 DEF Opened, NetTypeOK, Phases
  <2> QED
    BY <1>3, <2>2, <2>3 DEF Opened, NetTypeOK, Ends
<1>4. ASSUME Breaks(l) PROVE NetTypeOK'
  <2>1. phase' \in [Links -> Phases] /\ chan' \in Channels
    BY <1>4, Hanging DEF Breaks
  <2> QED
    BY <1>4, <2>1 DEF Breaks, NetTypeOK, Ends
<1>5. ASSUME NoticesClose(l) PROVE NetTypeOK'
  <2>1. phase' \in [Links -> Phases]
    BY <1>5 DEF NoticesClose, NetTypeOK, Phases
  <2>2. Dialer[l] \in Ends(l) /\ Dialer[l] \in Nodes
    BY Joined
  <2>3. /\ authed' \in [Nodes -> Seq(Nodes \cup Links)] /\ pending' \in [Nodes -> SUBSET Links]
        /\ \A m \in Nodes : IsInjective(authed'[m])
    <3>1. CASE l \in Manual
      BY <1>5, <3>1 DEF NoticesClose, NetTypeOK
    <3>2. CASE l \notin Manual
      <4>1. authed' = [authed EXCEPT ![Dialer[l]] = RemoveFirst(authed[Dialer[l]], Label(Dialer[l], l))]
        BY <1>5, <3>2 DEF NoticesClose
      <4>2. pending' \in [Nodes -> SUBSET Links]
        <5>1. pending' = [pending EXCEPT ![Dialer[l]] = @ \ SameLabel(Dialer[l], l)]
          BY <1>5, <3>2 DEF NoticesClose
        <5> QED
          BY <2>2, <5>1 DEF NetTypeOK
      <4> QED
        BY <2>2, <4>1, <4>2, Withdrawing
    <3> QED
      BY <3>1, <3>2
  <2>4. /\ active' \in [Nodes -> SUBSET Links]
        /\ \A m \in Nodes : active'[m] \subseteq active[m]
    BY <1>5, <2>2 DEF NoticesClose, NetTypeOK
  <2> QED
    BY <1>5, <2>1, <2>3, <2>4 DEF NoticesClose, NetTypeOK, Ends
<1>6. ASSUME NEW n \in Ends(l), HandshakeTimeout(n, l) PROVE NetTypeOK'
  <2>1. phase' \in [Links -> Phases] /\ chan' \in Channels
    <3>1. CASE Hangup(l)
      BY <3>1, Hanging
    <3>2. CASE UNCHANGED <<phase, chan>>
      BY <3>2 DEF NetTypeOK
    <3> QED
      BY <1>6, <3>1, <3>2 DEF HandshakeTimeout
  <2>2. pending' \in [Nodes -> SUBSET Links]
    BY <1>6, Joined DEF HandshakeTimeout, NetTypeOK
  <2> QED
    BY <1>6, <2>1, <2>2 DEF HandshakeTimeout, NetTypeOK, Ends
<1> QED
  BY <1>1, <1>2, <1>3, <1>4, <1>5, <1>6 DEF Socket

LEMMA TypeReceive ==
  ASSUME NetInv, NEW l \in Links, NEW n \in Ends(l), Receive(n, l)
  PROVE  NetTypeOK'
<1> USE DEF NetInv
<1>0. n \in Nodes /\ Other(l, n) \in Nodes
  BY Joined
<1>1. ASSUME Challenged(n, l) PROVE NetTypeOK'
  <2>1. chan' \in Channels
    <3>1. [type |-> "auth"] \in Frames
      BY FrameFacts
    <3> QED
      BY <1>1, <3>1, Answering DEF Challenged, Arrives
  <2> QED
    BY <1>1, <2>1 DEF Challenged, NetTypeOK, Ends
<1>2. ASSUME Proven(n, l) PROVE NetTypeOK'
  <2>1. /\ chan' \in Channels /\ authed' \in [Nodes -> Seq(Nodes \cup Links)]
        /\ \A m \in Nodes : IsInjective(authed'[m])
    BY <1>2, Proving
  <2>2. since' \in [Nodes -> [Links -> 0..MaxEdits]]
    <3>1. Len(log[n]) \in 0..MaxEdits
      <4>1. log[n] \in Events /\ Len(log[n]) <= MaxEdits
        BY <1>0 DEF NetTypeOK, ClockInv
      <4> QED
        BY <4>1, Elements DEF Events
    <3>2. since' = [since EXCEPT ![n][l] = Len(log[n])]
      BY <1>2 DEF Proven
    <3> QED
      BY <1>0, <3>1, <3>2 DEF NetTypeOK
  <2>3. pending' \in [Nodes -> SUBSET Links]
    BY <1>0, <1>2 DEF Proven, NetTypeOK
  <2> QED
    BY <1>2, <2>1, <2>2, <2>3 DEF Proven, NetTypeOK, Ends
<1>3. ASSUME Refused(n, l) PROVE NetTypeOK'
  <2>1. phase' \in [Links -> Phases] /\ chan' \in Channels
    BY <1>3, Hanging DEF Refused
  <2>2. authed' \in [Nodes -> Seq(Nodes \cup Links)] /\ \A m \in Nodes : IsInjective(authed'[m])
    BY <1>3, Withdrawing DEF Refused
  <2>3. pending' \in [Nodes -> SUBSET Links]
    BY <1>0, <1>3 DEF Refused, NetTypeOK
  <2> QED
    BY <1>3, <2>1, <2>2, <2>3 DEF Refused, NetTypeOK, Ends
<1>4. ASSUME Offered(n, l) PROVE NetTypeOK'
  <2>1. chan' \in Channels
    <3>1. chan[l][n] # <<>> /\ Head(chan[l][n]).type = "offer"
      BY <1>4 DEF Offered, Arrives
    <3>2. Head(chan[l][n]).after \in Nat
      BY <1>0, <3>1, FrontFacts, FrameFacts
    <3>3. DeltasAfter(n, Head(chan[l][n]).after) \in Frames
      BY <1>0, <3>2, PacketFacts
    <3> QED
      BY <1>4, <3>1, <3>3, Answering DEF Offered
  <2> QED
    BY <1>4, <2>1 DEF Offered, NetTypeOK, Ends
<1>5. ASSUME Applied(n, l) PROVE NetTypeOK'
  <2>1. chan[l][n] # <<>> /\ Head(chan[l][n]).type = "delta"
    BY <1>5 DEF Applied, Arrives
  <2>2. chan' \in Channels
    BY <1>5, <2>1, Reading DEF Applied
  <2>3. Head(chan[l][n]).from \in 0..MaxEdits /\ Head(chan[l][n]).to \in 0..MaxEdits
    BY <1>0, <2>1, FrontFacts, FrameFacts
  <2>4. seen' \in [Nodes -> SUBSET (Nodes \X (1..MaxEdits))]
    <3> DEFINE news == {<<Other(l, n), k>> : k \in Head(chan[l][n]).from + 1..Head(chan[l][n]).to}
    <3>1. news \subseteq Nodes \X (1..MaxEdits)
      BY <1>0, <2>3
    <3>2. seen' = [seen EXCEPT ![n] = seen[n] \cup news]
      BY <1>5 DEF Applied
    <3> HIDE DEF news
    <3> QED
      BY <1>0, <3>1, <3>2 DEF NetTypeOK
  <2> QED
    BY <1>5, <2>2, <2>4 DEF Applied, NetTypeOK, Ends
<1>6. ASSUME Dropped(n, l) PROVE NetTypeOK'
  <2>1. chan' \in Channels
    BY <1>6, Reading DEF Dropped, Arrives
  <2> QED
    BY <1>6, <2>1 DEF Dropped, NetTypeOK, Ends
<1> QED
  BY <1>1, <1>2, <1>3, <1>4, <1>5, <1>6 DEF Receive

LEMMA TypeNext == NetInv /\ [Next]_vars => NetTypeOK'
<1> SUFFICES ASSUME NetInv, [Next]_vars PROVE NetTypeOK'
  OBVIOUS
<1>1. CASE UNCHANGED vars
  BY <1>1 DEF vars, netVars, NetInv, NetTypeOK, Ends
<1>2. ASSUME NEW n \in Nodes, Poll(n) \/ Restart(n) \/ Tick \/ \E r \in Rows : Edit(n, r)
      PROVE  NetTypeOK'
  BY <1>2, TypeDatabase
<1>3. CASE Tick
  BY <1>3 DEF Tick, NetInv, NetTypeOK, netVars, Ends
<1>4. ASSUME NEW l \in Links,
             Socket(l) \/ \E n \in Ends(l) : Receive(n, l) \/ HandshakeTimeout(n, l)
      PROVE  NetTypeOK'
  BY <1>4, TypeSocket, TypeReceive
<1> QED
  BY <1>1, <1>2, <1>3, <1>4 DEF Next

\* The steps that leave the database and the clock alone.
LEMMA NetworkSteps ==
  ASSUME NEW l \in Links,
         Socket(l) \/ \E n \in Ends(l) : Receive(n, l) \/ HandshakeTimeout(n, l)
  PROVE  UNCHANGED <<now, log, watermark>>
BY DEF Socket, Receive, Dial, Accept, Opened, Breaks, NoticesClose, HandshakeTimeout, Challenged,
       Proven, Refused, Offered, Applied, Dropped

LEMMA LogFacts ==
  ASSUME NetInv, NEW n \in Nodes
  PROVE  /\ Len(log[n]) \in 0..MaxEdits /\ DOMAIN log[n] = 1..Len(log[n])
         /\ log[n] \in Events
         /\ \A i \in 1..Len(log[n]) : log[n][i].at \in Nat /\ log[n][i].at <= now
         /\ \A i, j \in 1..Len(log[n]) : i <= j => log[n][i].at <= log[n][j].at
         /\ now \in Nat /\ watermark[n] \in Nat /\ watermark[n] <= now
<1> DEFINE Event == [row : Rows, at : 0..MaxTime, skipped : BOOLEAN]
<1>1. \A e \in Event : e.at \in 0..MaxTime
  OBVIOUS
<1>2. log[n] \in Seq(Event) /\ log[n] \in Events
  BY DEF Events, NetInv, NetTypeOK
<1> HIDE DEF Event
<1>3. /\ Len(log[n]) \in Nat /\ DOMAIN log[n] = 1..Len(log[n])
      /\ \A i \in 1..Len(log[n]) : log[n][i].at \in 0..MaxTime
  BY <1>1, <1>2, Elements
<1>4. now \in Nat /\ watermark[n] \in Nat
  BY DEF NetInv, NetTypeOK
<1>5. /\ watermark[n] <= now /\ Len(log[n]) <= MaxEdits
      /\ \A i \in DOMAIN log[n] : log[n][i].at <= now
      /\ \A i, j \in DOMAIN log[n] : i <= j => log[n][i].at <= log[n][j].at
  BY DEF NetInv, ClockInv
<1>6. \A i \in 1..Len(log[n]) : log[n][i].at \in Nat /\ log[n][i].at <= now
  BY <1>3, <1>5
<1>7. MaxEdits \in Nat
  BY SyncAssumption
<1>8. Len(log[n]) \in 0..MaxEdits
  BY <1>3, <1>5, <1>7
<1>9. \A i, j \in 1..Len(log[n]) : i <= j => log[n][i].at <= log[n][j].at
  BY <1>3, <1>5, Zenon
<1> QED
  BY <1>2, <1>3, <1>4, <1>5, <1>6, <1>8, <1>9, Zenon

LEMMA Logging ==
  ASSUME NetInv, NEW n \in Nodes, NEW r \in Rows, Edit(n, r)
  PROVE  /\ Len(log'[n]) = Len(log[n]) + 1 /\ Len(log'[n]) <= MaxEdits
         /\ \A i \in 1..Len(log[n]) : log'[n][i] = log[n][i]
         /\ log'[n][Len(log[n]) + 1].at = now
         /\ log'[n][Len(log[n]) + 1].skipped = (now = watermark[n])
         /\ \A m \in Nodes \ {n} : log'[m] = log[m]
<1> DEFINE event == [row |-> r, at |-> now, skipped |-> now = watermark[n]]
           Event == [row : Rows, at : 0..MaxTime, skipped : BOOLEAN]
<1>1. log' = [log EXCEPT ![n] = Append(log[n], event)] /\ Len(log[n]) < MaxEdits
  BY DEF Edit
<1>2. event \in Event /\ event.at = now /\ event.skipped = (now = watermark[n])
  BY DEF NetInv, NetTypeOK
<1>3. log[n] \in Seq(Event) /\ log \in [Nodes -> Seq(Event)]
  BY DEF Events, NetInv, NetTypeOK
<1> HIDE DEF event, Event
<1>4. /\ Len(Append(log[n], event)) = Len(log[n]) + 1
      /\ \A i \in 1..Len(log[n]) : Append(log[n], event)[i] = log[n][i]
      /\ Append(log[n], event)[Len(log[n]) + 1] = event
  BY <1>2, <1>3
<1>5. log'[n] = Append(log[n], event) /\ \A m \in Nodes \ {n} : log'[m] = log[m]
  BY <1>1, <1>3
<1>6. Len(log[n]) + 1 <= MaxEdits
  BY <1>1, LogFacts
<1> QED
  BY <1>2, <1>4, <1>5, <1>6

LEMMA ClockNext == NetInv /\ [Next]_vars => ClockInv'
<1> SUFFICES ASSUME NetInv, [Next]_vars PROVE ClockInv'
  OBVIOUS
<1>1. ASSUME UNCHANGED <<now, log, watermark>> PROVE ClockInv'
  BY <1>1 DEF NetInv, ClockInv
<1>2. CASE UNCHANGED vars
  BY <1>1, <1>2 DEF vars
<1>3. CASE Tick
  <2>1. now' = now + 1 /\ UNCHANGED <<log, watermark>>
    BY <1>3 DEF Tick
  <2>2. \A n \in Nodes : /\ now \in Nat /\ watermark[n] \in Nat
                          /\ \A i \in DOMAIN log[n] : log[n][i].at \in Nat
    BY LogFacts
  <2> QED
    BY <2>1, <2>2 DEF NetInv, ClockInv
<1>4. ASSUME NEW n \in Nodes, NEW r \in Rows, Edit(n, r) PROVE ClockInv'
  <2>1. UNCHANGED <<now, watermark>>
    BY <1>4 DEF Edit
  <2>2. log' \in [Nodes -> Events]
    BY <1>4, TypeDatabase DEF NetTypeOK
  <2>3. Len(log'[n]) \in Nat /\ DOMAIN log'[n] = 1..Len(log'[n])
    BY <2>2, Elements DEF Events
  <2>4. /\ Len(log'[n]) = Len(log[n]) + 1 /\ Len(log'[n]) <= MaxEdits
        /\ \A i \in 1..Len(log[n]) : log'[n][i] = log[n][i]
        /\ log'[n][Len(log[n]) + 1].at = now
        /\ \A m \in Nodes \ {n} : log'[m] = log[m]
    BY <1>4, Logging
  <2>5. ASSUME NEW i \in 1..Len(log'[n]), NEW j \in 1..Len(log'[n]), i <= j
        PROVE  log'[n][i].at <= now /\ log'[n][i].at <= log'[n][j].at
    <3>1. Len(log[n]) \in Nat
      BY LogFacts
    <3>2. CASE j <= Len(log[n])
      <4>1. i \in 1..Len(log[n]) /\ j \in 1..Len(log[n])
        BY <2>4, <2>5, <3>1, <3>2
      <4>2. log[n][i].at <= now /\ log[n][i].at <= log[n][j].at
        BY <2>5, <4>1, LogFacts
      <4> QED
        BY <2>4, <4>1, <4>2
    <3>3. CASE i <= Len(log[n]) /\ ~(j <= Len(log[n]))
      <4>1. j = Len(log[n]) + 1 /\ i \in 1..Len(log[n])
        BY <2>4, <3>1, <3>3
      <4> QED
        BY <2>4, <4>1, LogFacts
    <3>4. CASE ~(i <= Len(log[n]))
      <4>1. j = Len(log[n]) + 1 /\ i = Len(log[n]) + 1
        BY <2>4, <2>5, <3>1, <3>4
      <4> QED
        BY <2>4, <4>1, LogFacts
    <3> QED
      BY <2>5, <3>1, <3>2, <3>3, <3>4
  <2>6. ASSUME NEW m \in Nodes
        PROVE  /\ watermark[m] <= now /\ Len(log'[m]) <= MaxEdits
               /\ \A i \in DOMAIN log'[m] : log'[m][i].at <= now
               /\ \A i, j \in DOMAIN log'[m] : i <= j => log'[m][i].at <= log'[m][j].at
    <3>1. CASE m = n
      <4>1. watermark[n] <= now /\ Len(log'[n]) <= MaxEdits
        BY <2>4, LogFacts
      <4>2. \A i \in DOMAIN log'[n] : log'[n][i].at <= now
        <5> SUFFICES ASSUME NEW i \in 1..Len(log'[n]) PROVE log'[n][i].at <= now
          BY <2>3
        <5>1. i <= i
          BY <2>3
        <5> QED
          BY <2>5, <5>1
      <4>3. \A i, j \in DOMAIN log'[n] : i <= j => log'[n][i].at <= log'[n][j].at
        BY <2>3, <2>5
      <4> QED
        BY <3>1, <4>1, <4>2, <4>3
    <3>2. CASE m # n
      BY <2>4, <3>2 DEF NetInv, ClockInv
    <3> QED
      BY <3>1, <3>2
  <2> QED
    BY <2>1, <2>6 DEF ClockInv
<1>5. ASSUME NEW n \in Nodes, Poll(n) PROVE ClockInv'
  <2>1. UNCHANGED <<now, log>> /\ watermark' = [watermark EXCEPT ![n] = log[n][Len(log[n])].at]
    BY <1>5 DEF Poll, DeltasAfter
  <2>2. Len(log[n]) \in 1..Len(log[n])
    BY <1>5, PollSends, LogFacts
  <2>3. watermark'[n] <= now /\ \A m \in Nodes \ {n} : watermark'[m] = watermark[m]
    BY <2>1, <2>2, LogFacts DEF NetInv, NetTypeOK
  <2> QED
    BY <2>1, <2>3 DEF NetInv, ClockInv
<1>6. ASSUME NEW n \in Nodes, Restart(n) PROVE ClockInv'
  <2>1. UNCHANGED <<now, log>> /\ watermark' = [watermark EXCEPT ![n] = now]
    BY <1>6 DEF Restart
  <2>2. watermark'[n] <= now /\ \A m \in Nodes \ {n} : watermark'[m] = watermark[m]
    BY <2>1, LogFacts DEF NetInv, NetTypeOK
  <2> QED
    BY <2>1, <2>2 DEF NetInv, ClockInv
<1>7. ASSUME NEW l \in Links,
             Socket(l) \/ \E n \in Ends(l) : Receive(n, l) \/ HandshakeTimeout(n, l)
      PROVE  ClockInv'
  BY <1>1, <1>7, NetworkSteps
<1> QED
  BY <1>2, <1>3, <1>4, <1>5, <1>6, <1>7 DEF Next

-----------------------------------------------------------------------------
(* What is under way on a socket that is not up.                           *)

\* The label of a link at its acceptor is its own.
LEMMA OwnLabel ==
  ASSUME NEW k \in Links, NEW l \in Links, NEW n \in Ends(l)
  PROVE  /\ n = Acceptor[l] => SameLabel(n, l) = {l}
         /\ k # l /\ n = Acceptor[k] => k \notin SameLabel(n, l)
BY Joined, Labels DEF SameLabel, Ends, Label

\* A link that keeps its phase, its frames and its registration.
LEMMA PhaseFrame ==
  ASSUME PhaseInv, NEW k \in Links,
         phase'[k] = phase[k], chan'[k] = chan[k],
         k \in active[Acceptor[k]] => k \in active'[Acceptor[k]],
         \A n \in Nodes : since'[n][k] = since[n][k]
  PROVE  PhaseOf(k)'
BY DEF PhaseInv, PhaseOf

LEMMA PhaseHangs ==
  ASSUME NEW l \in Links, phase'[l] \in {"down", "gone"}, \A n \in Nodes : chan'[l][n] = <<>>
  PROVE  PhaseOf(l)'
BY DEF PhaseOf

LEMMA PhaseUp ==
  ASSUME NEW l \in Links, phase'[l] = "up"
  PROVE  PhaseOf(l)'
BY DEF PhaseOf

LEMMA PhaseNode ==
  ASSUME NetInv, PhaseInv, NEW n \in Nodes, Poll(n) \/ Restart(n)
  PROVE  PhaseInv'
<1> SUFFICES ASSUME NEW k \in Links PROVE PhaseOf(k)'
  BY DEF PhaseInv, PhaseOf
<1>1. CASE Poll(n)
  <2>1. UNCHANGED <<phase, active, since>>
    BY <1>1 DEF Poll
  <2>2. CASE phase[k] = "up"
    BY <2>1, <2>2, PhaseUp
  <2>3. CASE phase[k] # "up"
    <3>1. \A m \in Nodes : chan'[k][m] = chan[k][m]
      BY <1>1, <2>3, PollSends
    <3>2. chan'[k] = chan[k]
      <4>1. chan' \in Channels /\ chan \in Channels
        BY <1>1, PollSends DEF NetInv, NetTypeOK
      <4> QED
        BY <3>1, <4>1 DEF Channels
    <3> QED
      BY <2>1, <3>2, PhaseFrame
  <2> QED
    BY <2>2, <2>3
<1>2. CASE Restart(n)
  <2>1. /\ phase'[k] = (IF phase[k] = "unused" \/ n \notin Ends(k) THEN phase[k]
                        ELSE IF n = Dialer[k] \/ phase[k] = "gone" THEN "gone" ELSE "down")
        /\ n \in Ends(k) => \A m \in Nodes : chan'[k][m] = <<>>
        /\ n \notin Ends(k) => chan'[k] = chan[k]
        /\ since' = since
        /\ active' = [active EXCEPT ![n] = {}]
    BY <1>2 DEF Restart
  <2>2. CASE n \notin Ends(k)
    <3>1. active'[Acceptor[k]] = active[Acceptor[k]]
      BY <2>1, <2>2 DEF Ends, NetInv, NetTypeOK
    <3> QED
      BY <2>1, <2>2, <3>1, PhaseFrame
  <2>3. CASE n \in Ends(k) /\ phase[k] # "unused"
    BY <2>1, <2>3, PhaseHangs
  <2>4. CASE n \in Ends(k) /\ phase[k] = "unused"
    BY <2>1, <2>4 DEF PhaseInv, PhaseOf
  <2> QED
    BY <2>2, <2>3, <2>4
<1> QED
  BY <1>1, <1>2

LEMMA PhaseSocket ==
  ASSUME NetInv, PhaseInv, NEW l \in Links,
         Socket(l) \/ \E n \in Ends(l) : HandshakeTimeout(n, l)
  PROVE  PhaseInv'
<1> SUFFICES ASSUME NEW k \in Links PROVE PhaseOf(k)'
  BY DEF PhaseInv
<1> USE DEF NetInv
<1>0. Dialer[l] \in Ends(l) /\ Acceptor[l] \in Ends(l) /\ Ends(l) \subseteq Nodes /\ Acceptor[k] \in Nodes
  BY Joined
<1>1. CASE Dial(l)
  <2>1. CASE k = l
    BY <1>1, <2>1 DEF Dial, PhaseInv, PhaseOf, NetTypeOK
  <2>2. CASE k # l
    BY <1>1, <2>2, PhaseFrame DEF Dial, NetTypeOK
  <2> QED
    BY <2>1, <2>2
<1>2. CASE Accept(l)
  <2>1. /\ \A j \in active[Acceptor[k]] \ SameLabel(Acceptor[l], l) : j \in active'[Acceptor[k]]
        /\ l \in active'[Acceptor[l]]
        /\ chan'[l][Dialer[l]] = Append(chan[l][Dialer[l]], [type |-> "challenge"])
        /\ chan'[l][Acceptor[l]] = chan[l][Acceptor[l]]
        /\ \A j \in Links \ {l} : chan'[j] = chan[j]
    <3>1. Register(Acceptor[l], l) /\ Other(l, Acceptor[l]) = Dialer[l]
      BY <1>2, Joined DEF Accept, Other
    <3> QED
      BY <1>0, <3>1, Registering
  <2>2. phase[l] = "dialing" /\ phase' = [phase EXCEPT ![l] = "accepted"] /\ since' = since
    BY <1>2 DEF Accept
  <2>3. CASE k = l
    <3>1. phase'[l] = "accepted"
      BY <2>2 DEF NetTypeOK
    <3>2. chan[l][Dialer[l]] = <<>> /\ chan[l][Acceptor[l]] = <<>>
      BY <1>0, <2>2 DEF PhaseInv, PhaseOf
    <3>3. Append(<<>>, [type |-> "challenge"]) = <<[type |-> "challenge"]>>
      OBVIOUS
    <3>4. \A n \in Nodes : since[n][l] = MaxEdits
      BY <2>2 DEF PhaseInv, PhaseOf
    <3> QED
      BY <2>1, <2>2, <2>3, <3>1, <3>2, <3>3, <3>4 DEF PhaseOf
  <2>4. CASE k # l
    <3>1. k \in active[Acceptor[k]] => k \in active'[Acceptor[k]]
      <4>1. Acceptor[k] = Acceptor[l] => k \notin SameLabel(Acceptor[l], l)
        BY <1>0, <2>4, OwnLabel
      <4>2. Acceptor[k] # Acceptor[l] => active'[Acceptor[k]] = active[Acceptor[k]]
        BY <1>0, <1>2, Registering DEF Accept
      <4> QED
        BY <2>1, <4>1, <4>2
    <3> QED
      BY <2>1, <2>2, <2>4, <3>1, PhaseFrame DEF NetTypeOK
  <2> QED
    BY <2>3, <2>4
<1>3. CASE Opened(l)
  <2>1. CASE k = l
    BY <1>3, <2>1, PhaseUp DEF Opened, NetTypeOK
  <2>2. CASE k # l
    <3>1. /\ \A j \in Links \ {l} : chan'[j] = chan[j]
          /\ \A j \in active[Acceptor[k]] \ SameLabel(Dialer[l], l) : j \in active'[Acceptor[k]]
          /\ Acceptor[k] # Dialer[l] => active'[Acceptor[k]] = active[Acceptor[k]]
      BY <1>0, <1>3, Registering DEF Opened
    <3>2. Acceptor[k] = Dialer[l] => k \notin SameLabel(Dialer[l], l)
      BY <1>0, <2>2, OwnLabel
    <3>3. phase'[k] = phase[k] /\ since' = since
      BY <1>3, <2>2 DEF Opened, NetTypeOK
    <3> QED
      BY <2>2, <3>1, <3>2, <3>3, PhaseFrame
  <2> QED
    BY <2>1, <2>2
<1>4. ASSUME Hangup(l), UNCHANGED <<active, since>> PROVE PhaseOf(k)'
  <2>1. CASE k = l
    BY <1>4, <2>1, Hanging, PhaseHangs
  <2>2. CASE k # l
    BY <1>4, <2>2, Hanging, PhaseFrame
  <2> QED
    BY <2>1, <2>2
<1>5. CASE Breaks(l)
  BY <1>4, <1>5 DEF Breaks
<1>6. CASE NoticesClose(l)
  <2>1. CASE k = l
    BY <1>6, <2>1, PhaseHangs DEF NoticesClose, PhaseInv, NetTypeOK, PhaseOf
  <2>2. CASE k # l
    <3>1. phase'[k] = phase[k] /\ since' = since /\ chan' = chan
      BY <1>6, <2>2 DEF NoticesClose, NetTypeOK
    <3>2. k \in active[Acceptor[k]] => k \in active'[Acceptor[k]]
      <4>1. active' = [active EXCEPT ![Dialer[l]] = @ \ SameLabel(Dialer[l], l)]
        BY <1>6 DEF NoticesClose
      <4>2. Acceptor[k] = Dialer[l] => k \notin SameLabel(Dialer[l], l)
        BY <1>0, <2>2, OwnLabel
      <4> QED
        BY <1>0, <4>1, <4>2 DEF NetTypeOK
    <3> QED
      BY <3>1, <3>2, PhaseFrame
  <2> QED
    BY <2>1, <2>2
<1>7. ASSUME NEW n \in Ends(l), HandshakeTimeout(n, l) PROVE PhaseOf(k)'
  <2>1. UNCHANGED <<active, since>>
    BY <1>7 DEF HandshakeTimeout
  <2>2. ASSUME UNCHANGED <<phase, chan>> PROVE PhaseOf(k)'
    BY <2>1, <2>2, PhaseFrame
  <2> QED
    BY <1>4, <1>7, <2>1, <2>2 DEF HandshakeTimeout
<1> QED
  BY <1>1, <1>2, <1>3, <1>5, <1>6, <1>7 DEF Socket

LEMMA PhaseReceive ==
  ASSUME NetInv, PhaseInv, NEW l \in Links, NEW n \in Ends(l), Receive(n, l)
  PROVE  PhaseInv'
<1> SUFFICES ASSUME NEW k \in Links PROVE PhaseOf(k)'
  BY DEF PhaseInv, PhaseOf
<1>0. active' = active /\ phase[l] = "up" /\ chan[l][n] # <<>>
  BY DEF Receive, Challenged, Proven, Refused, Offered, Applied, Dropped, Arrives
<1>1. CASE Refused(n, l)
  <2>1. Hangup(l) /\ since' = since
    BY <1>1 DEF Refused
  <2>2. CASE k = l
    BY <2>1, <2>2, Hanging, PhaseHangs DEF NetInv
  <2>3. CASE k # l
    BY <1>0, <2>1, <2>3, Hanging, PhaseFrame DEF NetInv
  <2> QED
    BY <2>2, <2>3
<1>2. CASE ~Refused(n, l)
  <2>1. phase' = phase
    BY <1>2 DEF Receive, Challenged, Proven, Refused, Offered, Applied, Dropped
  <2>2. CASE k = l
    BY <1>0, <2>1, <2>2, PhaseUp
  <2>3. CASE k # l
    <3>1. \A m \in Nodes : since'[m][k] = since[m][k]
      <4>1. CASE Proven(n, l)
        BY <2>3, <4>1 DEF Proven, NetInv, NetTypeOK
      <4>2. CASE ~Proven(n, l)
        BY <1>2, <4>2 DEF Receive, Challenged, Offered, Applied, Dropped
      <4> QED
        BY <4>1, <4>2
    <3>2. chan'[k] = chan[k]
      BY <1>2, <2>3, Receiving
    <3> QED
      BY <1>0, <2>1, <3>1, <3>2, PhaseFrame
  <2> QED
    BY <2>2, <2>3
<1> QED
  BY <1>1, <1>2

LEMMA PhaseNext == NetInv /\ PhaseInv /\ [Next]_vars => PhaseInv'
<1> SUFFICES ASSUME NetInv, PhaseInv, [Next]_vars PROVE PhaseInv'
  OBVIOUS
<1>1. ASSUME UNCHANGED <<phase, chan, active, since>> PROVE PhaseInv'
  BY <1>1 DEF PhaseInv, PhaseOf
<1>2. CASE UNCHANGED vars
  BY <1>1, <1>2 DEF vars, netVars
<1>3. ASSUME Tick \/ \E n \in Nodes : \E r \in Rows : Edit(n, r) PROVE PhaseInv'
  BY <1>1, <1>3 DEF Tick, Edit, netVars
<1> QED
  BY <1>2, <1>3, PhaseNode, PhaseSocket, PhaseReceive DEF Next

-----------------------------------------------------------------------------
(* Whose authentication a label stands for.                                *)

\* Labels are only withdrawn, and what stands for them stays.
LEMMA AuthFrame ==
  ASSUME AuthInv,
         \A n \in Nodes : Range(authed'[n]) \subseteq Range(authed[n]),
         \A k \in Links : phase[k] \in {"up", "down"} => phase'[k] \in {"up", "down"},
         \A k \in Links : phase[k] = "gone" => phase'[k] = "gone"
  PROVE  AuthInv'
<1> SUFFICES ASSUME NEW n \in Nodes, NEW x \in Range(authed'[n]) PROVE Backed(n, x)'
  BY DEF AuthInv
<1>1. Backed(n, x)
  BY DEF AuthInv
<1>2. CASE x \in Links /\ n = Acceptor[x] /\ phase[x] \in {"up", "down", "gone"}
  <2>1. phase'[x] \in {"up", "down", "gone"}
    BY <1>2
  <2> QED
    BY <1>2, <2>1 DEF Backed
<1>3. ASSUME NEW k \in Links, n = Dialer[k], x = Acceptor[k],
             phase[k] \in {"up", "down"} \/ (k \in Manual /\ phase[k] = "gone")
      PROVE  Backed(n, x)'
  BY <1>3 DEF Backed
<1> QED
  BY <1>1, <1>2, <1>3 DEF Backed

LEMMA AuthRestart ==
  ASSUME NetInv, AuthInv, NEW z \in Nodes, Restart(z)
  PROVE  AuthInv'
<1> SUFFICES ASSUME NEW n \in Nodes, NEW x \in Range(authed'[n]) PROVE Backed(n, x)'
  BY DEF AuthInv
<1>1. /\ \A k \in Links : phase'[k] = (IF phase[k] = "unused" \/ z \notin Ends(k) THEN phase[k]
                        ELSE IF z = Dialer[k] \/ phase[k] = "gone" THEN "gone" ELSE "down")
      /\ authed' = [authed EXCEPT ![z] = <<>>]
  BY DEF Restart
<1>2. n # z /\ authed'[n] = authed[n]
  BY <1>1 DEF NetInv, NetTypeOK, Range
<1>3. Backed(n, x)
  BY <1>2 DEF AuthInv
<1>4. CASE x \in Links /\ n = Acceptor[x] /\ phase[x] \in {"up", "down", "gone"}
  BY <1>1, <1>4 DEF Backed
<1>5. ASSUME NEW k \in Links, n = Dialer[k], x = Acceptor[k],
             phase[k] \in {"up", "down"} \/ (k \in Manual /\ phase[k] = "gone")
      PROVE  Backed(n, x)'
  BY <1>1, <1>2, <1>5 DEF Backed
<1> QED
  BY <1>3, <1>4, <1>5 DEF Backed

LEMMA AuthNotices ==
  ASSUME NetInv, AuthInv, NEW l \in Links, NoticesClose(l)
  PROVE  AuthInv'
<1> SUFFICES ASSUME NEW n \in Nodes, NEW x \in Range(authed'[n]) PROVE Backed(n, x)'
  BY DEF AuthInv
<1>1. /\ phase[l] = "down" /\ phase'[l] = "gone" /\ \A k \in Links \ {l} : phase'[k] = phase[k]
      /\ Dialer[l] \in Nodes /\ Dialer[l] \in Ends(l) /\ Label(Dialer[l], l) = Acceptor[l]
  BY Joined DEF NoticesClose, NetInv, NetTypeOK, Label
<1>2. /\ Range(authed'[n]) \subseteq Range(authed[n])
      /\ l \notin Manual /\ n = Dialer[l] => x # Acceptor[l]
  <2>1. CASE l \in Manual
    BY <2>1 DEF NoticesClose
  <2>2. CASE l \notin Manual
    <3>1. authed' = [authed EXCEPT ![Dialer[l]] = RemoveFirst(authed[Dialer[l]], Label(Dialer[l], l))]
      BY <2>2 DEF NoticesClose
    <3>2. /\ \A m \in Nodes \ {Dialer[l]} : authed'[m] = authed[m]
          /\ Range(authed'[Dialer[l]]) = Range(authed[Dialer[l]]) \ {Acceptor[l]}
      BY <1>1, <3>1, Withdrawing DEF NetInv
    <3> QED
      BY <3>2
  <2> QED
    BY <2>1, <2>2
<1>3. Backed(n, x)
  BY <1>2 DEF AuthInv
<1>4. CASE x \in Links /\ n = Acceptor[x] /\ phase[x] \in {"up", "down", "gone"}
  <2>1. phase'[x] \in {"up", "down", "gone"}
    BY <1>1, <1>4
  <2> QED
    BY <1>4, <2>1 DEF Backed
<1>5. ASSUME NEW k \in Links, n = Dialer[k], x = Acceptor[k],
             phase[k] \in {"up", "down"} \/ (k \in Manual /\ phase[k] = "gone")
      PROVE  Backed(n, x)'
  <2>1. k = l => l \in Manual
    BY <1>2, <1>5
  <2>2. phase'[k] \in {"up", "down"} \/ (k \in Manual /\ phase'[k] = "gone")
    BY <1>1, <1>5, <2>1
  <2> QED
    BY <1>5, <2>2 DEF Backed
<1> QED
  BY <1>3, <1>4, <1>5 DEF Backed

LEMMA AuthProven ==
  ASSUME NetInv, AuthInv, NEW l \in Links, NEW z \in Ends(l), Proven(z, l)
  PROVE  AuthInv'
<1> SUFFICES ASSUME NEW n \in Nodes, NEW x \in Range(authed'[n]) PROVE Backed(n, x)'
  BY DEF AuthInv
<1>1. phase' = phase /\ phase[l] = "up"
  BY DEF Proven, Arrives
<1>2. CASE x \in Range(authed[n])
  BY <1>1, <1>2 DEF AuthInv, Backed
<1>3. CASE x \notin Range(authed[n])
  <2>1. /\ z \in Nodes /\ \A m \in Nodes \ {z} : authed'[m] = authed[m]
        /\ Range(authed'[z]) \subseteq Range(authed[z]) \cup {Label(z, l)}
    BY Joined, Proving
  <2>2. n = z
    BY <1>3, <2>1
  <2>3. x = Label(z, l)
    BY <1>3, <2>1, <2>2
  <2>4. CASE z = Dialer[l]
    BY <1>1, <2>2, <2>3, <2>4 DEF Backed, Label
  <2>5. CASE z # Dialer[l]
    BY <1>1, <2>2, <2>3, <2>5 DEF Backed, Label, Ends
  <2> QED
    BY <2>4, <2>5
<1> QED
  BY <1>2, <1>3

LEMMA AuthNext == NetInv /\ AuthInv /\ [Next]_vars => AuthInv'
<1> SUFFICES ASSUME NetInv, AuthInv, [Next]_vars PROVE AuthInv'
  OBVIOUS
<1>1. ASSUME authed' = authed,
             \A k \in Links : phase[k] \in {"up", "down"} => phase'[k] \in {"up", "down"},
             \A k \in Links : phase[k] = "gone" => phase'[k] = "gone"
      PROVE  AuthInv'
  BY <1>1, AuthFrame
<1>2. ASSUME UNCHANGED <<authed, phase>> PROVE AuthInv'
  BY <1>1, <1>2
<1>3. CASE UNCHANGED vars
  BY <1>2, <1>3 DEF vars, netVars
<1>4. ASSUME Tick \/ \E n \in Nodes : Poll(n) \/ \E r \in Rows : Edit(n, r) PROVE AuthInv'
  BY <1>2, <1>4 DEF Tick, Poll, Edit, netVars
<1>5. ASSUME NEW l \in Links, Hangup(l), phase[l] # "gone", authed' = authed PROVE AuthInv'
  BY <1>1, <1>5, Hanging DEF NetInv
<1>6. ASSUME NEW l \in Links, Socket(l) PROVE AuthInv'
  <2>1. CASE Dial(l) \/ Accept(l) \/ Opened(l)
    BY <1>1, <2>1 DEF Dial, Accept, Opened, NetInv, NetTypeOK
  <2>2. CASE Breaks(l)
    BY <1>5, <2>2 DEF Breaks
  <2> QED
    BY <1>6, <2>1, <2>2, AuthNotices DEF Socket
<1>7. ASSUME NEW l \in Links, NEW n \in Ends(l), HandshakeTimeout(n, l) PROVE AuthInv'
  <2>1. authed' = authed
    BY <1>7 DEF HandshakeTimeout
  <2>2. \/ Hangup(l) /\ phase[l] # "gone"
        \/ phase' = phase
    BY <1>7 DEF HandshakeTimeout
  <2> QED
    BY <1>2, <1>5, <2>1, <2>2
<1>8. ASSUME NEW l \in Links, NEW n \in Ends(l), Receive(n, l) PROVE AuthInv'
  <2>1. CASE Challenged(n, l) \/ Offered(n, l) \/ Applied(n, l) \/ Dropped(n, l)
    BY <1>2, <2>1 DEF Challenged, Offered, Applied, Dropped
  <2>2. CASE Refused(n, l)
    <3>1. \A m \in Nodes : Range(authed'[m]) \subseteq Range(authed[m])
      <4>1. /\ \A m \in Nodes \ {n} : authed'[m] = authed[m]
            /\ Range(authed'[n]) = Range(authed[n]) \ {Label(n, l)}
        BY <2>2, Withdrawing DEF Refused, NetInv
      <4> QED
        BY <4>1
    <3>2. phase[l] = "up" /\ phase'[l] = "down" /\ \A k \in Links \ {l} : phase'[k] = phase[k]
      BY <2>2, Hanging DEF Refused, Arrives, NetInv
    <3> QED
      BY <3>1, <3>2, AuthFrame
  <2> QED
    BY <1>8, <2>1, <2>2, AuthProven DEF Receive
<1> QED
  BY <1>3, <1>4, <1>6, <1>7, <1>8, AuthRestart DEF Next

-----------------------------------------------------------------------------
(* Queues of frames.                                                       *)

LEMMA QueueReads ==
  ASSUME NEW q \in Seq(Frames), q # <<>>
  PROVE  /\ Tail(q) \in Seq(Frames) /\ Head(q) = q[1]
         /\ \A type : Among(q, type) <=> Head(q).type = type \/ Among(Tail(q), type)
         /\ Clean(q) => Clean(Tail(q))
         /\ Waiting(q) => Clean(Tail(q)) /\ Head(q).type \notin {"offer", "delta"}
         /\ Waiting(q) /\ Head(q).type # "auth" => Waiting(Tail(q))
<1>1. /\ Tail(q) \in Seq(Frames) /\ Head(q) = q[1] /\ Len(q) \in Nat /\ Len(q) >= 1
      /\ DOMAIN q = 1..Len(q) /\ DOMAIN Tail(q) = 1..(Len(q) - 1)
      /\ \A i \in 1..(Len(q) - 1) : Tail(q)[i] = q[i + 1]
  OBVIOUS
<1> DEFINE t == Tail(q)
<1> HIDE DEF t
<1>2. DOMAIN t = 1..(Len(q) - 1) /\ \A i \in 1..(Len(q) - 1) : t[i] = q[i + 1]
  BY <1>1 DEF t
<1>3. ASSUME NEW type PROVE Among(q, type) <=> q[1].type = type \/ Among(t, type)
  <2>1. ASSUME NEW i \in 1..Len(q), q[i].type = type PROVE q[1].type = type \/ Among(t, type)
    <3>1. CASE i = 1
      BY <2>1, <3>1
    <3>2. CASE i # 1
      <4>1. PICK j \in 1..(Len(q) - 1) : i = j + 1
        <5>1. i - 1 \in 1..(Len(q) - 1) /\ i = (i - 1) + 1
          BY <1>1, <3>2
        <5> QED
          BY <5>1
      <4> QED
        BY <1>2, <2>1, <4>1 DEF Among
    <3> QED
      BY <3>1, <3>2
  <2>2. ASSUME NEW i \in 1..(Len(q) - 1), t[i].type = type PROVE Among(q, type)
    <3>1. i + 1 \in 1..Len(q)
      BY <1>1
    <3> QED
      BY <1>1, <1>2, <2>2, <3>1 DEF Among
  <2> QED
    BY <1>1, <1>2, <2>1, <2>2 DEF Among
<1>4. Clean(q) => Clean(t)
  BY <1>3 DEF Clean
<1>5. ASSUME Waiting(q) PROVE Clean(t) /\ q[1].type \notin {"offer", "delta"}
  <2>1. \A i \in 1..(Len(q) - 1) : i + 1 \in 1..Len(q) /\ i + 1 # 1
    BY <1>1
  <2>2. Clean(t)
    BY <1>1, <1>2, <1>5, <2>1 DEF Waiting, Clean, Among
  <2>3. 1 \in 1..Len(q) /\ 1..(1 - 1) = {}
    BY <1>1
  <2>4. q[1].type \notin {"offer", "delta"}
    BY <1>1, <1>5, <2>3 DEF Waiting
  <2> QED
    BY <2>2, <2>4
<1>6. ASSUME Waiting(q), q[1].type # "auth" PROVE Waiting(t)
  <2>1. ASSUME NEW i \in 1..(Len(q) - 1), t[i].type \in {"offer", "delta"}
        PROVE  \E j \in 1..i - 1 : t[j].type = "auth"
    <3>1. i + 1 \in 1..Len(q) /\ q[i + 1].type \in {"offer", "delta"}
      BY <1>1, <1>2, <2>1
    <3>2. PICK k \in 1..((i + 1) - 1) : q[k].type = "auth"
      BY <1>1, <1>6, <3>1 DEF Waiting
    <3>3. PICK j \in 1..i - 1 : k = j + 1 /\ j \in 1..(Len(q) - 1)
      <4>1. k # 1
        BY <1>6, <3>2
      <4>2. k - 1 \in 1..i - 1 /\ k = (k - 1) + 1 /\ k - 1 \in 1..(Len(q) - 1)
        BY <1>1, <4>1
      <4> QED
        BY <4>2
    <3> QED
      BY <1>2, <3>2, <3>3
  <2> QED
    BY <1>2, <1>5, <1>6, <2>1 DEF Waiting, Clean, Among
<1> QED
  BY <1>1, <1>3, <1>4, <1>5, <1>6 DEF t

LEMMA QueueSends ==
  ASSUME NEW q \in Seq(Frames), NEW f \in Frames
  PROVE  /\ Append(q, f) \in Seq(Frames)
         /\ \A type : Among(Append(q, f), type) <=> Among(q, type) \/ f.type = type
         /\ Clean(q) /\ f.type # "challenge" => Clean(Append(q, f))
         /\ /\ Waiting(q) /\ f.type # "challenge"
            /\ f.type \in {"offer", "delta"} => Among(q, "auth")
            => Waiting(Append(q, f))
<1> DEFINE a == Append(q, f)
<1>1. /\ a \in Seq(Frames) /\ Len(q) \in Nat /\ DOMAIN q = 1..Len(q)
      /\ DOMAIN a = 1..(Len(q) + 1) /\ a[Len(q) + 1] = f
      /\ \A i \in 1..Len(q) : a[i] = q[i]
  OBVIOUS
<1> HIDE DEF a
<1>2. ASSUME NEW type PROVE Among(a, type) <=> Among(q, type) \/ f.type = type
  <2>1. \A i \in 1..(Len(q) + 1) : i \in 1..Len(q) \/ i = Len(q) + 1
    BY <1>1
  <2>2. Len(q) + 1 \in 1..(Len(q) + 1) /\ 1..Len(q) \subseteq 1..(Len(q) + 1)
    BY <1>1
  <2> QED
    BY <1>1, <2>1, <2>2 DEF Among
<1>3. ASSUME Waiting(q), f.type # "challenge",
             f.type \in {"offer", "delta"} => Among(q, "auth")
      PROVE  Waiting(a)
  <2> SUFFICES ASSUME NEW i \in 1..(Len(q) + 1)
               PROVE  /\ a[i].type = "challenge" => i = 1
                      /\ a[i].type \in {"offer", "delta"} => \E j \in 1..i - 1 : a[j].type = "auth"
    BY <1>1 DEF Waiting
  <2>1. CASE i = Len(q) + 1
    <3>1. 1..i - 1 = 1..Len(q)
      BY <1>1, <2>1
    <3> QED
      BY <1>1, <1>3, <2>1, <3>1 DEF Among
  <2>2. CASE i \in 1..Len(q)
    <3>1. 1..i - 1 \subseteq 1..Len(q)
      BY <1>1, <2>2
    <3> QED
      BY <1>1, <1>3, <2>2, <3>1 DEF Waiting
  <2> QED
    BY <1>1, <2>1, <2>2
<1> QED
  BY <1>1, <1>2, <1>3 DEF a, Clean

\* What a packet tells is kept by a queue that grows, and leaves it with the packet.
LEMMA CarriesKept ==
  ASSUME NetTypeOK, NetTypeOK', NEW l \in Links, NEW n \in Nodes, NEW k \in Nat, Carries(l, n, k)
  PROVE  /\ chan'[l][n] = chan[l][n] => Carries(l, n, k)'
         /\ \A f \in Frames : chan'[l][n] = Append(chan[l][n], f) => Carries(l, n, k)'
         /\ chan'[l][n] = Tail(chan[l][n]) =>
              \/ Carries(l, n, k)'
              \/ /\ Head(chan[l][n]).type = "delta"
                 /\ Head(chan[l][n]).from < k /\ k <= Head(chan[l][n]).to
<1> DEFINE q == chan[l][n]
           r == chan'[l][n]
           Has(s, i) == s[i].type = "delta" /\ s[i].from < k /\ k <= s[i].to
<1>1. q \in Seq(Frames) /\ r \in Seq(Frames)
  BY DEF NetTypeOK, Channels
<1>2. PICK i \in DOMAIN q : Has(q, i)
  BY DEF Carries
<1>3. ASSUME NEW j \in DOMAIN r, r[j] = q[i] PROVE Carries(l, n, k)'
  BY <1>2, <1>3 DEF Carries
<1>4. ASSUME r = q PROVE Carries(l, n, k)'
  BY <1>2, <1>3, <1>4
<1>5. ASSUME NEW f \in Frames, r = Append(q, f) PROVE Carries(l, n, k)'
  <2>1. i \in DOMAIN Append(q, f) /\ Append(q, f)[i] = q[i]
    BY <1>1, <1>2
  <2> QED
    BY <1>3, <1>5, <2>1
<1>6. ASSUME r = Tail(q), i # 1 PROVE Carries(l, n, k)'
  <2>1. Len(q) \in Nat /\ i \in 1..Len(q) /\ q # <<>>
    BY <1>1, <1>2
  <2>2. i - 1 \in DOMAIN Tail(q) /\ Tail(q)[i - 1] = q[(i - 1) + 1] /\ (i - 1) + 1 = i
    BY <1>1, <1>6, <2>1
  <2> QED
    BY <1>3, <1>6, <2>2
<1>7. i = 1 => Has(q, 1) /\ Head(q) = q[1]
  BY <1>1, <1>2
<1> QED
  BY <1>4, <1>5, <1>6, <1>7

-----------------------------------------------------------------------------
(* Links that stay up.                                                     *)

LEMMA ConfusedGrows == [Next]_vars => Confused \subseteq Confused'
<1> SUFFICES ASSUME [Next]_vars PROVE evicted \subseteq evicted' /\ doubled \subseteq doubled'
  BY DEF Confused
<1>1. CASE UNCHANGED vars
  BY <1>1 DEF vars, netVars
<1>2. ASSUME Tick \/ \E n \in Nodes : Poll(n) \/ Restart(n) \/ \E r \in Rows : Edit(n, r)
      PROVE  UNCHANGED <<evicted, doubled>>
  BY <1>2 DEF Tick, Poll, Restart, Edit, netVars
<1>3. ASSUME NEW l \in Links, Socket(l)
      PROVE  evicted' = evicted /\ doubled \subseteq doubled'
  BY <1>3 DEF Socket, Dial, Accept, Opened, Breaks, NoticesClose
<1>4. ASSUME NEW l \in Links, NEW n \in Ends(l), HandshakeTimeout(n, l) \/ Receive(n, l)
      PROVE  evicted \subseteq evicted' /\ doubled' = doubled
  BY <1>4 DEF HandshakeTimeout, Receive, Challenged, Proven, Refused, Offered, Applied, Dropped
<1> QED
  BY <1>1, <1>2, <1>3, <1>4 DEF Next

\* Another socket that shares the label of a sound link is a rival, and is over
\* or has not begun.
LEMMA Alone ==
  ASSUME NEW l \in Links, LinkSound(l), NEW k \in Links, k # l,
         NEW n \in Ends(l), n \in Ends(k), Label(n, k) = Label(n, l)
  PROVE  k \in Rivals(l) /\ phase[k] \in {"unused", "gone"}
<1>1. k \in Rivals(l)
  BY Joined, Labels, RivalFacts
<1> QED
  BY <1>1 DEF LinkSound, NoRival

LEMMA SteadyNode ==
  ASSUME NetInv, NEW l \in Links, phase[l] = "up", phase'[l] = "up", LinkSound(l),
         NEW n \in Nodes, Restart(n)
  PROVE  /\ n \notin Ends(l)
         /\ Registered(l)' /\ NoRival(l)'
         /\ \A m \in Ends(l) : authed'[m] = authed[m]
<1>1. /\ \A k \in Links : phase'[k] = (IF phase[k] = "unused" \/ n \notin Ends(k) THEN phase[k]
                        ELSE IF n = Dialer[k] \/ phase[k] = "gone" THEN "gone" ELSE "down")
      /\ active' = [active EXCEPT ![n] = {}]
      /\ authed' = [authed EXCEPT ![n] = <<>>]
  BY DEF Restart
<1>2. n \notin Ends(l)
  BY <1>1
<1>3. \A m \in Ends(l) : m \in Nodes /\ m # n /\ authed'[m] = authed[m] /\ active'[m] = active[m]
  BY <1>1, <1>2, Joined DEF NetInv, NetTypeOK
<1>4. \A k \in Rivals(l) : k \in Links /\ phase'[k] = phase[k]
  <2>1. \A k \in Rivals(l) : k \in Links /\ Ends(k) = Ends(l)
    BY RivalFacts DEF Rivals, SameLabel
  <2> QED
    BY <1>1, <1>2, <2>1
<1>5. Registered(l)'
  BY <1>3, Joined DEF LinkSound, Registered
<1>6. NoRival(l)'
  BY <1>4 DEF LinkSound, NoRival, Rivals, SameLabel
<1> QED
  BY <1>2, <1>3, <1>5, <1>6

\* A socket that dials, opens or closes beside a sound link is no rival of it.
LEMMA SteadySocket ==
  ASSUME NetInv, NEW l \in Links, phase[l] = "up", phase'[l] = "up", LinkSound(l),
         NEW k \in Links, Socket(k) \/ \E n \in Ends(k) : HandshakeTimeout(n, k)
  PROVE  /\ Registered(l)' /\ NoRival(l)'
         /\ \A m \in Ends(l) : Authed(m, l)' <=> Authed(m, l)
         /\ chan'[l] = chan[l]
<1> USE DEF NetInv
<1>0. /\ Dialer[l] \in Nodes /\ Acceptor[l] \in Nodes /\ Dialer[k] \in Nodes /\ Acceptor[k] \in Nodes
      /\ Dialer[l] \in Ends(l) /\ Acceptor[l] \in Ends(l)
      /\ Dialer[k] \in Ends(k) /\ Acceptor[k] \in Ends(k)
  BY Joined
<1>1. /\ l \in active[Dialer[l]] /\ l \in active[Acceptor[l]]
      /\ \A j \in Rivals(l) : j \in Links /\ phase[j] \in {"unused", "gone"}
  BY DEF LinkSound, Registered, NoRival, Rivals, SameLabel
<1>2. ASSUME \A j \in Links \ {k} : phase'[j] = phase[j], k \notin Rivals(l)
      PROVE  NoRival(l)'
  BY <1>1, <1>2 DEF NoRival, Rivals, SameLabel
<1>3. ASSUME active' = active PROVE Registered(l)'
  BY <1>1, <1>3 DEF Registered
<1>4. ASSUME authed' = authed PROVE \A m \in Ends(l) : Authed(m, l)' <=> Authed(m, l)
  BY <1>4 DEF Authed, Label
<1>5. k # l => \A m \in {Dialer[k], Acceptor[k]} :
                  m \in Ends(l) /\ l \in SameLabel(m, k) => k \in Rivals(l)
  BY <1>0, Alone DEF SameLabel
<1>6. CASE Dial(k)
  <2>1. phase[k] = "unused" /\ k # l /\ phase' = [phase EXCEPT ![k] = "dialing"]
        /\ UNCHANGED <<active, authed, chan>>
    BY <1>6 DEF Dial
  <2>2. k \notin Rivals(l)
    <3>1. SUFFICES ASSUME k \in Rivals(l) PROVE FALSE
      OBVIOUS
    <3>2. Dialer[k] = Dialer[l] /\ Acceptor[k] = Acceptor[l]
      BY <3>1, RivalFacts
    <3>3. l \in SameLabel(Dialer[k], k)
      BY <1>0, <3>2 DEF SameLabel, Label
    <3> QED
      BY <1>1, <1>6, <3>2, <3>3 DEF Dial
  <2> QED
    BY <1>2, <1>3, <1>4, <2>1, <2>2 DEF NetTypeOK
<1>7. ASSUME NEW n \in Ends(k), n \in {Dialer[k], Acceptor[k]}, Register(n, k), k # l, k \notin Rivals(l)
      PROVE  Registered(l)' /\ chan'[l] = chan[l]
  <2>1. /\ \A m \in Nodes : \A j \in active[m] \ SameLabel(n, k) : j \in active'[m]
        /\ \A m \in Nodes \ {n} : active'[m] = active[m]
        /\ \A j \in Links \ {k} : chan'[j] = chan[j]
    BY <1>7, Registering
  <2>2. n \in Ends(l) => l \notin SameLabel(n, k)
    BY <1>5, <1>7
  <2> QED
    BY <1>0, <1>1, <1>7, <2>1, <2>2 DEF Registered
<1>8. CASE Accept(k)
  <2>1. phase[k] = "dialing" /\ k # l /\ phase' = [phase EXCEPT ![k] = "accepted"]
        /\ authed' = authed /\ Register(Acceptor[k], k)
    BY <1>8 DEF Accept
  <2>2. k \notin Rivals(l)
    BY <1>1, <2>1
  <2> QED
    BY <1>0, <1>2, <1>4, <1>7, <2>1, <2>2 DEF NetTypeOK
<1>9. CASE Opened(k)
  <2>1. phase[k] = "accepted" /\ k # l /\ phase' = [phase EXCEPT ![k] = "up"]
        /\ authed' = authed /\ Register(Dialer[k], k)
    BY <1>9 DEF Opened
  <2>2. k \notin Rivals(l)
    BY <1>1, <2>1
  <2> QED
    BY <1>0, <1>2, <1>4, <1>7, <2>1, <2>2 DEF NetTypeOK
<1>10. ASSUME Hangup(k), phase[k] \in {"dialing", "accepted", "up"}, UNCHANGED <<active, authed>>
       PROVE  /\ Registered(l)' /\ NoRival(l)'
              /\ \A m \in Ends(l) : Authed(m, l)' <=> Authed(m, l)
              /\ chan'[l] = chan[l]
  <2>1. k # l /\ chan'[l] = chan[l] /\ \A j \in Links \ {k} : phase'[j] = phase[j]
    BY <1>10, Hanging
  <2>2. k \notin Rivals(l)
    BY <1>1, <1>10
  <2> QED
    BY <1>2, <1>3, <1>4, <1>10, <2>1, <2>2
<1>11. CASE Breaks(k)
  BY <1>10, <1>11 DEF Breaks
<1>12. CASE NoticesClose(k)
  <2>1. phase[k] = "down" /\ k # l /\ phase' = [phase EXCEPT ![k] = "gone"] /\ chan' = chan
        /\ active' = [active EXCEPT ![Dialer[k]] = @ \ SameLabel(Dialer[k], k)]
    BY <1>12 DEF NoticesClose
  <2>2. k \notin Rivals(l)
    BY <1>1, <2>1
  <2>3. Dialer[k] \in Ends(l) => l \notin SameLabel(Dialer[k], k) /\ Label(Dialer[k], k) # Label(Dialer[k], l)
    BY <1>0, <2>1, <2>2, Alone DEF SameLabel
  <2>4. Registered(l)'
    BY <1>0, <1>1, <2>1, <2>3 DEF Registered, NetTypeOK
  <2>5. \A m \in Ends(l) : Authed(m, l)' <=> Authed(m, l)
    <3>1. CASE k \in Manual
      BY <1>4, <1>12, <3>1 DEF NoticesClose
    <3>2. CASE k \notin Manual
      <4>1. authed' = [authed EXCEPT ![Dialer[k]] = RemoveFirst(authed[Dialer[k]], Label(Dialer[k], k))]
        BY <1>12, <3>2 DEF NoticesClose
      <4>2. /\ \A m \in Nodes \ {Dialer[k]} : authed'[m] = authed[m]
            /\ Range(authed'[Dialer[k]]) = Range(authed[Dialer[k]]) \ {Label(Dialer[k], k)}
        BY <1>0, <4>1, Withdrawing
      <4> SUFFICES ASSUME NEW m \in Ends(l)
                   PROVE  Label(m, l) \in Range(authed'[m]) <=> Label(m, l) \in Range(authed[m])
        BY DEF Authed, Label
      <4>3. m \in Nodes
        BY Joined
      <4> QED
        BY <2>3, <4>2, <4>3
    <3> QED
      BY <3>1, <3>2
  <2> QED
    BY <1>2, <2>1, <2>2, <2>4, <2>5 DEF NetTypeOK
<1>13. ASSUME NEW n \in Ends(k), HandshakeTimeout(n, k)
       PROVE  /\ Registered(l)' /\ NoRival(l)'
              /\ \A m \in Ends(l) : Authed(m, l)' <=> Authed(m, l)
              /\ chan'[l] = chan[l]
  <2>1. UNCHANGED <<active, authed>>
    BY <1>13 DEF HandshakeTimeout
  <2>2. CASE UNCHANGED <<phase, chan>>
    BY <1>1, <1>3, <1>4, <2>1, <2>2 DEF NoRival, Rivals, SameLabel
  <2>3. CASE Hangup(k) /\ phase[k] \in {"accepted", "up"}
    BY <1>10, <2>1, <2>3
  <2> QED
    BY <1>13, <2>2, <2>3 DEF HandshakeTimeout
<1> QED
  BY <1>6, <1>8, <1>9, <1>11, <1>12, <1>13 DEF Socket

LEMMA SteadyReceive ==
  ASSUME NetInv, NEW l \in Links \ Confused', phase[l] = "up", phase'[l] = "up", LinkSound(l),
         NEW k \in Links, NEW n \in Ends(k), Receive(n, k)
  PROVE  /\ Registered(l)' /\ NoRival(l)'
         /\ \A m \in Ends(l) : Authed(m, l) => Authed(m, l)'
         /\ \A m \in Ends(l) : Authed(m, l)' => Authed(m, l) \/ (Proven(n, k) /\ m = n /\ k = l)
<1> USE DEF NetInv
<1>0. n \in Nodes /\ phase[k] = "up" /\ active' = active /\ \A m \in Ends(l) : m \in Nodes
  BY Joined DEF Receive, Challenged, Proven, Refused, Offered, Applied, Dropped, Arrives
<1>1. /\ Registered(l)
      /\ \A j \in Rivals(l) : j \in Links /\ phase[j] \in {"unused", "gone"}
      /\ k \notin Rivals(l)
  BY <1>0 DEF LinkSound, NoRival, Rivals, SameLabel
<1>2. Registered(l)'
  BY <1>0, <1>1 DEF Registered
<1>3. ASSUME \A j \in Links \ {k} : phase'[j] = phase[j] PROVE NoRival(l)'
  BY <1>1, <1>3 DEF NoRival, Rivals, SameLabel
<1>4. ASSUME authed' = authed PROVE \A m \in Ends(l) : Authed(m, l)' <=> Authed(m, l)
  BY <1>4 DEF Authed, Label
<1>5. k # l /\ n \in Ends(l) => Label(n, k) # Label(n, l)
  BY <1>1, Alone
<1>6. CASE Challenged(n, k) \/ Offered(n, k) \/ Applied(n, k) \/ Dropped(n, k)
  <2>1. UNCHANGED <<phase, authed>>
    BY <1>6 DEF Challenged, Offered, Applied, Dropped
  <2> QED
    BY <1>2, <1>3, <1>4, <2>1
<1>7. CASE Refused(n, k)
  <2>1. Hangup(k)
    BY <1>7 DEF Refused
  <2>2. k # l /\ \A j \in Links \ {k} : phase'[j] = phase[j]
    BY <2>1, Hanging
  <2>3. \A m \in Ends(l) : Authed(m, l)' <=> Authed(m, l)
    <3>1. /\ \A m \in Nodes \ {n} : authed'[m] = authed[m]
          /\ Range(authed'[n]) = Range(authed[n]) \ {Label(n, k)}
      BY <1>7, Withdrawing DEF Refused
    <3> SUFFICES ASSUME NEW m \in Ends(l)
                 PROVE  Label(m, l) \in Range(authed'[m]) <=> Label(m, l) \in Range(authed[m])
      BY DEF Authed, Label
    <3> QED
      BY <1>0, <1>5, <2>2, <3>1
  <2> QED
    BY <1>2, <1>3, <2>2, <2>3
<1>8. CASE Proven(n, k)
  <2>1. phase' = phase
    BY <1>8 DEF Proven
  <2>2. /\ \A m \in Nodes \ {n} : authed'[m] = authed[m]
        /\ Range(authed'[n]) \subseteq Range(authed[n]) \cup {Label(n, k)}
    BY <1>8, Proving
  <2>3. ASSUME NEW m \in Ends(l), Authed(m, l) PROVE Authed(m, l)'
    <3> SUFFICES ASSUME ~Authed(m, l)' PROVE FALSE
      OBVIOUS
    <3>1. m = n
      BY <1>0, <2>2, <2>3 DEF Authed, Label
    <3>2. l \in evicted'
      BY <1>8, <2>3, <3>1 DEF Proven
    <3> QED
      BY <3>2 DEF Confused
  <2>4. ASSUME NEW m \in Ends(l), Authed(m, l)', ~Authed(m, l) PROVE m = n /\ k = l
    <3>1. Label(m, l) \in Range(authed'[m]) /\ Label(m, l) \notin Range(authed[m])
      BY <2>4 DEF Authed, Label
    <3>2. m = n
      BY <1>0, <2>2, <3>1
    <3>3. Label(n, l) = Label(n, k)
      BY <2>2, <3>1, <3>2
    <3> QED
      BY <1>5, <3>2, <3>3
  <2> QED
    BY <1>2, <1>3, <1>8, <2>1, <2>3, <2>4
<1> QED
  BY <1>6, <1>7, <1>8 DEF Receive

-----------------------------------------------------------------------------
(* A socket that opens.                                                    *)

LEMMA OpenedSound ==
  ASSUME NetInv, PhaseInv, AuthInv, NEW l \in Links \ Confused', Opened(l),
         Confused \subseteq Confused'
  PROVE  LinkSound(l)'
<1>0. /\ Dialer[l] \in Nodes /\ Acceptor[l] \in Nodes /\ Dialer[l] # Acceptor[l]
      /\ Dialer[l] \in Ends(l) /\ Ends(l) = {Dialer[l], Acceptor[l]}
      /\ Other(l, Dialer[l]) = Acceptor[l] /\ Other(l, Acceptor[l]) = Dialer[l]
      /\ Label(Dialer[l], l) = Acceptor[l] /\ Label(Acceptor[l], l) = l
      /\ Acceptor[l] \notin Links /\ l \notin Nodes
  BY Joined DEF Other, Label
<1>1. /\ phase[l] = "accepted" /\ phase' = [phase EXCEPT ![l] = "up"]
      /\ Register(Dialer[l], l)
      /\ UNCHANGED <<log, authed, since>>
  BY DEF Opened
<1>2. /\ chan[l][Dialer[l]] = <<[type |-> "challenge"]>> /\ chan[l][Acceptor[l]] = <<>>
      /\ l \in active[Acceptor[l]]
      /\ \A n \in Nodes : since[n][l] = MaxEdits
  BY <1>1 DEF PhaseInv, PhaseOf
<1>3. NoRival(l) /\ \A k \in Rivals(l) : k \notin Manual
  <2> SUFFICES ASSUME NEW k \in Rivals(l)
               PROVE  phase[k] \in {"unused", "gone"} /\ k \notin Manual
    BY DEF NoRival
  <2>1. k \in Links /\ k # l /\ Ends(k) = Ends(l)
    BY RivalFacts DEF Rivals, SameLabel
  <2>2. l \notin doubled' /\ k \notin Manual
    BY DEF Confused, Rivals
  <2>3. ASSUME phase[k] \notin {"unused", "gone"} PROVE FALSE
    <3>1. k \in {j \in Links \ {l} : Ends(j) = Ends(l) /\ phase[j] \notin {"unused", "gone"}}
      BY <2>1, <2>3
    <3>2. l \in doubled'
      BY <3>1 DEF Opened
    <3> QED
      BY <2>2, <3>2
  <2> QED
    BY <2>2, <2>3
<1>4. NoRival(l)'
  <2>1. \A k \in Rivals(l) : k \in Links \ {l}
    BY DEF Rivals, SameLabel
  <2>2. \A k \in Rivals(l) : phase'[k] = phase[k]
    BY <1>1, <2>1 DEF NetInv, NetTypeOK
  <2> QED
    BY <1>3, <2>2 DEF NoRival, Rivals, SameLabel
<1>5. /\ l \in active'[Dialer[l]] /\ active'[Acceptor[l]] = active[Acceptor[l]]
      /\ chan'[l][Acceptor[l]] = Append(chan[l][Acceptor[l]], [type |-> "challenge"])
      /\ chan'[l][Dialer[l]] = chan[l][Dialer[l]]
  BY <1>0, <1>1, Registering DEF NetInv
<1>6. Registered(l)'
  BY <1>2, <1>5 DEF Registered
<1>7. l \notin Range(authed[Acceptor[l]])
  <2> SUFFICES ASSUME l \in Range(authed[Acceptor[l]]) PROVE FALSE
    OBVIOUS
  <2>1. Backed(Acceptor[l], l)
    BY <1>0 DEF AuthInv
  <2>2. phase[l] \notin {"up", "down", "gone"}
    BY <1>1
  <2>3. \A k \in Links : l # Acceptor[k]
    BY <1>0, Joined
  <2> QED
    BY <2>1, <2>2, <2>3 DEF Backed
<1>8. Acceptor[l] \notin Range(authed[Dialer[l]])
  <2> SUFFICES ASSUME Acceptor[l] \in Range(authed[Dialer[l]]) PROVE FALSE
    OBVIOUS
  <2>1. Backed(Dialer[l], Acceptor[l])
    BY <1>0 DEF AuthInv
  <2>2. PICK k \in Links : /\ Dialer[l] = Dialer[k] /\ Acceptor[l] = Acceptor[k]
                           /\ phase[k] \in {"up", "down"} \/ (k \in Manual /\ phase[k] = "gone")
    BY <1>0, <2>1 DEF Backed
  <2>3. k # l
    BY <1>1, <2>2
  <2>4. k \in Rivals(l)
    BY <2>2, <2>3, RivalFacts
  <2> QED
    BY <1>3, <2>2, <2>4 DEF NoRival
<1>9. ASSUME NEW n \in Ends(l) PROVE Shaken(l, n)'
  <2>1. Label(n, l) \notin Range(authed'[n])
    BY <1>0, <1>1, <1>7, <1>8
  <2>2. chan'[l][n] = <<[type |-> "challenge"]>> /\ chan'[l][Other(l, n)] = <<[type |-> "challenge"]>>
    BY <1>0, <1>2, <1>5
  <2>3. Waiting(<<[type |-> "challenge"]>>)
    BY DEF Waiting
  <2>4. Among(<<[type |-> "challenge"]>>, "challenge")
    BY DEF Among
  <2>5. Waiting(chan'[l][n]) /\ Among(chan'[l][Other(l, n)], "challenge")
    BY <2>2, <2>3, <2>4
  <2> QED
    BY <2>1, <2>5 DEF Shaken, Authed, Label, Waiting, Among, Other
<1>10. ASSUME NEW n \in Ends(l) PROVE Told(l, n)'
  <2>1. n \in Nodes /\ since'[n][l] = MaxEdits /\ log' = log
    BY <1>0, <1>1, <1>2
  <2>2. MaxEdits + 1..Len(log[n]) = {}
    BY <2>1, LogFacts
  <2> QED
    BY <2>1, <2>2 DEF Told
<1> QED
  BY <1>4, <1>6, <1>9, <1>10 DEF LinkSound, Ends

-----------------------------------------------------------------------------
(* The handshake of a link that stays up.                                  *)

LEMMA ShakenFrame ==
  ASSUME NEW l \in Links, NEW n \in Ends(l), Shaken(l, n), chan'[l] = chan[l],
         Authed(n, l)' <=> Authed(n, l)
  PROVE  Shaken(l, n)'
BY DEF Shaken, Waiting, Clean, Among, Other

\* The poll sends only to peers that have been authenticated.
LEMMA ShakenPoll ==
  ASSUME NetInv, NEW l \in Links, phase[l] = "up", LinkSound(l), NEW z \in Nodes, Poll(z),
         NEW n \in Ends(l)
  PROVE  Shaken(l, n)'
<1>0. n \in Nodes /\ Other(l, n) \in Nodes /\ Other(l, n) \in Ends(l) /\ Other(l, Other(l, n)) = n
  BY Joined
<1> DEFINE o == Other(l, n)
           f == DeltasAfter(z, watermark[z])
           q == chan[l][n]
           p == chan[l][o]
           qf == Append(q, f)
           pf == Append(p, f)
<1>1. Shaken(l, n) /\ Shaken(l, o)
  BY <1>0 DEF LinkSound
<1>2. q \in Seq(Frames) /\ p \in Seq(Frames)
  BY <1>0 DEF NetInv, NetTypeOK, Channels
<1>3. f \in Frames /\ f.type = "delta"
  BY PollSends, PacketFacts
<1>4. authed' = authed
  BY DEF Poll
<1>5. Authed(n, l)' <=> Authed(n, l)
  BY <1>4 DEF Authed, Label
<1>6. /\ chan'[l][n] = q \/ (chan'[l][n] = Append(q, f) /\ z = o /\ l \in Recipients(z))
      /\ chan'[l][o] = p \/ chan'[l][o] = Append(p, f)
  <2>1. \A m \in Nodes : chan'[l][m] = IF l \in Recipients(z) /\ phase[l] = "up" /\ m = Other(l, z)
                            THEN Append(chan[l][m], f) ELSE chan[l][m]
    BY PollSends
  <2>2. l \in Recipients(z) => z \in Ends(l)
    BY DEF Recipients, NetInv, NetTypeOK
  <2>3. \A m \in Ends(l) : n = Other(l, m) => m = o
    BY Joined
  <2> HIDE DEF f
  <2> QED
    BY <1>0, <2>1, <2>2, <2>3
<1>7. /\ Among(p, "challenge") => Among(pf, "challenge")
      /\ Among(q, "auth") => Among(qf, "auth")
      /\ Clean(q) => Clean(qf)
      /\ Waiting(q) /\ Among(q, "auth") => Waiting(qf)
  <2> HIDE DEF f, q, p
  <2>1. \A type : Among(Append(p, f), type) <=> Among(p, type) \/ f.type = type
    BY <1>2, <1>3, QueueSends
  <2>2. \A type : Among(Append(q, f), type) <=> Among(q, type) \/ f.type = type
    BY <1>2, <1>3, QueueSends
  <2>3. Clean(q) /\ f.type # "challenge" => Clean(Append(q, f))
    BY <1>2, <1>3, QueueSends
  <2>4. /\ Waiting(q) /\ f.type # "challenge"
        /\ f.type \in {"offer", "delta"} => Among(q, "auth")
        => Waiting(Append(q, f))
    BY <1>2, <1>3, QueueSends
  <2> QED
    BY <1>3, <2>1, <2>2, <2>3, <2>4
<1> HIDE DEF f, qf, pf
<1>8. CASE Authed(n, l)
  <2>1. Clean(q)
    BY <1>1, <1>8 DEF Shaken
  <2>2. Clean(chan'[l][n])
    BY <1>6, <1>7, <2>1 DEF qf
  <2> QED
    BY <1>5, <1>8, <2>2 DEF Shaken, Clean, Among
<1>9. CASE ~Authed(n, l)
  <2>1. Waiting(q) /\ (Among(q, "auth") \/ Among(p, "challenge"))
    BY <1>1, <1>9 DEF Shaken
  <2>2. Among(q, "auth") => Among(chan'[l][n], "auth")
    BY <1>6, <1>7 DEF qf
  <2>3. l \in Recipients(o) => Among(q, "auth")
    <3>1. Authed(o, l) => ~Among(p, "challenge")
      BY <1>0, <1>1 DEF Shaken, Clean
    <3> QED
      BY <2>1, <3>1 DEF Recipients
  <2>4. Waiting(chan'[l][n])
    BY <1>6, <1>7, <2>1, <2>3 DEF qf
  <2>5. Among(chan'[l][n], "auth") \/ Among(chan'[l][o], "challenge")
    <3>1. Among(p, "challenge") => Among(chan'[l][o], "challenge")
      BY <1>6, <1>7 DEF pf
    <3> QED
      BY <2>1, <2>2, <3>1
  <2> QED
    BY <1>5, <1>9, <2>4, <2>5 DEF Shaken, Waiting, Among, Other
<1> QED
  BY <1>8, <1>9

LEMMA ShakenReceive ==
  ASSUME NetInv, NEW l \in Links \ Confused', phase[l] = "up", phase'[l] = "up", LinkSound(l),
         NEW z \in Ends(l), Receive(z, l), NEW n \in Ends(l)
  PROVE  ~Refused(z, l) /\ ~Dropped(z, l) /\ Shaken(l, n)'
<1>0. /\ z \in Nodes /\ Other(l, z) \in Nodes /\ Other(l, z) \in Ends(l)
      /\ Other(l, Other(l, z)) = z /\ Other(l, z) # z /\ n \in {z, Other(l, z)}
  BY Joined DEF Other, Ends
<1> DEFINE o == Other(l, z)
           q == chan[l][z]
           p == chan[l][o]
           r == chan'[l][z]
           s == chan'[l][o]
<1>1. ~Refused(z, l)
  <2> SUFFICES ASSUME Refused(z, l) PROVE FALSE
    OBVIOUS
  <2> QED
    BY Hanging DEF Refused, NetInv
<1>2. Shaken(l, z) /\ Shaken(l, o)
  BY <1>0 DEF LinkSound
<1>3. /\ IF Authed(z, l) THEN Clean(q) ELSE Waiting(q) /\ (Among(q, "auth") \/ Among(p, "challenge"))
      /\ IF Authed(o, l) THEN Clean(p) ELSE Waiting(p) /\ (Among(p, "auth") \/ Among(q, "challenge"))
  BY <1>0, <1>2 DEF Shaken
<1>4. /\ \A m \in Ends(l) : Authed(m, l) => Authed(m, l)'
      /\ \A m \in Ends(l) : Authed(m, l)' => Authed(m, l) \/ (Proven(z, l) /\ m = z)
  BY SteadyReceive
<1>5. q \in Seq(Frames) /\ p \in Seq(Frames)
  BY <1>0 DEF NetInv, NetTypeOK, Channels
<1>6. q # <<>> /\ r = Tail(q)
  BY <1>1, Receiving
<1>7. /\ \A type : Among(q, type) <=> Head(q).type = type \/ Among(r, type)
      /\ Clean(q) => Clean(r)
      /\ Waiting(q) => Clean(r) /\ Head(q).type \notin {"offer", "delta"}
      /\ Waiting(q) /\ Head(q).type # "auth" => Waiting(r)
  BY <1>5, <1>6, QueueReads
<1>8. Answers(z, l) \/ (Takes(z, l) /\ Sends(z, l))
  BY <1>1, Receiving
<1>9. ~Dropped(z, l)
  <2>1. Dropped(z, l) => ~Authed(z, l) /\ Head(q).type \in {"offer", "delta"}
    BY DEF Dropped, Arrives
  <2> QED
    BY <1>3, <1>7, <2>1
<1>10. ASSUME NEW f \in Frames
       PROVE  /\ \A type : Among(Append(p, f), type) <=> Among(p, type) \/ f.type = type
              /\ Clean(p) /\ f.type # "challenge" => Clean(Append(p, f))
              /\ /\ Waiting(p) /\ f.type # "challenge"
                 /\ f.type \in {"offer", "delta"} => Among(p, "auth")
                 => Waiting(Append(p, f))
  BY <1>5, QueueSends
<1>a. n = z \/ n = o
  BY <1>0
<1> HIDE DEF q, p, r, s, o
<1>b. ASSUME Shaken(l, z)', Shaken(l, o)' PROVE ~Refused(z, l) /\ ~Dropped(z, l) /\ Shaken(l, n)'
  <2>1. CASE n = z
    BY <1>1, <1>9, <1>b, <2>1
  <2>2. CASE n = o
    BY <1>1, <1>9, <1>b, <2>2
  <2> QED
    BY <1>a, <2>1, <2>2
<1>11. CASE Answers(z, l)
  <2>a. Challenged(z, l) /\ Head(q).type = "challenge" /\ s = Append(p, [type |-> "auth"])
    BY <1>11 DEF Answers, q, p, s, o
  <2>0. ~Proven(z, l)
    BY <2>a DEF Challenged, Proven, Arrives
  <2>1. [type |-> "auth"] \in Frames
    BY FrameFacts
  <2>2. /\ Among(s, "auth") /\ (Among(p, "challenge") => Among(s, "challenge"))
        /\ Clean(p) => Clean(s)
        /\ Waiting(p) => Waiting(s)
    BY <1>10, <2>a, <2>1
  <2>3. ~Clean(q)
    BY <1>7, <2>a DEF Clean
  <2>4. ~Authed(z, l) /\ Waiting(r) /\ (Among(r, "auth") \/ Among(s, "challenge"))
    BY <1>3, <1>7, <2>a, <2>2, <2>3
  <2>5. Shaken(l, z)'
    <3>1. ~Authed(z, l)'
      BY <1>4, <2>0, <2>4
    <3> QED
      BY <1>0, <2>4, <3>1 DEF Shaken, Waiting, Among, Other, r, s, o
  <2>6. Shaken(l, o)'
    <3>1. o \in Ends(l) /\ Other(l, o) = z /\ (Authed(o, l)' <=> Authed(o, l))
      BY <1>0, <1>4, <2>0 DEF o
    <3>2. IF Authed(o, l)' THEN Clean(s) ELSE Waiting(s) /\ Among(s, "auth")
      BY <1>3, <2>2, <3>1
    <3> QED
      BY <3>2 DEF Shaken, Waiting, Clean, Among, s
  <2> QED
    BY <1>b, <2>5, <2>6
<1>12. CASE Takes(z, l) /\ Sends(z, l)
  <2>0. /\ \/ Proven(z, l) /\ Head(q).type = "auth"
           \/ Authed(z, l) /\ Head(q).type \in {"offer", "delta"}
        /\ s = p \/ \E f \in Frames : f.type \in {"offer", "delta"} /\ s = Append(p, f)
    BY <1>9, <1>12 DEF Takes, Sends, q, p, s, o
  <2>1. ~Among(q, "challenge") /\ Clean(r)
    BY <1>3, <1>7, <2>0 DEF Clean
  <2>2. Authed(z, l)'
    <3>1. Proven(z, l) => Authed(z, l)'
      <4>1. Proven(z, l) => Label(z, l) \in Range(authed'[z])
        BY Proving
      <4> QED
        BY <4>1 DEF Authed, Label
    <3> QED
      BY <1>4, <2>0, <3>1
  <2>3. Shaken(l, z)'
    BY <2>1, <2>2 DEF Shaken, Clean, Among, r
  <2>4. Shaken(l, o)'
    <3>1. o \in Ends(l) /\ Other(l, o) = z /\ (Authed(o, l)' <=> Authed(o, l))
      BY <1>0, <1>4 DEF o
    <3>2. IF Authed(o, l) THEN Clean(p) ELSE Waiting(p) /\ Among(p, "auth")
      BY <1>3, <2>1
    <3>3. CASE s = p
      BY <3>1, <3>2, <3>3 DEF Shaken, Waiting, Clean, Among, s
    <3>4. ASSUME NEW f \in Frames, f.type \in {"offer", "delta"}, s = Append(p, f)
          PROVE  Shaken(l, o)'
      <4>1. IF Authed(o, l) THEN Clean(s) ELSE Waiting(s) /\ Among(s, "auth")
        BY <1>10, <3>2, <3>4
      <4> QED
        BY <3>1, <4>1 DEF Shaken, Waiting, Clean, Among, s
    <3> QED
      BY <2>0, <3>3, <3>4
  <2> QED
    BY <1>b, <2>3, <2>4
<1> QED
  BY <1>8, <1>11, <1>12

-----------------------------------------------------------------------------
(* The events of a link that stays up.                                     *)

\* A step that leaves the log and the watermark of n alone.
LEMMA ToldKept ==
  ASSUME NetInv, NEW l \in Links, NEW n \in Ends(l), Told(l, n),
         since'[n][l] = since[n][l], log'[n] = log[n], watermark'[n] = watermark[n],
         Authed(n, l) => Authed(n, l)',
         seen[Other(l, n)] \subseteq seen'[Other(l, n)],
         \A k \in Nat : Carries(l, Other(l, n), k) =>
                          Carries(l, Other(l, n), k)' \/ <<n, k>> \in seen'[Other(l, n)]
  PROVE  Told(l, n)'
<1>0. n \in Nodes
  BY Joined
<1>1. since'[n][l] # MaxEdits => Authed(n, l)'
  BY DEF Told
<1>2. ASSUME NEW k \in since[n][l] + 1..Len(log[n]) PROVE ToldOne(l, n, k)'
  <2>1. ToldOne(l, n, k)
    BY <1>2 DEF Told
  <2>2. k \in Nat
    BY <1>0 DEF NetInv, NetTypeOK
  <2> QED
    BY <2>1, <2>2 DEF ToldOne, Other
<1> QED
  BY <1>1, <1>2 DEF Told

LEMMA ToldEdit ==
  ASSUME NetInv, NetTypeOK', NEW l \in Links, NEW n \in Ends(l), Told(l, n),
         NEW r \in Rows, Edit(n, r)
  PROVE  Told(l, n)'
<1>0. n \in Nodes
  BY Joined
<1>1. /\ Len(log'[n]) = Len(log[n]) + 1 /\ Len(log[n]) \in Nat
      /\ \A i \in 1..Len(log[n]) : log'[n][i] = log[n][i]
      /\ log'[n][Len(log[n]) + 1].at = now
      /\ log'[n][Len(log[n]) + 1].skipped = (now = watermark[n])
      /\ now \in Nat /\ watermark[n] \in Nat /\ watermark[n] <= now
  BY <1>0, Logging, LogFacts
<1>2. UNCHANGED <<watermark, since, authed, chan, seen>>
  BY DEF Edit, netVars
<1>3. since'[n][l] # MaxEdits => Authed(n, l)'
  BY <1>2 DEF Told, Authed, Label
<1>4. since[n][l] \in Nat
  BY <1>0 DEF NetInv, NetTypeOK
<1>5. ASSUME NEW k \in since[n][l] + 1..Len(log'[n]) PROVE ToldOne(l, n, k)'
  <2>1. CASE k = Len(log[n]) + 1
    <3>1. CASE now = watermark[n]
      BY <1>1, <2>1, <3>1, Zenon DEF ToldOne
    <3>2. CASE now # watermark[n]
      <4>1. log'[n][k].at > watermark'[n]
        BY <1>1, <1>2, <2>1, <3>2
      <4> QED
        BY <4>1 DEF ToldOne
    <3> QED
      BY <3>1, <3>2
  <2>2. CASE k # Len(log[n]) + 1
    <3>1. k \in since[n][l] + 1..Len(log[n]) /\ k \in 1..Len(log[n])
      BY <1>1, <1>4, <2>2
    <3>2. ToldOne(l, n, k) /\ log'[n][k] = log[n][k]
      BY <1>1, <3>1 DEF Told
    <3> QED
      BY <1>2, <3>2 DEF ToldOne, Carries, Other
  <2> QED
    BY <2>1, <2>2
<1> QED
  BY <1>2, <1>3, <1>5 DEF Told

LEMMA ToldPoll ==
  ASSUME NetInv, NetTypeOK', NEW l \in Links, phase[l] = "up", Registered(l),
         NEW n \in Ends(l), Told(l, n), Poll(n)
  PROVE  Told(l, n)'
<1>0. n \in Nodes /\ Other(l, n) \in Nodes /\ n \in {Dialer[l], Acceptor[l]}
  BY Joined
<1> DEFINE o == Other(l, n)
           f == DeltasAfter(n, watermark[n])
<1>1. UNCHANGED <<log, since, authed, seen>>
  BY DEF Poll
<1>2. since'[n][l] # MaxEdits => Authed(n, l)'
  BY <1>1 DEF Told, Authed, Label
<1>3. /\ since[n][l] \in 0..MaxEdits /\ Len(log[n]) \in 0..MaxEdits
      /\ watermark[n] \in Nat /\ chan[l][o] \in Seq(Frames)
  <2>1. since[n][l] \in 0..MaxEdits /\ chan[l][o] \in Seq(Frames)
    BY <1>0 DEF NetInv, NetTypeOK, Channels
  <2>2. Len(log[n]) \in 0..MaxEdits /\ watermark[n] \in Nat
    BY <1>0, LogFacts
  <2> QED
    BY <2>1, <2>2
<1>4. ASSUME NEW k \in since[n][l] + 1..Len(log[n]) PROVE ToldOne(l, n, k)'
  <2>1. ToldOne(l, n, k) /\ k \in 1..Len(log[n]) /\ k \in Nat
    BY <1>3 DEF Told
  <2>2. l \in Recipients(n)
    <3>1. since[n][l] # MaxEdits
      BY <1>3
    <3> QED
      BY <1>0, <3>1 DEF Told, Registered, Recipients
  <2>3. /\ f \in Frames /\ f.type = "delta"
        /\ f.from = UpTo(n, watermark[n]) /\ f.to = Len(log[n])
        /\ log[n][k].at > watermark[n] => UpTo(n, watermark[n]) < k
    BY <1>0, <1>3, <2>1, PacketFacts
  <2>4. chan'[l][o] = Append(chan[l][o], f)
    BY <1>0, <2>2, PollSends
  <2> HIDE DEF f
  <2>5. CASE Carries(l, o, k)
    <3>1. Carries(l, o, k)'
      BY <1>0, <2>1, <2>3, <2>4, <2>5, CarriesKept DEF NetInv
    <3> QED
      BY <3>1 DEF ToldOne, Carries, Other
  <2>6. CASE log[n][k].at > watermark[n]
    <3>1. f.type = "delta" /\ f.from < k /\ k <= f.to
      BY <1>3, <2>1, <2>3, <2>6
    <3>2. Len(chan[l][o]) + 1 \in DOMAIN chan'[l][o] /\ chan'[l][o][Len(chan[l][o]) + 1] = f
      BY <1>3, <2>3, <2>4
    <3> HIDE DEF o
    <3>3. \E i \in DOMAIN chan'[l][o] :
             chan'[l][o][i].type = "delta" /\ chan'[l][o][i].from < k /\ k <= chan'[l][o][i].to
      BY <3>1, <3>2
    <3> QED
      BY <3>3 DEF ToldOne, Carries, Other, o
  <2>7. CASE log[n][k].skipped \/ <<n, k>> \in seen[o]
    BY <1>1, <2>7 DEF ToldOne, Other
  <2> QED
    BY <2>1, <2>5, <2>6, <2>7 DEF ToldOne
<1> QED
  BY <1>1, <1>2, <1>4 DEF Told

LEMMA SeenGrows ==
  ASSUME NetTypeOK, NEW n \in Nodes, [Next]_vars
  PROVE  seen[n] \subseteq seen'[n]
<1>1. CASE UNCHANGED seen
  BY <1>1
<1>2. ASSUME NEW l \in Links, NEW z \in Ends(l), Applied(z, l) PROVE seen[n] \subseteq seen'[n]
  <2>1. PICK more : seen' = [seen EXCEPT ![z] = @ \cup more]
    BY <1>2 DEF Applied
  <2> QED
    BY <2>1 DEF NetTypeOK
<1>3. ASSUME NEW l \in Links, NEW z \in Ends(l), Receive(z, l) \/ HandshakeTimeout(z, l)
      PROVE  seen[n] \subseteq seen'[n]
  BY <1>1, <1>2, <1>3 DEF Receive, HandshakeTimeout, Challenged, Proven, Refused, Offered, Dropped
<1>4. ASSUME NEW l \in Links, Socket(l) PROVE UNCHANGED seen
  BY <1>4 DEF Socket, Dial, Accept, Opened, Breaks, NoticesClose
<1>5. ASSUME Tick \/ \E z \in Nodes : Poll(z) \/ Restart(z) \/ \E r \in Rows : Edit(z, r)
      PROVE  UNCHANGED seen
  BY <1>5 DEF Tick, Poll, Restart, Edit
<1> QED
  BY <1>1, <1>3, <1>4, <1>5 DEF Next, vars

\* A frame of l is read: what it told is kept by seen.
LEMMA ToldReceive ==
  ASSUME NetInv, NetTypeOK', NEW l \in Links, NEW z \in Ends(l), Receive(z, l),
         ~Refused(z, l), ~Dropped(z, l), NEW n \in Ends(l), Told(l, n),
         Authed(n, l) => Authed(n, l)', seen[Other(l, n)] \subseteq seen'[Other(l, n)]
  PROVE  Told(l, n)'
<1>0. /\ z \in Nodes /\ n \in Nodes /\ Other(l, n) \in Nodes
      /\ n # z => n = Other(l, z) /\ Other(l, n) = z
  BY Joined DEF Other, Ends
<1>1. log' = log /\ watermark' = watermark
  BY NetworkSteps
<1>2. CASE Proven(z, l) /\ n = z
  <2>1. since'[n][l] = Len(log[n])
    BY <1>0, <1>2 DEF Proven, NetInv, NetTypeOK
  <2>2. Authed(n, l)'
    <3>1. Label(n, l) \in Range(authed'[n])
      BY <1>2, Proving
    <3> QED
      BY <3>1 DEF Authed, Label
  <2>3. Len(log[n]) + 1..Len(log[n]) = {}
    BY <1>0, LogFacts
  <2> QED
    BY <1>1, <2>1, <2>2, <2>3 DEF Told
<1>3. CASE ~(Proven(z, l) /\ n = z)
  <2>1. since'[n][l] = since[n][l]
    <3>1. CASE Proven(z, l)
      BY <1>0, <1>3, <3>1 DEF Proven, NetInv, NetTypeOK
    <3>2. CASE ~Proven(z, l)
      BY <3>2 DEF Receive, Challenged, Offered, Applied
    <3> QED
      BY <3>1, <3>2
  <2>2. ASSUME NEW k \in Nat, Carries(l, Other(l, n), k)
        PROVE  Carries(l, Other(l, n), k)' \/ <<n, k>> \in seen'[Other(l, n)]
    <3>0. PICK o \in Nodes : o = Other(l, n)
      BY <1>0
    <3>1. Carries(l, o, k)
      BY <2>2, <3>0
    <3>2. /\ chan'[l][o] = chan[l][o] => Carries(l, o, k)'
          /\ \A f \in Frames : chan'[l][o] = Append(chan[l][o], f) => Carries(l, o, k)'
          /\ chan'[l][o] = Tail(chan[l][o]) =>
               \/ Carries(l, o, k)'
               \/ /\ Head(chan[l][o]).type = "delta"
                  /\ Head(chan[l][o]).from < k /\ k <= Head(chan[l][o]).to
      BY <3>1, CarriesKept DEF NetInv
    <3>3. chan[l][z] # <<>> /\ chan'[l][z] = Tail(chan[l][z]) /\ (Answers(z, l) \/ Sends(z, l))
      BY Receiving
    <3>4. CASE n = z
      <4>1. [type |-> "auth"] \in Frames
        BY FrameFacts
      <4>2. Carries(l, o, k)'
        BY <3>0, <3>2, <3>3, <3>4, <4>1 DEF Answers, Sends
      <4> QED
        BY <3>0, <4>2 DEF Carries, Other
    <3>5. CASE n # z
      <4>1. o = z /\ n = Other(l, z)
        BY <1>0, <3>0, <3>5
      <4>2. \/ Carries(l, o, k)'
            \/ /\ Head(chan[l][z]).type = "delta"
               /\ Head(chan[l][z]).from < k /\ k <= Head(chan[l][z]).to
        BY <3>2, <3>3, <4>1
      <4>3. CASE Carries(l, o, k)'
        BY <3>0, <4>3 DEF Carries, Other
      <4>4. ASSUME Head(chan[l][z]).type = "delta",
                   Head(chan[l][z]).from < k, k <= Head(chan[l][z]).to
            PROVE  <<n, k>> \in seen'[o]
        <5>1. Applied(z, l)
          BY <4>4 DEF Receive, Challenged, Proven, Refused, Offered, Dropped, Arrives
        <5>2. Head(chan[l][z]).from \in Nat /\ Head(chan[l][z]).to \in Nat
          BY <1>0, <3>3, <4>4, FrontFacts, FrameFacts DEF NetInv
        <5>3. k \in Head(chan[l][z]).from + 1..Head(chan[l][z]).to
          BY <4>4, <5>2
        <5>4. <<n, k>> \in {<<n, j>> : j \in Head(chan[l][z]).from + 1..Head(chan[l][z]).to}
          BY <5>3
        <5>5. seen' = [seen EXCEPT ![z] = @ \cup
                         {<<n, j>> : j \in Head(chan[l][z]).from + 1..Head(chan[l][z]).to}]
          BY <4>1, <5>1 DEF Applied
        <5>6. z \in DOMAIN seen
          BY <1>0 DEF NetInv, NetTypeOK
        <5> QED
          BY <4>1, <5>4, <5>5, <5>6
      <4> QED
        BY <3>0, <4>2, <4>3, <4>4 DEF Other
    <3> QED
      BY <3>4, <3>5
  <2> QED
    BY <1>1, <2>1, <2>2, ToldKept
<1> QED
  BY <1>2, <1>3

\* A step that does not touch the frames, the labels and the events of l.
LEMMA LinkQuiet ==
  ASSUME NetInv, NEW l \in Links, LinkSound(l), Registered(l)', NoRival(l)',
         chan'[l] = chan[l],
         \A m \in Ends(l) : Authed(m, l)' <=> Authed(m, l),
         \A m \in Ends(l) : /\ since'[m][l] = since[m][l] /\ log'[m] = log[m]
                            /\ watermark'[m] = watermark[m] /\ seen[m] \subseteq seen'[m]
  PROVE  LinkSound(l)'
<1>1. ASSUME NEW n \in Ends(l) PROVE Shaken(l, n)'
  BY ShakenFrame DEF LinkSound
<1>2. ASSUME NEW n \in Ends(l) PROVE Told(l, n)'
  <2>1. \A k \in Nat : Carries(l, Other(l, n), k) => Carries(l, Other(l, n), k)'
    BY DEF Carries, Other
  <2>2. Told(l, n) /\ Other(l, n) \in Ends(l)
    BY Joined DEF LinkSound
  <2> QED
    BY <2>1, <2>2, ToldKept
<1> QED
  BY <1>1, <1>2 DEF LinkSound, Ends

LEMMA LinkPoll ==
  ASSUME NetInv, NetTypeOK', NEW l \in Links, phase[l] = "up", LinkSound(l), NEW z \in Nodes, Poll(z)
  PROVE  LinkSound(l)'
<1>1. UNCHANGED <<phase, active, log, since, authed, seen>>
  BY DEF Poll
<1>2. Registered(l)' /\ NoRival(l)'
  BY <1>1 DEF LinkSound, Registered, NoRival, Rivals, SameLabel
<1>3. ASSUME NEW n \in Ends(l) PROVE Shaken(l, n)'
  BY ShakenPoll
<1>4. ASSUME NEW n \in Ends(l) PROVE Told(l, n)'
  <2>0. n \in Nodes /\ Other(l, n) \in Nodes
    BY Joined
  <2>1. CASE n = z
    BY <2>1, ToldPoll DEF LinkSound
  <2>2. CASE n # z
    <3>1. watermark'[n] = watermark[n]
      BY <2>0, <2>2 DEF Poll, NetInv, NetTypeOK
    <3>2. ASSUME NEW k \in Nat, Carries(l, Other(l, n), k) PROVE Carries(l, Other(l, n), k)'
      <4>0. PICK o \in Nodes : o = Other(l, n)
        BY <2>0
      <4>1. PICK f \in Frames : f = DeltasAfter(z, watermark[z])
        BY PollSends, PacketFacts
      <4>2. chan'[l][o] = chan[l][o] \/ chan'[l][o] = Append(chan[l][o], f)
        <5>1. chan'[l][o] = IF l \in Recipients(z) /\ phase[l] = "up" /\ o = Other(l, z)
                              THEN Append(chan[l][o], DeltasAfter(z, watermark[z])) ELSE chan[l][o]
          BY ONLY NetInv, l \in Links, o \in Nodes, z \in Nodes, Poll(z), PollSends
        <5> QED
          BY <4>1, <5>1
      <4>3. Carries(l, o, k)'
        BY <3>2, <4>0, <4>2, CarriesKept DEF NetInv
      <4> QED
        BY <4>0, <4>3 DEF Carries, Other
    <3>3. Authed(n, l) => Authed(n, l)'
      BY <1>1 DEF Authed, Label
    <3>4. Told(l, n)
      BY DEF LinkSound
    <3> QED
      BY <1>1, <3>1, <3>2, <3>3, <3>4, ToldKept
  <2> QED
    BY <2>1, <2>2
<1> QED
  BY <1>2, <1>3, <1>4 DEF LinkSound, Ends

LEMMA LinkReceive ==
  ASSUME NetInv, NetTypeOK', NEW l \in Links \ Confused', phase[l] = "up", phase'[l] = "up",
         LinkSound(l), NEW k \in Links, NEW z \in Ends(k), Receive(z, k),
         \A n \in Nodes : seen[n] \subseteq seen'[n]
  PROVE  LinkSound(l)'
<1>0. \A n \in Ends(l) : n \in Nodes /\ Other(l, n) \in Nodes
  BY Joined
<1>1. /\ Registered(l)' /\ NoRival(l)'
      /\ \A m \in Ends(l) : Authed(m, l) => Authed(m, l)'
      /\ \A m \in Ends(l) : Authed(m, l)' => Authed(m, l) \/ (Proven(z, k) /\ m = z /\ k = l)
  BY SteadyReceive
<1>2. CASE k = l
  <2>1. ~Refused(z, l) /\ ~Dropped(z, l)
    BY <1>2, ShakenReceive
  <2>2. ASSUME NEW n \in Ends(l) PROVE Shaken(l, n)'
    BY <1>2, ShakenReceive
  <2>3. ASSUME NEW n \in Ends(l) PROVE Told(l, n)'
    <3>1. Told(l, n) /\ (Authed(n, l) => Authed(n, l)') /\ seen[Other(l, n)] \subseteq seen'[Other(l, n)]
      BY <1>0, <1>1 DEF LinkSound
    <3> QED
      BY <1>2, <2>1, <3>1, ToldReceive
  <2> QED
    BY <1>1, <2>2, <2>3 DEF LinkSound, Ends
<1>3. CASE k # l
  <2>1. chan'[l] = chan[l]
    <3>1. CASE Refused(z, k)
      BY <1>3, <3>1, Hanging DEF Refused, NetInv
    <3>2. CASE ~Refused(z, k)
      BY <1>3, <3>2, Receiving
    <3> QED
      BY <3>1, <3>2
  <2>2. \A m \in Ends(l) : since'[m][l] = since[m][l]
    <3>1. CASE Proven(z, k)
      BY <1>0, <1>3, <3>1 DEF Proven, NetInv, NetTypeOK
    <3>2. CASE ~Proven(z, k)
      BY <3>2 DEF Receive, Challenged, Refused, Offered, Applied, Dropped
    <3> QED
      BY <3>1, <3>2
  <2>3. log' = log /\ watermark' = watermark
    BY NetworkSteps
  <2>4. \A m \in Ends(l) : Authed(m, l)' <=> Authed(m, l)
    BY <1>1, <1>3
  <2> QED
    BY <1>0, <1>1, <2>1, <2>2, <2>3, <2>4, LinkQuiet
<1> QED
  BY <1>2, <1>3

-----------------------------------------------------------------------------
(* No link that stays up loses an event.                                   *)

\* Only the open event of its dialer brings a socket up.
LEMMA OnlyOpened ==
  ASSUME NetInv, [Next]_vars, NEW l \in Links, phase[l] # "up", phase'[l] = "up"
  PROVE  Opened(l)
<1>1. phase' # phase
  OBVIOUS
<1>2. ~UNCHANGED vars /\ ~Tick
  BY <1>1 DEF vars, netVars, Tick
<1>3. ASSUME NEW n \in Nodes, Poll(n) \/ Restart(n) \/ \E r \in Rows : Edit(n, r)
      PROVE  FALSE
  <2>1. CASE Restart(n)
    BY <2>1 DEF Restart
  <2>2. CASE ~Restart(n)
    BY <1>1, <1>3, <2>2 DEF Poll, Edit, netVars
  <2> QED
    BY <2>1, <2>2
<1>4. ASSUME NEW k \in Links, Hangup(k) PROVE FALSE
  BY <1>4, Hanging DEF NetInv
<1>5. ASSUME NEW k \in Links, NEW n \in Ends(k), Receive(n, k) \/ HandshakeTimeout(n, k)
      PROVE  FALSE
  BY <1>1, <1>4, <1>5 DEF Receive, HandshakeTimeout, Challenged, Proven, Refused, Offered,
                          Applied, Dropped
<1>6. ASSUME NEW k \in Links, Socket(k) PROVE Opened(l)
  <2>1. CASE Dial(k) \/ Accept(k) \/ NoticesClose(k)
    <3>1. \E x \in {"dialing", "accepted", "gone"} : phase' = [phase EXCEPT ![k] = x]
      BY <2>1, Zenon DEF Dial, Accept, NoticesClose
    <3> QED
      BY <3>1 DEF NetInv, NetTypeOK
  <2>2. CASE Breaks(k)
    BY <1>4, <2>2 DEF Breaks
  <2>3. CASE Opened(k)
    BY <2>3 DEF Opened, NetInv, NetTypeOK
  <2> QED
    BY <1>6, <2>1, <2>2, <2>3 DEF Socket
<1> QED
  BY <1>2, <1>3, <1>5, <1>6 DEF Next

LEMMA LinkNext == IInv /\ [Next]_vars => LinkInv'
<1> SUFFICES ASSUME IInv, [Next]_vars, NEW l \in Links \ Confused', phase'[l] = "up"
             PROVE  LinkSound(l)'
  BY DEF LinkInv
<1> USE DEF IInv
<1>0. NetInv /\ NetTypeOK' /\ \A n \in Nodes : seen[n] \subseteq seen'[n]
  BY TypeNext, SeenGrows DEF NetInv
<1>1. Confused \subseteq Confused' /\ l \notin Confused /\ \A m \in Ends(l) : m \in Nodes
  BY ConfusedGrows, Joined
<1>2. phase[l] = "up" => LinkSound(l)
  BY <1>1 DEF LinkInv
<1>3. CASE phase[l] = "up"
  <2>0. LinkSound(l)
    BY <1>2, <1>3
  <2>1. ASSUME UNCHANGED netVars,
               \A m \in Ends(l) : /\ log'[m] = log[m] /\ watermark'[m] = watermark[m]
                                  /\ seen[m] \subseteq seen'[m]
        PROVE  LinkSound(l)'
    <3>1. UNCHANGED <<phase, active, authed, chan, since>>
      BY <2>1 DEF netVars
    <3>2. Registered(l)' /\ NoRival(l)'
      BY <2>0, <3>1 DEF LinkSound, Registered, NoRival, Rivals, SameLabel
    <3>3. \A m \in Ends(l) : Authed(m, l)' <=> Authed(m, l)
      BY <3>1 DEF Authed, Label
    <3> QED
      BY <1>0, <2>0, <2>1, <3>1, <3>2, <3>3, LinkQuiet
  <2>2. CASE UNCHANGED vars
    BY <1>0, <1>1, <2>1, <2>2 DEF vars
  <2>3. CASE Tick
    BY <1>0, <1>1, <2>1, <2>3 DEF Tick
  <2>4. ASSUME NEW n \in Nodes, NEW r \in Rows, Edit(n, r) PROVE LinkSound(l)'
    <3>1. UNCHANGED netVars /\ UNCHANGED <<phase, active, authed, chan, since, watermark, seen>>
      BY <2>4 DEF Edit, netVars
    <3>2. Registered(l)' /\ NoRival(l)'
      BY <2>0, <3>1 DEF LinkSound, Registered, NoRival, Rivals, SameLabel
    <3>3. \A m \in Ends(l) : Authed(m, l)' <=> Authed(m, l)
      BY <3>1 DEF Authed, Label
    <3>4. ASSUME NEW m \in Ends(l) PROVE Shaken(l, m)'
      BY <2>0, <3>1, <3>3, ShakenFrame DEF LinkSound
    <3>5. ASSUME NEW m \in Ends(l) PROVE Told(l, m)'
      <4>1. Told(l, m)
        BY <2>0 DEF LinkSound
      <4>2. CASE m = n
        BY <1>0, <2>4, <4>1, <4>2, ToldEdit
      <4>3. CASE m # n
        <5>1. log'[m] = log[m]
          BY <1>0, <1>1, <2>4, <4>3, Logging
        <5>2. \A k \in Nat : Carries(l, Other(l, m), k) => Carries(l, Other(l, m), k)'
          BY <3>1 DEF Carries, Other
        <5> QED
          BY <1>0, <3>1, <3>3, <4>1, <5>1, <5>2, ToldKept
      <4> QED
        BY <4>2, <4>3
    <3> QED
      BY <3>2, <3>4, <3>5 DEF LinkSound, Ends
  <2>5. ASSUME NEW n \in Nodes, Poll(n) PROVE LinkSound(l)'
    BY <1>0, <1>3, <2>0, <2>5, LinkPoll
  <2>6. ASSUME NEW n \in Nodes, Restart(n) PROVE LinkSound(l)'
    <3>1. /\ n \notin Ends(l) /\ Registered(l)' /\ NoRival(l)'
          /\ \A m \in Ends(l) : authed'[m] = authed[m]
      BY <1>0, <1>3, <2>0, <2>6, SteadyNode
    <3>2. \A m \in Ends(l) : Authed(m, l)' <=> Authed(m, l)
      BY <3>1 DEF Authed, Label
    <3>3. chan'[l] = chan[l] /\ log' = log /\ since' = since /\ seen' = seen
      BY <2>6, <3>1 DEF Restart
    <3>4. \A m \in Ends(l) : watermark'[m] = watermark[m]
      BY <1>1, <2>6, <3>1 DEF Restart, NetInv, NetTypeOK
    <3> QED
      BY <1>0, <2>0, <3>1, <3>2, <3>3, <3>4, LinkQuiet
  <2>7. ASSUME NEW k \in Links, Socket(k) \/ \E n \in Ends(k) : HandshakeTimeout(n, k)
        PROVE  LinkSound(l)'
    <3>1. /\ Registered(l)' /\ NoRival(l)'
          /\ \A m \in Ends(l) : Authed(m, l)' <=> Authed(m, l)
          /\ chan'[l] = chan[l]
      BY <1>0, <1>3, <2>0, <2>7, SteadySocket
    <3>2. UNCHANGED <<log, watermark, since, seen>>
      BY <2>7 DEF Socket, Dial, Accept, Opened, Breaks, NoticesClose, HandshakeTimeout
    <3> QED
      BY <1>0, <2>0, <3>1, <3>2, LinkQuiet
  <2>8. ASSUME NEW k \in Links, NEW n \in Ends(k), Receive(n, k) PROVE LinkSound(l)'
    BY <1>0, <1>3, <2>0, <2>8, LinkReceive
  <2> QED
    BY <2>2, <2>3, <2>4, <2>5, <2>6, <2>7, <2>8 DEF Next
<1>4. CASE phase[l] # "up"
  <2>1. Opened(l)
    BY <1>0, <1>4, OnlyOpened
  <2> QED
    BY <1>0, <1>1, <2>1, OpenedSound
<1> QED
  BY <1>3, <1>4

LEMMA InvNext == IInv /\ [Next]_vars => IInv'
<1> SUFFICES ASSUME IInv, [Next]_vars PROVE IInv'
  OBVIOUS
<1>1. NetInv /\ PhaseInv /\ AuthInv
  BY DEF IInv
<1>2. NetTypeOK' /\ ClockInv'
  BY <1>1, TypeNext, ClockNext
<1>3. PhaseInv' /\ AuthInv' /\ LinkInv'
  BY <1>1, PhaseNext, AuthNext, LinkNext
<1> QED
  BY <1>2, <1>3 DEF IInv, NetInv

\* An offer or a packet of deltas that is under way meets an end that has
\* finished the handshake or will have.
LEMMA InvDropsNothing == IInv => NothingDropped
<1> SUFFICES ASSUME IInv, NEW l \in Links \ Confused, NEW n \in Ends(l), NEW i \in DOMAIN chan[l][n],
                    chan[l][n][i].type \in {"offer", "delta"}
             PROVE  Authed(n, l) \/ \E j \in 1..i - 1 : chan[l][n][j].type = "auth"
  BY DEF NothingDropped
<1>1. n \in {Dialer[l], Acceptor[l]} /\ n \in Nodes /\ phase[l] \in Phases /\ PhaseOf(l)
  BY Joined DEF IInv, NetInv, NetTypeOK, PhaseInv, Ends
<1>2. CASE phase[l] = "up"
  <2>1. Shaken(l, n)
    BY <1>2 DEF IInv, LinkInv, LinkSound
  <2> QED
    BY <2>1 DEF Shaken, Waiting
<1>3. CASE phase[l] = "accepted"
  <2>1. chan[l][n] = <<[type |-> "challenge"]>> \/ chan[l][n] = <<>>
    BY <1>1, <1>3 DEF PhaseOf
  <2> QED
    BY <2>1
<1>4. CASE phase[l] \notin {"up", "accepted"}
  <2>1. chan[l][n] = <<>>
    BY <1>1, <1>4 DEF PhaseOf, Phases
  <2> QED
    BY <2>1
<1> QED
  BY <1>2, <1>3, <1>4

LEMMA InvForgetsNothing == IInv => NothingForgotten
BY DEF IInv, LinkInv, LinkSound, Told, ToldOne, NothingForgotten

THEOREM SyncInvariant == Spec => []IInv
<1>1. Init => IInv
  BY NetInit
<1>2. IInv /\ [Next]_vars => IInv'
  BY InvNext
<1> QED
  BY <1>1, <1>2, PTL DEF Spec

\* On a link that stays up no event is lost, whatever the other links, the
\* clocks, the polls and the restarts of other nodes do (transport.ts,
\* sync-policy.ts and the triggers of db.ts).
THEOREM NothingIsLost == Spec => []NothingLost
<1>1. IInv => NothingLost
  BY InvDropsNothing, InvForgetsNothing DEF NothingLost
<1> QED
  BY <1>1, SyncInvariant, PTL

-----------------------------------------------------------------------------
(* What a packet does to the rows.  The recursion of Merged is over the     *)
(* positions of the packet; an induction over them takes the first position *)
(* that is not as claimed.                                                  *)

\* A set of numbers has a least one.
LEMMA LeastOf ==
  ASSUME NEW T, T \subseteq Nat, T # {}
  PROVE  \E m \in T : \A x \in T : m <= x
<1> DEFINE less == {ss \in Nat \X Nat : ss[1] < ss[2]}
<1>0. less = OpToRel(<, Nat)
  BY DEF OpToRel
<1>1. \A x, y \in Nat : <<y, x>> \notin less => x <= y
  OBVIOUS
<1> HIDE DEF less
<1>2. IsWellFoundedOn(less, Nat)
  BY <1>0, NatLessThanWellFounded, Zenon
<1>3. \E x \in T : \A y \in T : ~(<<y, x>> \in less)
  BY <1>2, WFMin, Zenon
<1> QED
  BY <1>1, <1>3

\* The tables on the way from the events up to a to those up to b.
IsRun(g, table, n, a, b) ==
    g = [k \in a..b |-> IF k = a THEN table ELSE Written(g[k - 1], n, k)]

LEMMA RunExists ==
  ASSUME NEW table, NEW n, NEW a \in Nat, NEW b \in Nat, a <= b
  PROVE  \E g : IsRun(g, table, n, a, b)
<1> DEFINE bad == {m \in Nat : a <= m /\ ~ \E g : IsRun(g, table, n, a, m)}
<1> SUFFICES ASSUME bad # {} PROVE FALSE
  OBVIOUS
<1>1. PICK m \in bad : \A x \in bad : m <= x
  BY LeastOf
<1>2. m \in Nat /\ a <= m /\ ~ \E g : IsRun(g, table, n, a, m)
  OBVIOUS
<1>3. CASE m = a
  <2>1. [k \in a..m |-> table] = [k \in a..m |-> IF k = a THEN table ELSE Written([i \in a..m |-> table][k - 1], n, k)]
    BY <1>3
  <2> QED
    BY <1>2, <2>1 DEF IsRun
<1>4. CASE m # a
  <2>1. m - 1 \in Nat /\ a <= m - 1 /\ m - 1 \notin bad
    BY <1>1, <1>2, <1>4
  <2>2. PICK h : IsRun(h, table, n, a, m - 1)
    BY <2>1
  <2> DEFINE last == Written(h[m - 1], n, m)
             g == [k \in a..m |-> IF k = m THEN last ELSE h[k]]
  <2>3. ASSUME NEW k \in a..m
        PROVE  g[k] = IF k = a THEN table ELSE Written(g[k - 1], n, k)
    <3>1. CASE k = a
      <4>1. a \in a..(m - 1) /\ a # m
        BY <1>2, <1>4, <2>1
      <4>2. h[a] = table
        BY <2>2, <4>1 DEF IsRun
      <4> QED
        BY <3>1, <4>1, <4>2
    <3>2. CASE k # a /\ k # m
      <4>1. k \in a..(m - 1) /\ k - 1 \in a..m /\ k - 1 # m
        BY <1>2, <3>2
      <4>2. h[k] = Written(h[k - 1], n, k)
        BY <2>2, <3>2, <4>1 DEF IsRun
      <4>3. g[k] = h[k] /\ g[k - 1] = h[k - 1]
        BY <3>2, <4>1
      <4> QED
        BY <3>2, <4>2, <4>3
    <3>3. CASE k # a /\ k = m
      <4>1. m - 1 \in a..m /\ m - 1 # m
        BY <1>2, <2>1
      <4>2. g[m - 1] = h[m - 1] /\ g[m] = last
        BY <3>3, <4>1
      <4> QED
        BY <3>3, <4>2
    <3> QED
      BY <3>1, <3>2, <3>3
  <2>4. g = [k \in a..m |-> g[k]]
    OBVIOUS
  <2> HIDE DEF g
  <2>5. g = [k \in a..m |-> IF k = a THEN table ELSE Written(g[k - 1], n, k)]
    BY <2>3, <2>4
  <2> QED
    BY <1>2, <2>5 DEF IsRun
<1> QED
  BY <1>3, <1>4

LEMMA MergedIsRun ==
  ASSUME NEW table, NEW n, NEW packet, packet.from \in Nat, packet.to \in Nat,
         packet.from <= packet.to
  PROVE  \E g : /\ IsRun(g, table, n, packet.from, packet.to)
                /\ Merged(table, n, packet) = g[packet.to]
<1> DEFINE f == CHOOSE g : IsRun(g, table, n, packet.from, packet.to)
<1>1. IsRun(f, table, n, packet.from, packet.to)
  BY RunExists
<1>2. Merged(table, n, packet) = f[packet.to]
  BY Zenon DEF Merged, IsRun
<1> QED
  BY <1>1, <1>2

Tables == [Rows -> {NoRow} \cup (Nodes \X (1..MaxEdits))]

\* The k-th event of n, of those up to m the last one about r.
LastAbout(n, r, k, m) == log[n][k].row = r /\ \A j \in k + 1..m : log[n][j].row # r

LEMMA EventFacts ==
  ASSUME NetInv, NEW n \in Nodes
  PROVE  /\ Len(log[n]) \in Nat /\ Len(log[n]) <= MaxEdits
         /\ DOMAIN log[n] = 1..Len(log[n])
         /\ \A k \in 1..Len(log[n]) : log[n][k].row \in Rows
<1> DEFINE Event == [row : Rows, at : 0..MaxTime, skipped : BOOLEAN]
<1>1. log[n] \in Seq(Event) /\ Len(log[n]) <= MaxEdits
  BY DEF NetInv, NetTypeOK, ClockInv, Events
<1>2. \A e \in Event : e.row \in Rows
  OBVIOUS
<1> HIDE DEF Event
<1> QED
  BY <1>1, <1>2, Elements

LEMMA WrittenFacts ==
  ASSUME NetInv, NEW table \in Tables, NEW n \in Nodes, NEW k \in 1..Len(log[n])
  PROVE  /\ Written(table, n, k) \in Tables
         /\ \A r \in Rows : table[r] # NoRow => Written(table, n, k)[r] # NoRow
         /\ \A r \in Rows \ {log[n][k].row} : Written(table, n, k)[r] = table[r]
         /\ \/ /\ ParentPresent(table, log[n][k].row)
               /\ Written(table, n, k)[log[n][k].row] = <<n, k>>
            \/ ~ParentPresent(table, log[n][k].row) /\ Written(table, n, k) = table
<1>1. log[n][k].row \in Rows /\ k \in 1..MaxEdits
  BY EventFacts
<1>2. PICK row \in Rows : row = log[n][k].row
  BY <1>1
<1>3. PICK e \in Nodes \X (1..MaxEdits) : e = <<n, k>>
  BY <1>1
<1>4. e # NoRow
  BY <1>3, ValueAssumption
<1>5. CASE ParentPresent(table, row)
  <2>1. Written(table, n, k) = [table EXCEPT ![row] = e]
    BY <1>2, <1>3, <1>5 DEF Written
  <2> QED
    BY <1>2, <1>3, <1>4, <1>5, <2>1 DEF Tables
<1>6. CASE ~ParentPresent(table, row)
  <2>1. Written(table, n, k) = table
    BY <1>2, <1>6 DEF Written
  <2> QED
    BY <1>2, <1>6, <2>1
<1> QED
  BY <1>5, <1>6

\* A row either keeps its value or gets it from the last event about it: once
\* it has been written its parent is there, and no later event is refused.
Moved(t, table, n, a, m) ==
    /\ t \in Tables
    /\ \A r \in Rows :
          \/ t[r] = table[r]
          \/ /\ ParentPresent(t, r)
             /\ \E k \in a + 1..m : t[r] = <<n, k>> /\ LastAbout(n, r, k, m)

LEMMA MovedOn ==
  ASSUME NetInv, NEW t, NEW table \in Tables, NEW n \in Nodes, NEW a \in Nat, NEW m \in Nat,
         a < m, m <= Len(log[n]), Moved(t, table, n, a, m - 1)
  PROVE  Moved(Written(t, n, m), table, n, a, m)
<1>0. m \in 1..Len(log[n])
  BY EventFacts
<1>1. PICK w : w = Written(t, n, m)
  OBVIOUS
<1>2. t \in Tables
  BY DEF Moved
<1>3. PICK row \in Rows : row = log[n][m].row
  BY <1>0, EventFacts
<1>4. /\ w \in Tables
      /\ \A r \in Rows : t[r] # NoRow => w[r] # NoRow
      /\ \A r \in Rows \ {row} : w[r] = t[r]
      /\ \/ ParentPresent(t, row) /\ w[row] = <<n, m>>
         \/ ~ParentPresent(t, row) /\ w = t
  <2>1. /\ Written(t, n, m) \in Tables
        /\ \A r \in Rows : t[r] # NoRow => Written(t, n, m)[r] # NoRow
        /\ \A r \in Rows \ {log[n][m].row} : Written(t, n, m)[r] = t[r]
        /\ \/ /\ ParentPresent(t, log[n][m].row)
              /\ Written(t, n, m)[log[n][m].row] = <<n, m>>
           \/ ~ParentPresent(t, log[n][m].row) /\ Written(t, n, m) = t
    BY <1>0, <1>2, WrittenFacts
  <2> QED
    BY <1>1, <1>3, <2>1
<1>5. \A r \in Rows : ParentPresent(t, r) => ParentPresent(w, r)
  BY <1>4 DEF ParentPresent
<1>6. ASSUME NEW r \in Rows, w[r] # table[r]
      PROVE  ParentPresent(w, r) /\ \E k \in a + 1..m : w[r] = <<n, k>> /\ LastAbout(n, r, k, m)
  <2>1. CASE r = row /\ w[row] = <<n, m>> /\ ParentPresent(t, row)
    <3>1. m \in a + 1..m /\ LastAbout(n, r, m, m)
      BY <1>3, <2>1 DEF LastAbout
    <3> QED
      BY <1>5, <2>1, <3>1
  <2>2. CASE r = row /\ w = t /\ ~ParentPresent(t, row)
    BY <1>6, <2>2 DEF Moved
  <2>3. CASE r # row
    <3>1. w[r] = t[r]
      BY <1>4, <2>3
    <3>2. ParentPresent(t, r) /\ \E k \in a + 1..m - 1 : t[r] = <<n, k>> /\ LastAbout(n, r, k, m - 1)
      BY <1>6, <3>1 DEF Moved
    <3>3. PICK k \in a + 1..m - 1 : t[r] = <<n, k>> /\ LastAbout(n, r, k, m - 1)
      BY <3>2
    <3>4. LastAbout(n, r, k, m)
      <4>1. ASSUME NEW j \in k + 1..m PROVE log[n][j].row # r
        <5>1. CASE j = m
          BY <1>3, <2>3, <5>1
        <5>2. CASE j # m
          <6>1. j \in k + 1..m - 1
            BY <5>2
          <6> QED
            BY <3>3, <6>1 DEF LastAbout
        <5> QED
          BY <5>1, <5>2
      <4> QED
        BY <3>3, <4>1 DEF LastAbout
    <3>5. k \in a + 1..m
      OBVIOUS
    <3> QED
      BY <1>5, <3>1, <3>2, <3>3, <3>4, <3>5
  <2> QED
    BY <1>4, <2>1, <2>2, <2>3
<1>7. Moved(w, table, n, a, m)
  BY <1>4, <1>6 DEF Moved
<1> QED
  BY <1>1, <1>7

LEMMA MergedMoves ==
  ASSUME NetInv, NEW table \in Tables, NEW n \in Nodes, NEW packet,
         packet.from \in Nat, packet.to \in Nat, packet.from <= packet.to,
         packet.to <= Len(log[n])
  PROVE  Moved(Merged(table, n, packet), table, n, packet.from, packet.to)
<1>1. PICK a \in Nat, b \in Nat : a = packet.from /\ b = packet.to
  OBVIOUS
<1>2. PICK g : IsRun(g, table, n, a, b) /\ Merged(table, n, packet) = g[b]
  BY <1>1, MergedIsRun
<1> DEFINE bad == {m \in Nat : a <= m /\ m <= b /\ ~Moved(g[m], table, n, a, m)}
<1>3. ASSUME bad # {} PROVE FALSE
  <2>1. PICK m \in bad : \A x \in bad : m <= x
    BY <1>3, LeastOf
  <2>2. m \in Nat /\ a <= m /\ m <= b /\ ~Moved(g[m], table, n, a, m)
    OBVIOUS
  <2>3. CASE m = a
    <3>1. g[a] = table
      BY <1>1, <1>2, <2>2 DEF IsRun
    <3> QED
      BY <2>2, <2>3, <3>1 DEF Moved
  <2>4. CASE m # a
    <3>1. m - 1 \in Nat /\ a <= m - 1 /\ m - 1 <= b /\ m - 1 \notin bad
      BY <2>1, <2>2, <2>4
    <3>2. Moved(g[m - 1], table, n, a, m - 1)
      BY <3>1
    <3>3. m \in a..b /\ g[m] = Written(g[m - 1], n, m)
      BY <1>2, <2>2, <2>4 DEF IsRun
    <3>4. PICK t : t = g[m - 1]
      OBVIOUS
    <3>5. a < m /\ m <= Len(log[n])
      BY <1>1, <2>2, <2>4, EventFacts
    <3>6. Moved(Written(t, n, m), table, n, a, m)
      BY <2>2, <3>2, <3>4, <3>5, MovedOn
    <3> QED
      BY <2>2, <3>3, <3>4, <3>6
  <2> QED
    BY <2>3, <2>4
<1>4. Moved(g[b], table, n, a, b)
  BY <1>1, <1>3
<1> QED
  BY <1>1, <1>2, <1>4

-----------------------------------------------------------------------------
(* The copies of the rows: the inductive invariant.                        *)

IsDelta(f) == f.type = "delta"

\* A value is the one that an event gave to that row.
RowsInv ==
    /\ rows \in [Nodes -> Tables]
    /\ \A n \in Nodes : \A r \in Rows : \A a \in Nodes : \A v \in 1..MaxEdits :
          rows[n][r] = <<a, v>> => v \in 1..Len(log[a]) /\ log[a][v].row = r

\* A packet of deltas is a part of its sender's log.
PacketInv ==
    \A l \in Links : \A n \in Ends(l) : \A i \in DOMAIN chan[l][n] :
        IsDelta(chan[l][n][i]) =>
            /\ chan[l][n][i].from <= chan[l][n][i].to
            /\ chan[l][n][i].to <= Len(log[Other(l, n)])

\* On the only socket between two nodes no packet ends before one in front of
\* it, nor before an event that the receiver has already.
OrderOf(l, n) ==
    \A i \in DOMAIN chan[l][n] :
        IsDelta(chan[l][n][i]) =>
            /\ \A j \in 1..i : IsDelta(chan[l][n][j]) => chan[l][n][j].to <= chan[l][n][i].to
            /\ \A r \in Rows : \A v \in 1..MaxEdits :
                  rows[n][r] = <<Other(l, n), v>> => v <= chan[l][n][i].to
OrderInv == \A l \in Links \ doubled : \A n \in Ends(l) : OrderOf(l, n)

DoubleInv ==
    \A k, l \in Links :
        k # l /\ Ends(k) = Ends(l) /\ phase[k] = "up" /\ phase[l] = "up" => l \in doubled

CopyInv == RowsInv /\ PacketInv /\ OrderInv /\ DoubleInv

-----------------------------------------------------------------------------
(* The queues of frames.                                                   *)

\* What a step does to the frames for n on l: at most one leaves or arrives,
\* and a packet that arrives ends with the log of its sender.
QueueStep(l, n) ==
    \/ chan'[l][n] = chan[l][n]
    \/ chan'[l][n] = <<>>
    \/ chan[l][n] # <<>> /\ chan'[l][n] = Tail(chan[l][n])
    \/ \E f \in Frames :
          /\ chan'[l][n] = Append(chan[l][n], f)
          /\ IsDelta(f) => f.from <= f.to /\ f.to = Len(log[Other(l, n)])

LEMMA Grown ==
  ASSUME NetInv, NEW k \in Links, NEW m \in Nodes, NEW f \in Frames,
         chan' = Push(chan, k, m, f), IsDelta(f) => f.from <= f.to /\ f.to = Len(log[Other(k, m)])
  PROVE  \A l \in Links : \A n \in Ends(l) : QueueStep(l, n)
<1>1. chan \in Channels
  BY DEF NetInv, NetTypeOK
<1> SUFFICES ASSUME NEW l \in Links, NEW n \in Ends(l) PROVE QueueStep(l, n)
  OBVIOUS
<1>2. n \in Nodes
  BY Joined
<1>3. /\ chan'[k][m] = Append(chan[k][m], f)
      /\ \A x \in Nodes \ {m} : chan'[k][x] = chan[k][x]
      /\ \A x \in Links \ {k} : chan'[x] = chan[x]
  <2>1. PICK c \in Channels : c = chan
    BY <1>1
  <2>2. /\ Push(c, k, m, f)[k][m] = Append(c[k][m], f)
        /\ \A x \in Nodes \ {m} : Push(c, k, m, f)[k][x] = c[k][x]
        /\ \A x \in Links \ {k} : Push(c, k, m, f)[x] = c[x]
    BY Pushing
  <2> QED
    BY <2>1, <2>2
<1> QED
  BY <1>2, <1>3 DEF QueueStep

LEMMA Shrunk ==
  ASSUME NetInv, NEW k \in Links, NEW m \in Nodes, chan[k][m] # <<>>, chan' = Consumed(m, k)
  PROVE  \A l \in Links : \A n \in Ends(l) : QueueStep(l, n)
<1> SUFFICES ASSUME NEW l \in Links, NEW n \in Ends(l) PROVE QueueStep(l, n)
  OBVIOUS
<1>1. n \in Nodes
  BY Joined
<1>2. /\ chan'[k][m] = Tail(chan[k][m])
      /\ \A x \in Nodes \ {m} : chan'[k][x] = chan[k][x]
      /\ \A x \in Links \ {k} : chan'[x] = chan[x]
  BY Consuming DEF NetInv
<1> QED
  BY <1>1, <1>2 DEF QueueStep

\* The frame at the front leaves, and the other end gets one.
LEMMA Traded ==
  ASSUME NetInv, NEW k \in Links, NEW m \in Ends(k), chan[k][m] # <<>>, NEW f \in Frames,
         chan' = Push(Consumed(m, k), k, Other(k, m), f),
         IsDelta(f) => f.from <= f.to /\ f.to = Len(log[m])
  PROVE  \A l \in Links : \A n \in Ends(l) : QueueStep(l, n)
<1> SUFFICES ASSUME NEW l \in Links, NEW n \in Ends(l) PROVE QueueStep(l, n)
  OBVIOUS
<1>1. n \in Nodes /\ m \in Nodes
  BY Joined
<1>2. PICK o \in Nodes : o = Other(k, m) /\ o # m /\ Other(k, o) = m
  BY Joined
<1>3. PICK c : c = Consumed(m, k)
  OBVIOUS
<1>4. /\ c \in Channels /\ c[k][m] = Tail(chan[k][m])
      /\ \A x \in Nodes \ {m} : c[k][x] = chan[k][x]
      /\ \A x \in Links \ {k} : c[x] = chan[x]
  BY <1>1, <1>3, Consuming DEF NetInv
<1>5. /\ chan'[k][o] = Append(c[k][o], f)
      /\ \A x \in Nodes \ {o} : chan'[k][x] = c[k][x]
      /\ \A x \in Links \ {k} : chan'[x] = c[x]
  <2>1. c \in Channels
    BY <1>4
  <2>2. /\ Push(c, k, o, f)[k][o] = Append(c[k][o], f)
        /\ \A x \in Nodes \ {o} : Push(c, k, o, f)[k][x] = c[k][x]
        /\ \A x \in Links \ {k} : Push(c, k, o, f)[x] = c[x]
    BY <2>1, Pushing
  <2> QED
    BY <1>2, <1>3, <2>2
<1>6. CASE l # k
  BY <1>4, <1>5, <1>6 DEF QueueStep
<1>7. CASE l = k /\ n = o
  BY <1>2, <1>4, <1>5, <1>7 DEF QueueStep
<1>8. CASE l = k /\ n # o
  BY <1>1, <1>2, <1>4, <1>5, <1>8 DEF QueueStep
<1> QED
  BY <1>6, <1>7, <1>8

LEMMA Silenced ==
  ASSUME NetInv, NEW k \in Links, Hangup(k)
  PROVE  \A l \in Links : \A n \in Ends(l) : QueueStep(l, n)
<1>1. /\ \A n \in Nodes : chan'[k][n] = <<>>
      /\ \A l \in Links \ {k} : chan'[l] = chan[l]
  BY Hanging DEF NetInv
<1> QED
  BY <1>1, Joined DEF QueueStep

LEMMA OfferedPacket ==
  ASSUME NetInv, NEW n \in Nodes, NEW t \in Nat
  PROVE  /\ DeltasAfter(n, t) \in Frames
         /\ DeltasAfter(n, t).from <= DeltasAfter(n, t).to
         /\ DeltasAfter(n, t).to = Len(log[n])
<1>1. PICK f : f = DeltasAfter(n, t)
  OBVIOUS
<1>2. /\ f \in Frames /\ f.from = UpTo(n, t) /\ f.to = Len(log[n])
      /\ UpTo(n, t) \in 0..Len(log[n]) /\ Len(log[n]) \in 0..MaxEdits
  BY <1>1, PacketFacts
<1> QED
  BY <1>1, <1>2

LEMMA QueueSteps ==
  ASSUME NetInv, [Next]_vars
  PROVE  \A l \in Links : \A n \in Ends(l) : QueueStep(l, n)
<1>0. chan' = chan => \A l \in Links : \A n \in Ends(l) : QueueStep(l, n)
  BY DEF QueueStep
<1>1. CASE UNCHANGED vars
  BY <1>0, <1>1 DEF vars, netVars
<1>2. CASE Tick
  BY <1>0, <1>2 DEF Tick, netVars
<1>3. ASSUME NEW n \in Nodes, NEW r \in Rows, Edit(n, r)
      PROVE  \A l \in Links : \A m \in Ends(l) : QueueStep(l, m)
  BY <1>0, <1>3 DEF Edit, netVars
<1>4. ASSUME NEW n \in Nodes, Poll(n) PROVE \A l \in Links : \A m \in Ends(l) : QueueStep(l, m)
  <2>1. PICK packet : packet = DeltasAfter(n, watermark[n])
    OBVIOUS
  <2>2. packet \in Frames /\ packet.from <= packet.to /\ packet.to = Len(log[n])
    <3>1. PICK t \in Nat : t = watermark[n]
      BY DEF NetInv, NetTypeOK
    <3> QED
      BY <2>1, <3>1, OfferedPacket
  <2>3. \A l \in Links : chan'[l] = IF l \in Recipients(n) /\ phase[l] = "up"
                                    THEN Push(chan, l, Other(l, n), packet)[l] ELSE chan[l]
    BY <1>4, <2>1 DEF Poll
  <2> SUFFICES ASSUME NEW l \in Links, NEW m \in Ends(l) PROVE QueueStep(l, m)
    OBVIOUS
  <2>4. CASE l \in Recipients(n) /\ phase[l] = "up"
    <3>1. n \in Ends(l) /\ m \in Nodes
      BY <2>4, Joined DEF Recipients, NetInv, NetTypeOK
    <3>2. PICK o \in Nodes : o = Other(l, n) /\ o # n /\ Other(l, o) = n
      BY <3>1, Joined
    <3>3. chan \in Channels /\ chan'[l] = Push(chan, l, o, packet)[l]
      BY <2>3, <2>4, <3>2 DEF NetInv, NetTypeOK
    <3>4. /\ chan'[l][o] = Append(chan[l][o], packet)
          /\ \A x \in Nodes \ {o} : chan'[l][x] = chan[l][x]
      BY <2>2, <3>3, Pushing
    <3>5. CASE m = o
      BY <2>2, <3>2, <3>4, <3>5 DEF QueueStep
    <3>6. CASE m # o
      BY <3>1, <3>4, <3>6 DEF QueueStep
    <3> QED
      BY <3>5, <3>6
  <2>5. CASE ~(l \in Recipients(n) /\ phase[l] = "up")
    BY <2>3, <2>5 DEF QueueStep
  <2> QED
    BY <2>4, <2>5
<1>5. ASSUME NEW n \in Nodes, Restart(n) PROVE \A l \in Links : \A m \in Ends(l) : QueueStep(l, m)
  <2> SUFFICES ASSUME NEW l \in Links, NEW m \in Ends(l) PROVE QueueStep(l, m)
    OBVIOUS
  <2>1. chan'[l] = IF n \in Ends(l) THEN [x \in Nodes |-> <<>>] ELSE chan[l]
    BY <1>5 DEF Restart
  <2>2. m \in Nodes
    BY Joined
  <2>3. CASE n \in Ends(l)
    <3>1. chan'[l] = [x \in Nodes |-> <<>>]
      BY <2>1, <2>3
    <3>2. chan'[l][m] = <<>>
      BY <2>2, <3>1
    <3> QED
      BY <3>2 DEF QueueStep
  <2>4. CASE n \notin Ends(l)
    BY <2>1, <2>4 DEF QueueStep
  <2> QED
    BY <2>3, <2>4
<1>6. ASSUME NEW k \in Links, Socket(k) PROVE \A l \in Links : \A m \in Ends(l) : QueueStep(l, m)
  <2>1. CASE Dial(k) \/ NoticesClose(k)
    BY <1>0, <2>1 DEF Dial, NoticesClose
  <2>2. CASE Breaks(k)
    BY <2>2, Silenced DEF Breaks
  <2>3. CASE Accept(k) \/ Opened(k)
    <3>1. PICK n \in Ends(k) : Register(n, k)
      BY <2>3, Joined DEF Accept, Opened
    <3>2. PICK o \in Nodes, f \in Frames :
            o = Other(k, n) /\ f = [type |-> "challenge"] /\ chan' = Push(chan, k, o, f)
      BY <3>1, Joined, FrameFacts DEF Register
    <3>3. ~IsDelta(f)
      BY <3>2 DEF IsDelta
    <3> QED
      BY <3>2, <3>3, Grown
  <2> QED
    BY <1>6, <2>1, <2>2, <2>3 DEF Socket
<1>7. ASSUME NEW k \in Links, NEW m \in Ends(k), HandshakeTimeout(m, k)
      PROVE  \A l \in Links : \A n \in Ends(l) : QueueStep(l, n)
  BY <1>0, <1>7, Silenced DEF HandshakeTimeout
<1>8. ASSUME NEW k \in Links, NEW m \in Ends(k), Receive(m, k)
      PROVE  \A l \in Links : \A n \in Ends(l) : QueueStep(l, n)
  <2>0. m \in Nodes /\ Acceptor[k] \in Nodes /\ (m = Dialer[k] => Other(k, m) = Acceptor[k])
    BY Joined DEF Other
  <2>1. CASE Challenged(m, k)
    <3>1. PICK f \in Frames : f = [type |-> "auth"]
      BY FrameFacts
    <3>2. ~IsDelta(f) /\ chan[k][m] # <<>> /\ chan' = Push(Consumed(m, k), k, Other(k, m), f)
      BY <2>1, <3>1 DEF Challenged, Arrives, IsDelta
    <3> QED
      BY <3>2, Traded
  <2>2. CASE Proven(m, k)
    <3>1. CASE m = Dialer[k]
      <4>1. watermark[m] \in 0..MaxTime
        BY <2>0 DEF NetInv, NetTypeOK
      <4>2. PICK f \in Frames : f = [type |-> "offer", after |-> watermark[m]]
        BY <4>1, FrameFacts
      <4>3. ~IsDelta(f) /\ chan[k][m] # <<>> /\ chan' = Push(Consumed(m, k), k, Other(k, m), f)
        BY <2>0, <2>2, <3>1, <4>2 DEF Proven, Arrives, IsDelta
      <4> QED
        BY <4>3, Traded
    <3>2. CASE m # Dialer[k]
      BY <2>0, <2>2, <3>2, Shrunk DEF Proven, Arrives
    <3> QED
      BY <3>1, <3>2
  <2>3. CASE Refused(m, k)
    BY <2>3, Silenced DEF Refused
  <2>4. CASE Offered(m, k)
    <3>1. PICK t : t = Head(chan[k][m]).after
      OBVIOUS
    <3>2. t \in Nat
      <4>1. chan[k][m] # <<>> /\ Head(chan[k][m]).type = "offer"
        BY <2>4 DEF Offered, Arrives
      <4>2. Head(chan[k][m]) \in Frames
        BY <2>0, <4>1, FrontFacts DEF NetInv
      <4> QED
        BY <3>1, <4>1, <4>2, FrameFacts
    <3>3. PICK f : f = DeltasAfter(m, t)
      OBVIOUS
    <3>4. f \in Frames /\ f.from <= f.to /\ f.to = Len(log[m])
      BY <2>0, <3>2, <3>3, OfferedPacket
    <3>5. chan[k][m] # <<>> /\ chan' = Push(Consumed(m, k), k, Other(k, m), f)
      BY <2>4, <3>1, <3>3 DEF Offered, Arrives
    <3> QED
      BY <3>4, <3>5, Traded
  <2>5. CASE Applied(m, k) \/ Dropped(m, k)
    BY <2>0, <2>5, Shrunk DEF Applied, Dropped, Arrives
  <2> QED
    BY <1>8, <2>1, <2>2, <2>3, <2>4, <2>5 DEF Receive
<1> QED
  BY <1>1, <1>2, <1>3, <1>4, <1>5, <1>6, <1>7, <1>8 DEF Next

\* The frames of a queue after a step: those before it, and one that arrived.
Fed(l, n, f) == IsDelta(f) => f.from <= f.to /\ f.to = Len(log[Other(l, n)])
ShiftedBy(l, n, s) ==
    \A i \in DOMAIN chan'[l][n] :
        \/ i + s \in DOMAIN chan[l][n] /\ chan'[l][n][i] = chan[l][n][i + s]
        \/ /\ s = 0 /\ i = Len(chan[l][n]) + 1 /\ Fed(l, n, chan'[l][n][i])

LEMMA QueueFrames ==
  ASSUME NetInv, NEW l \in Links, NEW n \in Ends(l), QueueStep(l, n)
  PROVE  \E s \in {0, 1} : ShiftedBy(l, n, s)
<1>1. n \in Nodes
  BY Joined
<1>2. PICK q \in Seq(Frames) : q = chan[l][n]
  BY <1>1 DEF NetInv, NetTypeOK, Channels
<1>3. CASE chan'[l][n] = q
  <2>1. ShiftedBy(l, n, 0)
    BY <1>2, <1>3 DEF ShiftedBy
  <2> QED
    BY <2>1
<1>4. CASE chan'[l][n] = <<>>
  <2>1. ShiftedBy(l, n, 0)
    BY <1>4 DEF ShiftedBy
  <2> QED
    BY <2>1
<1>5. CASE q # <<>> /\ chan'[l][n] = Tail(q)
  <2>1. ShiftedBy(l, n, 1)
    BY <1>2, <1>5 DEF ShiftedBy
  <2> QED
    BY <2>1
<1>6. ASSUME NEW f \in Frames, chan'[l][n] = Append(q, f), Fed(l, n, f)
      PROVE  ShiftedBy(l, n, 0)
  <2>1. \A i \in DOMAIN Append(q, f) : \/ i + 0 \in DOMAIN q /\ Append(q, f)[i] = q[i + 0]
                                       \/ i = Len(q) + 1 /\ Append(q, f)[i] = f
    OBVIOUS
  <2> QED
    BY <1>2, <1>6, <2>1 DEF ShiftedBy
<1> QED
  BY <1>2, <1>3, <1>4, <1>5, <1>6 DEF QueueStep, Fed

LEMMA RowsAndLogs ==
  ASSUME [Next]_vars
  PROVE  \/ rows' = rows /\ log' = log
         \/ \E m \in Nodes, r \in Rows : Edit(m, r)
         \/ log' = log /\ \E l \in Links : \E m \in Ends(l) : Applied(m, l)
<1>1. CASE UNCHANGED vars \/ Tick
  BY <1>1 DEF vars, netVars, Tick
<1>2. ASSUME NEW n \in Nodes, Poll(n) \/ Restart(n) PROVE rows' = rows /\ log' = log
  BY <1>2 DEF Poll, Restart
<1>3. ASSUME NEW l \in Links, Socket(l) PROVE rows' = rows /\ log' = log
  BY <1>3 DEF Socket, Dial, Accept, Opened, Breaks, NoticesClose
<1>4. ASSUME NEW l \in Links, NEW n \in Ends(l), HandshakeTimeout(n, l) PROVE rows' = rows /\ log' = log
  BY <1>4 DEF HandshakeTimeout
<1>5. ASSUME NEW l \in Links, NEW n \in Ends(l), Receive(n, l)
      PROVE  log' = log /\ (rows' = rows \/ Applied(n, l))
  BY <1>5, Zenon DEF Receive, Challenged, Proven, Refused, Offered, Applied, Dropped
<1> QED
  BY <1>1, <1>2, <1>3, <1>4, <1>5, Zenon DEF Next

LEMMA LogGrows ==
  ASSUME NetInv, [Next]_vars
  PROVE  \A n \in Nodes : /\ Len(log[n]) <= Len(log'[n])
                          /\ \A v \in 1..Len(log[n]) : log'[n][v] = log[n][v]
<1>0. \A n \in Nodes : Len(log[n]) \in Nat /\ log[n] \in Events
  BY EventFacts DEF NetInv, NetTypeOK
<1>1. CASE log' = log
  BY <1>0, <1>1
<1>2. CASE log' # log
  <2>1. PICK m \in Nodes, r \in Rows : Edit(m, r)
    BY <1>2, RowsAndLogs
  <2>2. PICK e : log' = [log EXCEPT ![m] = Append(@, e)]
    BY <2>1 DEF Edit
  <2>3. log \in [Nodes -> Events]
    BY DEF NetInv, NetTypeOK
  <2>4. ASSUME NEW n \in Nodes, n # m PROVE log'[n] = log[n]
    BY <2>2, <2>3, <2>4
  <2>5. log'[m] = Append(log[m], e)
    BY <2>2, <2>3
  <2>6. PICK o : o = log[m] /\ o \in Events
    BY <1>0
  <2>7. Len(Append(o, e)) = Len(o) + 1 /\ \A v \in 1..Len(o) : Append(o, e)[v] = o[v]
    BY <2>6 DEF Events
  <2> QED
    BY <1>0, <2>4, <2>5, <2>6, <2>7
<1> QED
  BY <1>1, <1>2

\* The step gives row r of n its next value.
Edited(n, r) ==
    /\ rows'[n][r] = <<n, Len(log[n]) + 1>>
    /\ Len(log'[n]) = Len(log[n]) + 1 /\ log'[n][Len(log[n]) + 1].row = r
Copied(n, r, l, k) ==
    /\ Arrives(n, l, "delta") /\ chan' = Consumed(n, l)
    /\ rows'[n][r] = <<Other(l, n), k>>
    /\ k <= Head(chan[l][n]).to
    /\ LastAbout(Other(l, n), r, k, Head(chan[l][n]).to)
RowStep(n, r) ==
    \/ rows'[n][r] = rows[n][r]
    \/ Edited(n, r)
    \/ \E l \in Links : /\ n \in Ends(l)
                        /\ \E k \in 1..Len(log[Other(l, n)]) : Copied(n, r, l, k)

LEMMA EditRows ==
  ASSUME NetInv, RowsInv, NEW m \in Nodes, NEW row \in Rows, Edit(m, row)
  PROVE  rows' \in [Nodes -> Tables] /\ \A n \in Nodes, r \in Rows : RowStep(n, r)
<1>1. PICK e : e = <<m, Len(log[m]) + 1>> /\ rows' = [rows EXCEPT ![m][row] = e]
  BY DEF Edit
<1>2. Len(log[m]) \in Nat /\ Len(log[m]) + 1 \in 1..MaxEdits
  <2>1. Len(log[m]) < MaxEdits
    BY Zenon DEF Edit
  <2> QED
    BY <2>1, EventFacts
<1>3. e \in Nodes \X (1..MaxEdits)
  BY <1>1, <1>2
<1>4. PICK w \in [Nodes -> Tables] : w = rows
  BY DEF RowsInv
<1>5. /\ rows' \in [Nodes -> Tables]
      /\ rows'[m][row] = e
      /\ \A n \in Nodes, r \in Rows : n # m \/ r # row => rows'[n][r] = rows[n][r]
  BY <1>1, <1>3, <1>4 DEF Tables
<1>6. Len(log'[m]) = Len(log[m]) + 1 /\ log'[m][Len(log[m]) + 1].row = row
  <2>1. PICK x : /\ x = [row |-> row, at |-> now, skipped |-> now = watermark[m]]
                 /\ log' = [log EXCEPT ![m] = Append(@, x)]
    BY Zenon DEF Edit
  <2>2. PICK o : o = log[m] /\ o \in Events
    BY DEF NetInv, NetTypeOK
  <2>3. log'[m] = Append(o, x)
    BY <2>1, <2>2 DEF NetInv, NetTypeOK
  <2>4. Len(Append(o, x)) = Len(o) + 1 /\ Append(o, x)[Len(o) + 1] = x
    BY <2>2 DEF Events
  <2> QED
    BY <2>1, <2>2, <2>3, <2>4
<1>7. Edited(m, row)
  BY <1>1, <1>5, <1>6 DEF Edited
<1> QED
  BY <1>5, <1>7 DEF RowStep

LEMMA AppliedRows ==
  ASSUME NetInv, RowsInv, PacketInv, NEW l \in Links, NEW m \in Ends(l), Applied(m, l)
  PROVE  rows' \in [Nodes -> Tables] /\ \A n \in Nodes, r \in Rows : RowStep(n, r)
<1>1. PICK o \in Nodes : o = Other(l, m)
  BY Joined
<1>2. m \in Nodes
  BY Joined
<1>3. PICK packet : packet = Head(chan[l][m])
  OBVIOUS
<1>4. Arrives(m, l, "delta") /\ chan' = Consumed(m, l) /\ chan[l][m] # <<>> /\ packet.type = "delta"
  BY <1>3 DEF Applied, Arrives
<1>5. packet \in Frames /\ packet = chan[l][m][1] /\ 1 \in DOMAIN chan[l][m]
  BY <1>2, <1>3, <1>4, FrontFacts DEF NetInv
<1>6. packet.from \in Nat /\ packet.to \in Nat /\ packet.from <= packet.to /\ packet.to <= Len(log[o])
  <2>1. packet.from \in Nat /\ packet.to \in Nat
    BY <1>4, <1>5, FrameFacts
  <2>2. packet.from <= packet.to /\ packet.to <= Len(log[o])
    BY <1>1, <1>4, <1>5 DEF PacketInv, IsDelta
  <2> QED
    BY <2>1, <2>2
<1>7. PICK table \in Tables : table = rows[m]
  BY <1>2 DEF RowsInv
<1>8. PICK t : t = Merged(table, o, packet)
  OBVIOUS
<1>9. Moved(t, table, o, packet.from, packet.to)
  BY <1>6, <1>8, MergedMoves
<1>10. rows' = [rows EXCEPT ![m] = t]
  BY <1>1, <1>3, <1>7, <1>8 DEF Applied
<1>11. rows' \in [Nodes -> Tables] /\ rows'[m] = t /\ \A n \in Nodes \ {m} : rows'[n] = rows[n]
  <2>1. t \in Tables
    BY <1>9, Zenon DEF Moved
  <2>2. rows \in [Nodes -> Tables]
    BY DEF RowsInv
  <2> HIDE DEF Tables
  <2> QED
    BY <1>2, <1>10, <2>1, <2>2
<1>12. ASSUME NEW r \in Rows, t[r] # table[r] PROVE RowStep(m, r)
  <2>1. PICK k \in packet.from + 1..packet.to : t[r] = <<o, k>> /\ LastAbout(o, r, k, packet.to)
    BY <1>9, <1>12 DEF Moved
  <2>2. k \in 1..Len(log[o]) /\ k <= packet.to
    BY <1>1, <1>2, <1>6, EventFacts
  <2>3. Copied(m, r, l, k)
    BY <1>1, <1>2, <1>3, <1>4, <1>11, <2>1, <2>2 DEF Copied
  <2> QED
    BY <1>1, <2>2, <2>3 DEF RowStep
<1>13. ASSUME NEW r \in Rows, t[r] = table[r] PROVE RowStep(m, r)
  BY <1>7, <1>11, <1>13 DEF RowStep
<1> QED
  BY <1>11, <1>12, <1>13 DEF RowStep

LEMMA RowsStep ==
  ASSUME NetInv, RowsInv, PacketInv, [Next]_vars
  PROVE  rows' \in [Nodes -> Tables] /\ \A n \in Nodes, r \in Rows : RowStep(n, r)
<1>1. CASE rows' = rows
  BY <1>1 DEF RowsInv, RowStep
<1>2. CASE rows' # rows
  <2>1. \/ \E m \in Nodes, r \in Rows : Edit(m, r)
        \/ \E l \in Links : \E m \in Ends(l) : Applied(m, l)
    BY <1>2, RowsAndLogs
  <2> QED
    BY <2>1, EditRows, AppliedRows
<1> QED
  BY <1>1, <1>2

LEMMA DoubledGrows == [Next]_vars => doubled \subseteq doubled'
<1> SUFFICES ASSUME [Next]_vars PROVE doubled \subseteq doubled'
  OBVIOUS
<1>1. CASE UNCHANGED vars \/ Tick
  BY <1>1 DEF vars, netVars, Tick
<1>2. ASSUME NEW n \in Nodes, Poll(n) \/ Restart(n) \/ \E r \in Rows : Edit(n, r)
      PROVE  doubled \subseteq doubled'
  BY <1>2, Zenon DEF Poll, Restart, Edit, netVars
<1>3. ASSUME NEW l \in Links, Socket(l) PROVE doubled \subseteq doubled'
  BY <1>3, Zenon DEF Socket, Dial, Accept, Opened, Breaks, NoticesClose
<1>4. ASSUME NEW l \in Links, NEW n \in Ends(l), HandshakeTimeout(n, l) \/ Receive(n, l)
      PROVE  doubled \subseteq doubled'
  BY <1>4, Zenon DEF HandshakeTimeout, Receive, Challenged, Proven, Refused, Offered, Applied, Dropped
<1> QED
  BY <1>1, <1>2, <1>3, <1>4, Zenon DEF Next

LEMMA DoubleNext ==
  ASSUME NetInv, DoubleInv, [Next]_vars PROVE DoubleInv'
<1> SUFFICES ASSUME NEW k \in Links, NEW l \in Links, k # l, Ends(k) = Ends(l),
                    phase'[k] = "up", phase'[l] = "up"
             PROVE  l \in doubled'
  BY DEF DoubleInv, Ends
<1>1. CASE phase[k] = "up" /\ phase[l] = "up"
  BY <1>1, DoubledGrows DEF DoubleInv
<1>2. ASSUME phase[k] # "up", phase[l] # "up" PROVE FALSE
  <2>1. Opened(k)
    BY <1>2, OnlyOpened
  <2>2. phase' = [phase EXCEPT ![k] = "up"]
    BY <2>1, Zenon DEF Opened
  <2> QED
    BY <1>2, <2>2 DEF NetInv, NetTypeOK
<1>3. ASSUME NEW x \in {k, l}, NEW y \in {k, l}, x # y, phase[x] # "up", phase[y] = "up"
      PROVE  {k, l} \subseteq doubled'
  <2>1. Opened(x)
    BY <1>3, OnlyOpened
  <2>2. y \in {z \in Links \ {x} : Ends(z) = Ends(x) /\ phase[z] \notin {"unused", "gone"}}
    BY <1>3
  <2>3. y \in doubled' /\ x \in doubled'
    BY <2>1, <2>2 DEF Opened
  <2> QED
    BY <1>3, <2>3
<1> QED
  BY <1>1, <1>2, <1>3

LEMMA PacketNext ==
  ASSUME NetInv, PacketInv, [Next]_vars PROVE PacketInv'
<1> SUFFICES ASSUME NEW l \in Links, NEW n \in Ends(l), NEW i \in DOMAIN chan'[l][n],
                    IsDelta(chan'[l][n][i])
             PROVE  /\ chan'[l][n][i].from <= chan'[l][n][i].to
                    /\ chan'[l][n][i].to <= Len(log'[Other(l, n)])
  BY DEF PacketInv, Ends, Other, IsDelta
<1>1. PICK s \in {0, 1} : ShiftedBy(l, n, s)
  BY QueueSteps, QueueFrames
<1>2. PICK o \in Nodes : o = Other(l, n)
  BY Joined
<1>3. Len(log[o]) \in Nat /\ Len(log'[o]) \in Nat /\ Len(log[o]) <= Len(log'[o])
  <2>1. NetTypeOK' /\ ClockInv'
    BY TypeNext, ClockNext
  <2>2. log'[o] \in Events
    BY <2>1 DEF NetTypeOK
  <2>3. Len(log'[o]) \in Nat
    BY <2>2 DEF Events
  <2> QED
    BY <2>3, EventFacts, LogGrows
<1>4. n \in Nodes /\ chan[l][n] \in Seq(Frames)
  BY Joined DEF NetInv, NetTypeOK, Channels
<1>5. CASE i + s \in DOMAIN chan[l][n] /\ chan'[l][n][i] = chan[l][n][i + s]
  <2>1. PICK f : f = chan[l][n][i + s]
    OBVIOUS
  <2>2. f \in Frames /\ IsDelta(f) /\ f.from <= f.to /\ f.to <= Len(log[o])
    BY <1>2, <1>4, <1>5, <2>1 DEF PacketInv
  <2>3. f.to \in Nat
    BY <2>2, FrameFacts DEF IsDelta
  <2> QED
    BY <1>2, <1>3, <1>5, <2>1, <2>2, <2>3
<1>6. CASE Fed(l, n, chan'[l][n][i])
  BY <1>2, <1>3, <1>6 DEF Fed
<1> QED
  BY <1>1, <1>5, <1>6 DEF ShiftedBy

LEMMA RowsNext ==
  ASSUME NetInv, RowsInv, PacketInv, [Next]_vars PROVE RowsInv'
<1>1. rows' \in [Nodes -> Tables]
  BY RowsStep
<1>2. ASSUME NEW n \in Nodes, NEW r \in Rows, NEW a \in Nodes, NEW v \in 1..MaxEdits,
             rows'[n][r] = <<a, v>>
      PROVE  v \in 1..Len(log'[a]) /\ log'[a][v].row = r
  <2>0. /\ Len(log[a]) \in Nat /\ Len(log[a]) <= Len(log'[a]) /\ Len(log'[a]) \in Nat
        /\ \A u \in 1..Len(log[a]) : log'[a][u] = log[a][u]
    <3>1. NetTypeOK'
      BY TypeNext
    <3>2. log'[a] \in Events
      BY <3>1 DEF NetTypeOK
    <3> QED
      BY <3>2, EventFacts, LogGrows DEF Events
  <2>1. ASSUME v \in 1..Len(log[a]), log[a][v].row = r
        PROVE  v \in 1..Len(log'[a]) /\ log'[a][v].row = r
    BY <2>0, <2>1
  <2>2. CASE rows'[n][r] = rows[n][r]
    BY <1>2, <2>1, <2>2 DEF RowsInv
  <2>3. CASE Edited(n, r)
    <3>1. a = n /\ v = Len(log[n]) + 1
      BY <1>2, <2>3 DEF Edited
    <3> QED
      BY <2>0, <2>3, <3>1 DEF Edited
  <2>4. ASSUME NEW l \in Links, n \in Ends(l), NEW k \in 1..Len(log[Other(l, n)]), Copied(n, r, l, k)
        PROVE  v \in 1..Len(log'[a]) /\ log'[a][v].row = r
    <3>1. a = Other(l, n) /\ v = k /\ log[a][v].row = r
      BY <1>2, <2>4 DEF Copied, LastAbout
    <3> QED
      BY <2>1, <2>4, <3>1
  <2>5. RowStep(n, r)
    BY RowsStep
  <2> QED
    BY <2>2, <2>3, <2>4, <2>5 DEF RowStep
<1>3. RowsInv' <=> /\ rows' \in [Nodes -> Tables]
                   /\ \A n \in Nodes : \A r \in Rows : \A a \in Nodes : \A v \in 1..MaxEdits :
                         rows'[n][r] = <<a, v>> => v \in 1..Len(log'[a]) /\ log'[a][v].row = r
  BY DEF RowsInv, Tables
<1> QED
  BY <1>1, <1>2, <1>3

\* A packet that is under way is on a socket that is up.
LEMMA DeltaUp ==
  ASSUME NetInv, PhaseInv, NEW l \in Links, NEW n \in Ends(l), NEW i \in DOMAIN chan[l][n],
         IsDelta(chan[l][n][i])
  PROVE  phase[l] = "up"
<1>1. n \in {Dialer[l], Acceptor[l]} /\ n \in Nodes /\ phase[l] \in Phases /\ PhaseOf(l)
  BY Joined DEF NetInv, NetTypeOK, PhaseInv, Ends
<1>2. CASE phase[l] = "accepted"
  <2>1. chan[l][n] = <<[type |-> "challenge"]>> \/ chan[l][n] = <<>>
    BY <1>1, <1>2 DEF PhaseOf
  <2> QED
    BY <2>1 DEF IsDelta
<1>3. CASE phase[l] \notin {"up", "accepted"}
  <2>1. chan[l][n] = <<>>
    BY <1>1, <1>3 DEF PhaseOf, Phases
  <2> QED
    BY <2>1
<1> QED
  BY <1>2, <1>3

\* What n comes to have of its peer on l was at the front of a packet of l, or
\* n had it before: on another socket of the two it could not have come.
LEMMA OrderNext ==
  ASSUME NetInv, PhaseInv, CopyInv, [Next]_vars PROVE OrderInv'
<1> USE DEF CopyInv
<1> SUFFICES ASSUME NEW l \in Links, l \notin doubled', NEW n \in Ends(l), NEW i \in DOMAIN chan'[l][n],
                    IsDelta(chan'[l][n][i])
             PROVE  /\ \A j \in 1..i : IsDelta(chan'[l][n][j]) => chan'[l][n][j].to <= chan'[l][n][i].to
                    /\ \A r \in Rows : \A v \in 1..MaxEdits :
                          rows'[n][r] = <<Other(l, n), v>> => v <= chan'[l][n][i].to
  BY DEF OrderInv, OrderOf, Ends, Other, IsDelta
<1>1. PICK s \in {0, 1} : ShiftedBy(l, n, s)
  BY QueueSteps, QueueFrames
<1>2. PICK o \in Nodes : o = Other(l, n) /\ o # n /\ Ends(l) = {n, o}
  BY Joined DEF Ends
<1>3. n \in Nodes /\ l \in Links \ doubled /\ Len(log[o]) \in Nat
  BY Joined, DoubledGrows, EventFacts
<1>4. PICK q \in Seq(Frames) : q = chan[l][n]
  <2>1. chan \in [Links -> [Nodes -> Seq(Frames)]]
    BY Zenon DEF NetInv, NetTypeOK, Channels
  <2>2. chan[l][n] \in Seq(Frames)
    BY <1>3, <2>1
  <2> QED
    BY <2>2, Zenon
<1>5. PICK p \in Seq(Frames) : p = chan'[l][n]
  <2>1. NetTypeOK'
    BY TypeNext
  <2>2. chan' \in [Links -> [Nodes -> Seq(Frames)]]
    BY <2>1, Zenon DEF NetTypeOK, Channels
  <2>3. chan'[l][n] \in Seq(Frames)
    BY <1>3, <2>2
  <2> QED
    BY <2>3, Zenon
<1>6. OrderOf(l, n)
  BY <1>3 DEF OrderInv
<1>7. \A j \in DOMAIN q : IsDelta(q[j]) =>
        /\ q[j].to \in Nat /\ q[j].to <= Len(log[o])
        /\ \A k \in 1..j : IsDelta(q[k]) => q[k].to <= q[j].to
        /\ \A r \in Rows : \A v \in 1..MaxEdits : rows[n][r] = <<o, v>> => v <= q[j].to
  <2> SUFFICES ASSUME NEW j \in DOMAIN q, IsDelta(q[j])
               PROVE  /\ q[j].to \in Nat /\ q[j].to <= Len(log[o])
                      /\ \A k \in 1..j : IsDelta(q[k]) => q[k].to <= q[j].to
                      /\ \A r \in Rows : \A v \in 1..MaxEdits : rows[n][r] = <<o, v>> => v <= q[j].to
    OBVIOUS
  <2>1. q[j].to \in Nat
    <3>1. q[j] \in Frames
      OBVIOUS
    <3> QED
      BY <3>1, FrameFacts DEF IsDelta
  <2>2. q[j].to <= Len(log[o])
    BY <1>2, <1>4 DEF PacketInv
  <2>3. /\ \A k \in 1..j : IsDelta(q[k]) => q[k].to <= q[j].to
        /\ \A r \in Rows : \A v \in 1..MaxEdits : rows[n][r] = <<o, v>> => v <= q[j].to
    BY <1>2, <1>4, <1>6 DEF OrderOf
  <2> QED
    BY <2>1, <2>2, <2>3
<1>8. \A j \in DOMAIN p : \/ j + s \in DOMAIN q /\ p[j] = q[j + s]
                          \/ s = 0 /\ j = Len(q) + 1 /\ (IsDelta(p[j]) => p[j].to = Len(log[o]))
  BY <1>1, <1>2, <1>4, <1>5, Zenon DEF ShiftedBy, Fed
<1>9. ASSUME NEW j \in 1..i, IsDelta(p[j]) PROVE p[j].to <= p[i].to
  <2>1. j \in DOMAIN p /\ i \in DOMAIN p /\ j \in Nat /\ i \in Nat
    BY <1>5, <1>9
  <2>2. CASE i + s \in DOMAIN q /\ p[i] = q[i + s]
    <3>1. IsDelta(q[i + s])
      BY <1>5, <2>2
    <3>2. j + s \in DOMAIN q /\ p[j] = q[j + s]
      <4>1. DOMAIN q = 1..Len(q) /\ Len(q) \in Nat /\ j >= 1 /\ j <= i
        BY <1>9, <2>1
      <4>2. j + s \in DOMAIN q /\ j # Len(q) + 1
        BY <2>1, <2>2, <4>1
      <4> QED
        BY <1>8, <2>1, <4>2
    <3>3. j + s \in 1..i + s
      BY <2>1, <3>2
    <3> QED
      BY <1>7, <1>9, <2>2, <3>1, <3>2, <3>3
  <2>3. CASE s = 0 /\ i = Len(q) + 1 /\ p[i].to = Len(log[o])
    <3>1. CASE j + s \in DOMAIN q /\ p[j] = q[j + s]
      BY <1>7, <1>9, <2>3, <3>1
    <3>2. CASE ~(j + s \in DOMAIN q /\ p[j] = q[j + s])
      BY <1>3, <1>8, <1>9, <2>1, <2>3, <3>2
    <3> QED
      BY <3>1, <3>2
  <2> QED
    BY <1>5, <1>8, <2>1, <2>2, <2>3
<1>10. ASSUME NEW r \in Rows, NEW v \in 1..MaxEdits, rows'[n][r] = <<o, v>>
       PROVE  v <= p[i].to
  <2>0. i \in DOMAIN p /\ i \in Nat /\ i >= 1 /\ IsDelta(p[i])
    BY <1>5
  <2>1. CASE rows'[n][r] = rows[n][r]
    <3>1. rows[n][r] = <<o, v>> /\ v <= Len(log[o])
      BY <1>3, <1>10, <2>1 DEF RowsInv
    <3> QED
      BY <1>7, <1>8, <2>0, <3>1
  <2>2. ASSUME Edited(n, r) PROVE FALSE
    BY <1>2, <1>10, <2>2 DEF Edited
  <2>3. ASSUME NEW k \in Links, n \in Ends(k), NEW w \in 1..Len(log[Other(k, n)]), Copied(n, r, k, w)
        PROVE  v <= p[i].to
    <3>1. /\ Other(k, n) = o /\ w = v /\ w <= Head(chan[k][n]).to
          /\ phase[k] = "up" /\ chan[k][n] # <<>> /\ Head(chan[k][n]).type = "delta"
          /\ chan' = Consumed(n, k)
      BY <1>10, <2>3 DEF Copied, Arrives
    <3>2. Ends(k) = Ends(l)
      BY <1>2, <2>3, <3>1, Joined DEF Ends, Other
    <3>3. CASE k = l
      <4>1. p = Tail(q) /\ q # <<>>
        BY <1>3, <1>4, <1>5, <3>1, <3>3, Consuming DEF NetInv
      <4>2. i + 1 \in DOMAIN q /\ p[i] = q[i + 1] /\ 1 \in 1..i + 1 /\ 1 \in DOMAIN q
        BY <2>0, <4>1
      <4>3. IsDelta(q[1]) /\ v <= q[1].to /\ IsDelta(q[i + 1])
        BY <1>4, <2>0, <3>1, <3>3, <4>1, <4>2 DEF IsDelta
      <4>4. q[1].to <= q[i + 1].to /\ q[1].to \in Nat /\ q[i + 1].to \in Nat
        BY <1>7, <4>2, <4>3
      <4> QED
        BY <4>2, <4>3, <4>4
    <3>4. ASSUME k # l PROVE FALSE
      <4>1. chan'[l] = chan[l]
        BY <1>3, <3>1, <3>4, Consuming DEF NetInv
      <4>2. phase[l] = "up"
        BY <4>1, DeltaUp
      <4> QED
        BY <1>3, <3>1, <3>2, <3>4, <4>2 DEF DoubleInv
    <3> QED
      BY <3>3, <3>4
  <2>4. RowStep(n, r)
    BY <1>3, RowsStep
  <2> QED
    BY <2>1, <2>2, <2>3, <2>4 DEF RowStep
<1> QED
  BY <1>2, <1>5, <1>9, <1>10

LEMMA CopyInit == Init => CopyInv
<1> SUFFICES ASSUME Init PROVE CopyInv
  OBVIOUS
<1>1. /\ rows = [n \in Nodes |-> [r \in Rows |-> NoRow]]
      /\ \A l \in Links : \A n \in Nodes : chan[l][n] = <<>>
      /\ \A l \in Links : phase[l] = "unused"
  BY DEF Init
<1>2. RowsInv
  <2>1. \A a \in Nodes : \A v \in 1..MaxEdits : <<a, v>> # NoRow
    BY ValueAssumption
  <2> QED
    BY <1>1, <2>1 DEF RowsInv, Tables
<1>3. PacketInv /\ OrderInv
  BY <1>1, Joined DEF PacketInv, OrderInv, OrderOf
<1>4. DoubleInv
  BY <1>1 DEF DoubleInv
<1> QED
  BY <1>2, <1>3, <1>4 DEF CopyInv

LEMMA CopyNext == IInv /\ CopyInv /\ [Next]_vars => CopyInv'
BY RowsNext, PacketNext, OrderNext, DoubleNext DEF CopyInv, IInv

\* What a step does to one copy.
LEMMA CopyMovesOn ==
  ASSUME IInv, CopyInv, [Next]_vars, NEW n \in Nodes, NEW r \in Rows, rows[n][r] # NoRow,
         rows'[n][r][1] = rows[n][r][1]
  PROVE  \/ rows'[n][r][2] >= rows[n][r][2]
         \/ \E l \in doubled : Ends(l) = {n, rows[n][r][1]}
<1>0. NetInv /\ RowsInv /\ PacketInv /\ OrderInv
  BY DEF IInv, CopyInv
<1>1. PICK a \in Nodes, v \in 1..MaxEdits : rows[n][r] = <<a, v>>
  <2>1. rows[n][r] \in {NoRow} \cup (Nodes \X (1..MaxEdits))
    BY <1>0 DEF RowsInv, Tables
  <2> QED
    BY <2>1
<1>2. v \in 1..Len(log[a]) /\ log[a][v].row = r /\ Len(log[a]) \in Nat
  BY <1>0, <1>1, EventFacts DEF RowsInv
<1>3. CASE rows'[n][r] = rows[n][r]
  BY <1>1, <1>3
<1>4. CASE Edited(n, r)
  <2>1. rows'[n][r] = <<n, Len(log[n]) + 1>>
    BY <1>4 DEF Edited
  <2>2. a = n
    BY <1>1, <2>1
  <2> QED
    BY <1>1, <1>2, <2>1, <2>2
<1>5. ASSUME NEW l \in Links, n \in Ends(l), NEW k \in 1..Len(log[Other(l, n)]), Copied(n, r, l, k)
      PROVE  \/ rows'[n][r][2] >= rows[n][r][2]
             \/ \E x \in doubled : Ends(x) = {n, rows[n][r][1]}
  <2>1. /\ rows'[n][r] = <<Other(l, n), k>> /\ k <= Head(chan[l][n]).to
        /\ LastAbout(Other(l, n), r, k, Head(chan[l][n]).to)
        /\ chan[l][n] # <<>> /\ Head(chan[l][n]).type = "delta"
    BY <1>5 DEF Copied, Arrives
  <2>2. a = Other(l, n) /\ Ends(l) = {n, a}
    <3>1. a = Other(l, n)
      BY <1>1, <2>1
    <3> QED
      BY <1>5, <3>1, Joined DEF Ends, Other
  <2>3. CASE l \in doubled
    BY <1>1, <2>2, <2>3
  <2>4. CASE l \notin doubled
    <3>1. PICK f \in Frames : f = Head(chan[l][n]) /\ f = chan[l][n][1] /\ 1 \in DOMAIN chan[l][n]
      BY <1>0, <2>1, FrontFacts DEF NetInv
    <3>2. IsDelta(f) /\ f.to \in Nat
      BY <2>1, <3>1, FrameFacts DEF IsDelta
    <3>3. v <= f.to
      BY <1>0, <1>1, <1>5, <2>2, <2>4, <3>1, <3>2 DEF OrderInv, OrderOf
    <3>4. k >= v
      <4> SUFFICES ASSUME ~(k >= v) PROVE FALSE
        OBVIOUS
      <4>1. v \in k + 1..f.to
        BY <1>2, <2>2, <3>2, <3>3
      <4> QED
        BY <1>2, <2>1, <2>2, <3>1, <4>1 DEF LastAbout
    <3> QED
      BY <1>1, <2>1, <3>4
  <2> QED
    BY <2>3, <2>4
<1>6. RowStep(n, r)
  BY <1>0, RowsStep
<1> QED
  BY <1>3, <1>4, <1>5, <1>6 DEF RowStep

\* The copy of a row never goes back to an earlier value of the same author
\* (handleSyncDelta of transport.ts), as long as the two nodes never had two
\* sockets at once.
THEOREM CopiesOnlyAdvance == Spec => CopiesMoveOn
<1>1. Init => CopyInv
  BY CopyInit
<1>2. IInv /\ CopyInv /\ [Next]_vars => CopyInv'
  BY CopyNext
<1>3. IInv /\ CopyInv /\ [Next]_vars =>
        [\A n \in Nodes : \A r \in Rows :
           (rows[n][r] # NoRow /\ rows'[n][r][1] = rows[n][r][1]) =>
              \/ rows'[n][r][2] >= rows[n][r][2]
              \/ \E l \in doubled : Ends(l) = {n, rows[n][r][1]}]_vars
  BY CopyMovesOn
<1> QED
  BY <1>1, <1>2, <1>3, SyncInvariant, PTL DEF Spec, CopiesMoveOn
=============================================================================
