-------------------------- MODULE WriteQueueProofs --------------------------
(***************************************************************************)
(* The write queue loses no accepted write, keeps its bound, and records a *)
(* result after the writes of its task: proofs for any number of tasks,    *)
(* threads, writes and faults, and any assignment of tasks to threads.     *)
(***************************************************************************)
EXTENDS WriteQueueProperties, SequenceTheorems, TLAPS

-----------------------------------------------------------------------------
(* Sequences: what Append and Tail do to the range.                        *)

LEMMA RangeAppend ==
    ASSUME NEW S, NEW s \in Seq(S), NEW e \in S
    PROVE  Range(Append(s, e)) = Range(s) \cup {e}
<1>1. Range(Append(s, e)) \subseteq Range(s) \cup {e}
  BY DEF Range
<1>2. ASSUME NEW x \in Range(s) PROVE x \in Range(Append(s, e))
  <2>1. PICK i \in DOMAIN s : x = s[i]
    BY DEF Range
  <2>2. i \in DOMAIN Append(s, e) /\ Append(s, e)[i] = x
    BY <2>1
  <2> QED
    BY <2>2 DEF Range
<1>3. e \in Range(Append(s, e))
  <2>1. Len(s) + 1 \in DOMAIN Append(s, e) /\ Append(s, e)[Len(s) + 1] = e
    OBVIOUS
  <2> QED
    BY <2>1 DEF Range
<1> QED
  BY <1>1, <1>2, <1>3

LEMMA RangeTail ==
    ASSUME NEW S, NEW s \in Seq(S), s # <<>>
    PROVE  /\ Head(s) \in S /\ Tail(s) \in Seq(S) /\ Len(Tail(s)) = Len(s) - 1
           /\ \A x \in Range(s) : x = Head(s) \/ x \in Range(Tail(s))
<1>1. Head(s) \in S /\ Tail(s) \in Seq(S) /\ Len(Tail(s)) = Len(s) - 1
  OBVIOUS
<1>2. ASSUME NEW x \in Range(s), x # Head(s) PROVE x \in Range(Tail(s))
  <2>1. PICK i \in 1..Len(s) : x = s[i]
    BY DEF Range
  <2>2. i # 1
    BY <1>2, <2>1
  <2>3. i - 1 \in DOMAIN Tail(s) /\ Tail(s)[i - 1] = x
    BY <2>1, <2>2, <1>1
  <2> QED
    BY <2>3 DEF Range
<1> QED
  BY <1>1, <1>2

LEMMA RangeEmpty == Range(<<>>) = {}
  BY DEF Range

LEMMA AcceptedFacts ==
    ASSUME NEW t \in Tasks, posted[t] \in Nat
    PROVE  /\ \A op : op \in Accepted(t) <=> \E k \in 1..posted[t] : op = <<t, k>>
           /\ posted'[t] = posted[t] => Accepted(t)' = Accepted(t)
           /\ posted'[t] = posted[t] + 1 => Accepted(t)' = Accepted(t) \cup {NextWrite(t)}
BY DEF Accepted, NextWrite

-----------------------------------------------------------------------------
(* The inductive invariant.                                                *)

\* The write client of a thread belongs to a task that runs there.
Clients ==
    \A w \in Threads : client[w] # NoTask =>
        /\ client[w] \in farOpen
        /\ Host[client[w]] = w
        /\ stage[client[w]] = "running"

\* A channel that nobody has used is empty, and the port of a started task is
\* open only as long as it is the client.
Ends ==
    /\ \A t \in Tasks : stage[t] = "new" =>
          t \in farOpen /\ wire[t] = <<>> /\ acks[t] = 0 /\ posted[t] = 0
    /\ \A t \in farOpen : stage[t] = "new" \/ client[Host[t]] = t
    /\ \A t \in Tasks \ farOpen : acks[t] = 0
    /\ \A t \in sawClose : t \notin farOpen /\ wire[t] = <<>>
    /\ \A t \in Tasks : stage[t] = "recorded" => t \in sawClose \cup forced

\* The count of the client covers what is in flight on its channel.
Flow ==
    \A t \in Tasks :
        /\ Len(wire[t]) + acks[t] <= MaxPending
        /\ client[Host[t]] = t => Len(wire[t]) + acks[t] <= pending[Host[t]]

\* A task that never shared its thread keeps its client and its channel.
Alone ==
    /\ \A t, u \in Tasks :
          t # u /\ Host[t] = Host[u] /\ stage[t] = "running" /\ stage[u] = "running"
            => t \in shared
    /\ \A t \in Tasks \ shared : stage[t] = "running" => client[Host[t]] = t
    /\ \A t \in Tasks \ (shared \cup forced) :
          Accepted(t) \subseteq Range(log) \cup Range(wire[t])

IInv == TypeOK /\ Clients /\ Ends /\ Flow /\ Alone /\ AcceptedIsSafe

LEMMA InvInit == Init => IInv
<1> SUFFICES ASSUME Init PROVE IInv
  OBVIOUS
<1>1. TypeOK
  BY LimitAssumption DEF Init, TypeOK, Stages
<1>2. Clients /\ Ends /\ Flow
  BY LimitAssumption, HostAssumption DEF Init, Clients, Ends, Flow
<1>3. \A t \in Tasks : Accepted(t) = {}
  BY DEF Init, Accepted
<1> QED
  BY <1>1, <1>2, <1>3 DEF IInv, Init, Alone, AcceptedIsSafe

LEMMA InvBegin ==
    ASSUME IInv, NEW t \in Tasks, Begin(t)
    PROVE  IInv'
<1> USE DEF IInv
<1> DEFINE w == Host[t]
<1>1. w \in Threads
  BY HostAssumption
<1>2. TypeOK'
  BY <1>1, LimitAssumption DEF TypeOK, Begin, CloseFarEnd, Stages, Running
<1>3. /\ farOpen' = farOpen \ {client[w]} /\ t \in farOpen'
      /\ client' = [client EXCEPT ![w] = t]
  <2>1. stage[t] = "new" /\ t \in farOpen
    BY DEF Begin, Ends
  <2>2. t # client[w]
    BY <1>1, <2>1, HostAssumption DEF Clients
  <2> QED
    BY <2>1, <2>2 DEF Begin, CloseFarEnd
<1>4. Clients'
  BY <1>1, <1>3, HostAssumption DEF Clients, Begin, TypeOK
<1>5. Ends'
  <2>1. \A u \in Tasks : acks'[u] = IF u = client[w] THEN 0 ELSE acks[u]
    BY DEF Begin, CloseFarEnd
  <2>2. \A u \in Tasks : Host[u] \in Threads
    BY HostAssumption
  <2>3. ASSUME NEW u \in Tasks, stage'[u] = "new"
        PROVE  u \in farOpen' /\ wire'[u] = <<>> /\ acks'[u] = 0 /\ posted'[u] = 0
    <3>1. u # t /\ stage[u] = "new"
      BY <2>3 DEF Begin, TypeOK
    <3>2. u # client[w]
      BY <1>1, <3>1, HostAssumption DEF Clients
    <3> QED
      BY <1>3, <2>1, <3>1, <3>2 DEF Ends, Begin
  <2>4. ASSUME NEW u \in farOpen'
        PROVE  stage'[u] = "new" \/ client'[Host[u]] = u
    BY <1>1, <1>2, <1>3, <2>2, <2>4 DEF Ends, Begin, TypeOK
  <2>5. \A u \in Tasks \ farOpen' : acks'[u] = 0
    BY <1>3, <2>1 DEF Ends
  <2>6. \A u \in sawClose' : u \notin farOpen' /\ wire'[u] = <<>>
    BY <1>3 DEF Ends, Begin
  <2>7. \A u \in Tasks : stage'[u] = "recorded" => u \in sawClose' \cup forced'
    BY DEF Ends, Begin, TypeOK
  <2> QED
    BY <2>3, <2>4, <2>5, <2>6, <2>7 DEF Ends
<1>6. Flow'
  <2> SUFFICES ASSUME NEW u \in Tasks
               PROVE  /\ Len(wire[u]) + acks'[u] <= MaxPending
                      /\ client'[Host[u]] = u => Len(wire[u]) + acks'[u] <= pending'[Host[u]]
    BY DEF Flow, Begin
  <2>1. acks'[u] \in Nat /\ acks[u] \in Nat /\ Len(wire[u]) \in Nat
    BY <1>2 DEF TypeOK
  <2>2. acks'[u] <= acks[u]
    BY <2>1 DEF Begin, CloseFarEnd, TypeOK
  <2>3. Len(wire[u]) + acks'[u] <= MaxPending
    BY <2>1, <2>2, LimitAssumption DEF Flow
  <2>4. Host[u] \in Threads
    BY HostAssumption
  <2>5. CASE Host[u] # w
    <3>1. /\ client'[Host[u]] = client[Host[u]] /\ pending'[Host[u]] = pending[Host[u]]
          /\ pending[Host[u]] \in Nat
      BY <1>3, <2>4, <2>5 DEF Begin, TypeOK
    <3> QED
      BY <2>1, <2>2, <2>3, <3>1 DEF Flow
  <2>6. CASE Host[u] = w
    <3>1. client'[Host[u]] = t /\ pending'[Host[u]] = 0
      BY <1>1, <1>3, <2>6 DEF Begin, TypeOK
    <3>2. u = t => Len(wire[u]) = 0 /\ acks[u] = 0
      BY DEF Begin, Ends
    <3> QED
      BY <2>1, <2>2, <2>3, <3>1, <3>2
  <2> QED
    BY <2>5, <2>6
<1>7. /\ posted' = posted /\ log' = log /\ wire' = wire /\ forced' = forced
      /\ shared \subseteq shared' /\ stage' = [stage EXCEPT ![t] = "running"]
  BY DEF Begin
<1>8. Alone'
  <2>1. ASSUME NEW u \in Tasks, NEW v \in Tasks, u # v, Host[u] = Host[v],
               stage'[u] = "running", stage'[v] = "running"
        PROVE  u \in shared'
    BY <1>7, <2>1 DEF Alone, Begin, Running, TypeOK
  <2>2. ASSUME NEW u \in Tasks \ shared', stage'[u] = "running"
        PROVE  client'[Host[u]] = u
    <3>1. CASE u = t
      BY <1>1, <1>3, <3>1 DEF TypeOK
    <3>2. CASE u # t
      <4>1. Host[u] # w
        BY <2>1, <2>2, <3>2, <1>7 DEF TypeOK
      <4> QED
        BY <4>1, <3>2, <2>2, <1>3, <1>7, HostAssumption DEF Alone, TypeOK
    <3> QED
      BY <3>1, <3>2
  <2>3. \A u \in Tasks : Accepted(u)' = Accepted(u)
    BY <1>7 DEF Accepted
  <2> QED
    BY <2>1, <2>2, <2>3, <1>7 DEF Alone
<1>9. AcceptedIsSafe'
  BY <1>7 DEF AcceptedIsSafe, Accepted, TypeOK
<1> QED
  BY <1>2, <1>4, <1>5, <1>6, <1>8, <1>9

LEMMA InvEnd ==
    ASSUME IInv, NEW t \in Tasks, End(t)
    PROVE  IInv'
<1> USE DEF IInv
<1> DEFINE w == Host[t]
<1>1. w \in Threads
  BY HostAssumption
<1>2. TypeOK'
  BY <1>1, LimitAssumption DEF TypeOK, End, CloseFarEnd, Stages
<1>3. farOpen' = farOpen \ {client[w]} /\ client' = [client EXCEPT ![w] = NoTask]
  BY DEF End, CloseFarEnd
<1>4. Clients'
  BY <1>1, <1>3, HostAssumption DEF Clients, End, TypeOK
<1>5. Ends'
  <2>1. \A u \in Tasks : acks'[u] = IF u = client[w] THEN 0 ELSE acks[u]
    BY DEF End, CloseFarEnd
  <2>2. \A u \in Tasks : Host[u] \in Threads
    BY HostAssumption
  <2>3. ASSUME NEW u \in Tasks, stage'[u] = "new"
        PROVE  u \in farOpen' /\ wire'[u] = <<>> /\ acks'[u] = 0 /\ posted'[u] = 0
    BY <1>1, <1>3, <2>1, <2>3, HostAssumption DEF Ends, Clients, End, TypeOK
  <2>4. ASSUME NEW u \in farOpen'
        PROVE  stage'[u] = "new" \/ client'[Host[u]] = u
    BY <1>1, <1>2, <1>3, <2>2, <2>4 DEF Ends, End, TypeOK
  <2>5. \A u \in Tasks \ farOpen' : acks'[u] = 0
    BY <1>3, <2>1 DEF Ends
  <2>6. \A u \in sawClose' : u \notin farOpen' /\ wire'[u] = <<>>
    BY <1>3 DEF Ends, End
  <2>7. \A u \in Tasks : stage'[u] = "recorded" => u \in sawClose' \cup forced'
    BY DEF Ends, End, TypeOK
  <2> QED
    BY <2>3, <2>4, <2>5, <2>6, <2>7 DEF Ends
<1>6. Flow'
  <2> SUFFICES ASSUME NEW u \in Tasks
               PROVE  /\ Len(wire[u]) + acks'[u] <= MaxPending
                      /\ client'[Host[u]] = u => Len(wire[u]) + acks'[u] <= pending'[Host[u]]
    BY DEF Flow, End
  <2>1. acks'[u] \in Nat /\ acks[u] \in Nat /\ Len(wire[u]) \in Nat
    BY <1>2 DEF TypeOK
  <2>2. acks'[u] <= acks[u]
    BY <2>1 DEF End, CloseFarEnd, TypeOK
  <2>3. Len(wire[u]) + acks'[u] <= MaxPending
    BY <2>1, <2>2, LimitAssumption DEF Flow
  <2>4. Host[u] \in Threads
    BY HostAssumption
  <2>5. CASE Host[u] # w
    <3>1. /\ client'[Host[u]] = client[Host[u]] /\ pending'[Host[u]] = pending[Host[u]]
          /\ pending[Host[u]] \in Nat
      BY <1>3, <2>4, <2>5 DEF End, TypeOK
    <3> QED
      BY <2>1, <2>2, <2>3, <3>1 DEF Flow
  <2>6. CASE Host[u] = w
    <3>1. client'[Host[u]] = NoTask
      BY <1>1, <1>3, <2>6 DEF TypeOK
    <3> QED
      BY <2>3, <3>1, HostAssumption
  <2> QED
    BY <2>5, <2>6
<1>7. /\ posted' = posted /\ log' = log /\ wire' = wire /\ forced' = forced
      /\ shared' = shared /\ stage' = [stage EXCEPT ![t] = "draining"]
      /\ stage[t] = "running"
  BY DEF End
<1>8. Alone'
  <2>1. ASSUME NEW u \in Tasks \ shared', stage'[u] = "running"
        PROVE  client'[Host[u]] = u
    BY <1>3, <1>7, <2>1, HostAssumption DEF Alone, TypeOK
  <2>2. \A u \in Tasks : Accepted(u)' = Accepted(u)
    BY <1>7 DEF Accepted
  <2> QED
    BY <2>1, <2>2, <1>7 DEF Alone, TypeOK
<1>9. AcceptedIsSafe'
  BY <1>7 DEF AcceptedIsSafe, Accepted, TypeOK
<1> QED
  BY <1>2, <1>4, <1>5, <1>6, <1>8, <1>9

\* What a post leaves to be shown once it is known where the write went.
LEMMA InvPosts ==
    ASSUME IInv, NEW t \in Tasks, Posts(t), TypeOK',
           client' = client, forced' = forced, sawClose' = sawClose,
           \A u \in Tasks : Range(wire[u]) \subseteq Range(wire'[u]),
           Range(log) \subseteq Range(log'),
           \/ NextWrite(t) \in Range(log')
           \/ client[Host[t]] \in Tasks /\ NextWrite(t) \in Range(wire'[client[Host[t]]])
    PROVE  Clients' /\ Alone' /\ AcceptedIsSafe'
<1> USE DEF IInv
<1>1. /\ stage' = stage /\ farOpen' = farOpen /\ shared' = shared /\ stage[t] = "running"
      /\ posted' = [posted EXCEPT ![t] = @ + 1]
  BY DEF Posts
<1>2. \A u \in Tasks : Accepted(u)' =
          IF u = t THEN Accepted(u) \cup {NextWrite(t)} ELSE Accepted(u)
  <2> SUFFICES ASSUME NEW u \in Tasks
               PROVE  Accepted(u)' = IF u = t THEN Accepted(u) \cup {NextWrite(t)}
                                              ELSE Accepted(u)
    OBVIOUS
  <2>1. posted[u] \in Nat /\ posted'[u] = IF u = t THEN posted[u] + 1 ELSE posted[u]
    BY <1>1 DEF TypeOK
  <2> QED
    BY <2>1, AcceptedFacts
<1>3. Clients'
  BY <1>1 DEF Clients
<1>4. Alone'
  <2>1. ASSUME NEW u \in Tasks \ (shared \cup forced)
        PROVE  Accepted(u)' \subseteq Range(log') \cup Range(wire'[u])
    <3>1. Accepted(u) \subseteq Range(log') \cup Range(wire'[u])
      BY <2>1 DEF Alone
    <3>2. u = t => client[Host[t]] = t
      BY <2>1, <1>1 DEF Alone
    <3> QED
      BY <3>1, <3>2, <1>2
  <2> QED
    BY <1>1, <2>1 DEF Alone
<1>5. AcceptedIsSafe'
  <2> SUFFICES ASSUME forced = {}, NEW u \in Tasks, NEW op \in Accepted(u)'
               PROVE  \/ op \in Range(log')
                      \/ \E c \in Tasks : stage'[c] # "recorded" /\ op \in Range(wire'[c])
    BY DEF AcceptedIsSafe
  <2>1. CASE op \in Accepted(u)
    BY <1>1, <2>1 DEF AcceptedIsSafe
  <2>2. CASE op = NextWrite(t)
    <3>1. client[Host[t]] \in Tasks => stage[client[Host[t]]] # "recorded"
      BY HostAssumption DEF Clients
    <3> QED
      BY <1>1, <2>2, <3>1
  <2> QED
    BY <1>2, <2>1, <2>2
<1> QED
  BY <1>3, <1>4, <1>5

LEMMA InvPostLocally ==
    ASSUME IInv, NEW t \in Tasks, PostLocally(t)
    PROVE  IInv'
<1> USE DEF IInv
<1>1. NextWrite(t) \in Writes
  BY DEF NextWrite, Writes, TypeOK
<1>2. TypeOK'
  BY <1>1 DEF TypeOK, PostLocally, Posts
<1>3. Range(log') = Range(log) \cup {NextWrite(t)}
  BY <1>1, RangeAppend DEF PostLocally, TypeOK
<1>4. Clients' /\ Alone' /\ AcceptedIsSafe'
  BY <1>2, <1>3, InvPosts DEF PostLocally, Posts
<1>5. Ends'
  BY DEF Ends, PostLocally, Posts, TypeOK
<1>6. Flow'
  BY DEF Flow, PostLocally, Posts
<1> QED
  BY <1>2, <1>4, <1>5, <1>6

LEMMA InvPostQueued ==
    ASSUME IInv, NEW t \in Tasks, PostQueued(t)
    PROVE  IInv'
<1> USE DEF IInv
<1> DEFINE w == Host[t]
           c == client[w]
<1>1. w \in Threads /\ NextWrite(t) \in Writes
  BY HostAssumption DEF NextWrite, Writes, TypeOK
<1>2. /\ c \in Tasks /\ c \in farOpen /\ Host[c] = w /\ stage[c] = "running"
      /\ pending[w] < MaxPending /\ pending' = [pending EXCEPT ![w] = @ + 1]
      /\ wire' = [wire EXCEPT ![c] = Append(@, NextWrite(t))] /\ log' = log
  BY <1>1 DEF PostQueued, TypeOK, Clients
<1>3. /\ wire[c] \in Seq(Writes) /\ wire'[c] = Append(wire[c], NextWrite(t))
      /\ Len(wire'[c]) = Len(wire[c]) + 1
      /\ Range(wire'[c]) = Range(wire[c]) \cup {NextWrite(t)}
  BY <1>1, <1>2, RangeAppend DEF TypeOK
<1>4. \A u \in Tasks : u # c => wire'[u] = wire[u]
  BY <1>2 DEF TypeOK
<1>same. UNCHANGED <<stage, client, acks, farOpen, sawClose, log, shared, forced, faults>>
  BY <1>2 DEF PostQueued, Posts
<1>post. posted' = [posted EXCEPT ![t] = @ + 1] /\ stage[t] = "running"
  BY DEF PostQueued, Posts
<1>5. TypeOK'
  <2>1. pending' \in [Threads -> 0..MaxPending]
    BY <1>1, <1>2, LimitAssumption DEF TypeOK
  <2>2. wire' \in [Tasks -> Seq(Writes)]
    BY <1>1, <1>2 DEF TypeOK
  <2>3. posted' \in [Tasks -> Nat]
    BY <1>post DEF TypeOK
  <2>4. /\ stage' \in [Tasks -> Stages] /\ client' \in [Threads -> Tasks \cup {NoTask}]
        /\ acks' \in [Tasks -> Nat] /\ log' \in Seq(Writes) /\ faults' \in Nat
        /\ farOpen' \subseteq Tasks /\ sawClose' \subseteq Tasks
        /\ shared' \subseteq Tasks /\ forced' \subseteq Tasks
    BY <1>same DEF TypeOK
  <2> QED
    BY <2>1, <2>2, <2>3, <2>4 DEF TypeOK
<1>6. Clients' /\ Alone' /\ AcceptedIsSafe'
  BY <1>2, <1>3, <1>4, <1>5, InvPosts DEF PostQueued, Posts
<1>7. Ends'
  <2>1. \A u \in Tasks : stage[u] = "new" => wire'[u] = wire[u] /\ posted'[u] = posted[u]
    BY <1>2, <1>4, <1>post DEF TypeOK
  <2>2. \A u \in sawClose : u \in Tasks /\ wire'[u] = wire[u]
    BY <1>2, <1>4 DEF Ends, TypeOK
  <2> QED
    BY <1>same, <2>1, <2>2 DEF Ends
<1>8. Flow'
  <2> SUFFICES ASSUME NEW u \in Tasks
               PROVE  /\ Len(wire'[u]) + acks[u] <= MaxPending
                      /\ client[Host[u]] = u => Len(wire'[u]) + acks[u] <= pending'[Host[u]]
    BY DEF Flow, PostQueued, Posts
  <2>1. /\ Len(wire[u]) \in Nat /\ acks[u] \in Nat
        /\ Len(wire[u]) + acks[u] <= MaxPending
        /\ client[Host[u]] = u => Len(wire[u]) + acks[u] <= pending[Host[u]]
    BY DEF Flow, TypeOK
  <2>2. CASE u = c
    <3>1. pending'[w] = pending[w] + 1 /\ pending[w] \in Nat
      BY <1>1, <1>2 DEF TypeOK
    <3>2. Host[u] = w /\ Len(wire'[u]) = Len(wire[u]) + 1 /\ pending[w] < MaxPending
      BY <1>2, <1>3, <2>2
    <3>3. Len(wire[u]) + acks[u] <= pending[w]
      BY <2>1, <2>2, <3>2
    <3> HIDE DEF w, c
    <3> QED
      BY <2>1, <3>1, <3>2, <3>3, LimitAssumption, SMTT(30)
  <2>3. CASE u # c
    <3>1. client[Host[u]] = u => Host[u] # w
      BY <2>3
    <3>2. Host[u] # w => pending'[Host[u]] = pending[Host[u]]
      BY <1>1, <1>2, HostAssumption DEF TypeOK
    <3> QED
      BY <1>4, <2>1, <2>3, <3>1, <3>2
  <2> QED
    BY <2>2, <2>3
<1> QED
  BY <1>5, <1>6, <1>7, <1>8

LEMMA InvAckArrives ==
    ASSUME IInv, NEW c \in Tasks, AckArrives(c)
    PROVE  IInv'
<1> USE DEF IInv
<1>1. Host[c] \in Threads
  BY HostAssumption
<1>2. /\ c \in farOpen /\ acks[c] > 0 /\ acks' = [acks EXCEPT ![c] = @ - 1]
      /\ pending' = [pending EXCEPT ![Host[c]] = IF @ = 0 THEN 0 ELSE @ - 1]
      /\ UNCHANGED <<stage, client, posted, wire, farOpen, sawClose, log,
                    shared, forced, faults>>
  BY DEF AckArrives
<1>3. acks[c] \in Nat /\ pending[Host[c]] \in 0..MaxPending
  BY <1>1 DEF TypeOK
<1>4. TypeOK'
  BY <1>1, <1>2, <1>3, LimitAssumption DEF TypeOK
<1>5. Clients' /\ Alone' /\ AcceptedIsSafe'
  BY <1>2 DEF Clients, Alone, AcceptedIsSafe, Accepted
<1>6. Ends'
  BY <1>2, <1>3 DEF Ends, TypeOK
<1>7. Flow'
  <2> SUFFICES ASSUME NEW u \in Tasks
               PROVE  /\ Len(wire[u]) + acks'[u] <= MaxPending
                      /\ client[Host[u]] = u => Len(wire[u]) + acks'[u] <= pending'[Host[u]]
    BY <1>2 DEF Flow
  <2>1. /\ Len(wire[u]) \in Nat /\ acks[u] \in Nat
        /\ Len(wire[u]) + acks[u] <= MaxPending
        /\ client[Host[u]] = u => Len(wire[u]) + acks[u] <= pending[Host[u]]
    BY DEF Flow, TypeOK
  <2>2. CASE u = c
    <3>1. acks'[c] = acks[c] - 1
      BY <1>2 DEF TypeOK
    <3>2. pending'[Host[c]] = IF pending[Host[c]] = 0 THEN 0 ELSE pending[Host[c]] - 1
      BY <1>1, <1>2 DEF TypeOK
    <3> QED
      BY <1>2, <1>3, <2>1, <2>2, <3>1, <3>2, LimitAssumption
  <2>3. CASE u # c
    <3>1. client[Host[c]] = c
      BY <1>2, <1>3 DEF Ends
    <3>2. client[Host[u]] = u => pending'[Host[u]] = pending[Host[u]]
      BY <1>1, <1>2, <2>3, <3>1, HostAssumption DEF TypeOK
    <3>3. acks'[u] = acks[u]
      BY <1>2, <2>3 DEF TypeOK
    <3> QED
      BY <2>1, <3>2, <3>3
  <2> QED
    BY <2>2, <2>3
<1> QED
  BY <1>4, <1>5, <1>6, <1>7

LEMMA InvDeliver ==
    ASSUME IInv, NEW c \in Tasks, Deliver(c)
    PROVE  IInv'
<1> USE DEF IInv
<1>1. /\ stage[c] # "recorded" /\ wire[c] \in Seq(Writes) /\ wire[c] # <<>>
      /\ wire' = [wire EXCEPT ![c] = Tail(@)] /\ log' = Append(log, Head(wire[c]))
      /\ acks' = [acks EXCEPT ![c] = IF c \in farOpen THEN @ + 1 ELSE @]
      /\ UNCHANGED <<stage, client, pending, posted, farOpen, sawClose, shared,
                    forced, faults>>
  BY DEF Deliver, TypeOK
<1>2. /\ Head(wire[c]) \in Writes /\ wire'[c] \in Seq(Writes)
      /\ Len(wire'[c]) = Len(wire[c]) - 1
      /\ \A op \in Range(wire[c]) : op = Head(wire[c]) \/ op \in Range(wire'[c])
  BY <1>1, RangeTail DEF TypeOK
<1>3. Range(log') = Range(log) \cup {Head(wire[c])}
  BY <1>1, <1>2, RangeAppend DEF TypeOK
<1>4. \A u \in Tasks : u # c => wire'[u] = wire[u] /\ acks'[u] = acks[u]
  BY <1>1 DEF TypeOK
<1>5. TypeOK'
  <2>1. wire' \in [Tasks -> Seq(Writes)] /\ log' \in Seq(Writes)
    BY <1>1, <1>2 DEF TypeOK
  <2>2. acks' \in [Tasks -> Nat]
    BY <1>1 DEF TypeOK
  <2> QED
    BY <1>1, <2>1, <2>2 DEF TypeOK
<1>6. \A u \in Tasks : Accepted(u)' = Accepted(u)
  BY <1>1 DEF Accepted
<1>7. \A u \in Tasks : \A op \in Range(wire[u]) : op \in Range(log') \cup Range(wire'[u])
  BY <1>2, <1>3, <1>4
<1>8. Clients' /\ Alone'
  BY <1>1, <1>3, <1>6, <1>7 DEF Clients, Alone
<1>9. AcceptedIsSafe'
  BY <1>1, <1>3, <1>6, <1>7 DEF AcceptedIsSafe
<1>10. Ends'
  <2>1. stage[c] # "new" /\ c \notin sawClose
    BY <1>1 DEF Ends
  <2> QED
    BY <1>1, <1>4, <2>1 DEF Ends, TypeOK
<1>11. \A u \in Tasks : Len(wire'[u]) + acks'[u] <= Len(wire[u]) + acks[u]
  <2> SUFFICES ASSUME NEW u \in Tasks
               PROVE  Len(wire'[u]) + acks'[u] <= Len(wire[u]) + acks[u]
    OBVIOUS
  <2>1. Len(wire[u]) \in Nat /\ acks[u] \in Nat
    BY DEF TypeOK
  <2>2. CASE u = c
    <3>1. acks'[c] = IF c \in farOpen THEN acks[c] + 1 ELSE acks[c]
      BY <1>1 DEF TypeOK
    <3> QED
      BY <1>2, <2>1, <2>2, <3>1
  <2>3. CASE u # c
    BY <1>4, <2>1, <2>3
  <2> QED
    BY <2>2, <2>3
<1>12. Flow'
  <2> SUFFICES ASSUME NEW u \in Tasks
               PROVE  /\ Len(wire'[u]) + acks'[u] <= MaxPending
                      /\ client[Host[u]] = u => Len(wire'[u]) + acks'[u] <= pending[Host[u]]
    BY <1>1 DEF Flow
  <2>1. /\ wire[u] \in Seq(Writes) /\ wire'[u] \in Seq(Writes)
        /\ acks[u] \in Nat /\ acks'[u] \in Nat /\ pending[Host[u]] \in 0..MaxPending
    BY <1>5, HostAssumption DEF TypeOK
  <2>2. Len(wire[u]) + acks[u] \in Nat /\ Len(wire'[u]) + acks'[u] \in Nat
    BY <2>1
  <2> QED
    BY <1>11, <2>1, <2>2, LimitAssumption DEF Flow
<1> QED
  BY <1>5, <1>8, <1>9, <1>10, <1>12

LEMMA InvRemoteCloses ==
    ASSUME IInv, NEW c \in Tasks, RemoteCloses(c)
    PROVE  IInv'
<1> USE DEF IInv
<1>1. /\ c \notin farOpen /\ wire[c] = <<>> /\ sawClose' = sawClose \cup {c}
      /\ UNCHANGED <<stage, client, pending, posted, wire, acks, farOpen, log, shared, forced, faults>>
  BY DEF RemoteCloses
<1>2. Ends'
  BY <1>1 DEF Ends
<1>3. Clients' /\ Flow' /\ Alone' /\ AcceptedIsSafe'
  BY <1>1 DEF Clients, Flow, Alone, AcceptedIsSafe, Accepted
<1> QED
  BY <1>1, <1>2, <1>3 DEF TypeOK

LEMMA InvRecord ==
    ASSUME IInv, NEW t \in Tasks, Drained(t) \/ GraceOver(t)
    PROVE  IInv'
<1> USE DEF IInv
<1>1. /\ stage[t] = "draining" /\ stage' = [stage EXCEPT ![t] = "recorded"]
      /\ UNCHANGED <<client, pending, posted, farOpen, log, shared, sawClose>>
  BY DEF Drained, GraceOver, Record
<1>2. /\ \A u \in Tasks : u # t => wire'[u] = wire[u] /\ acks'[u] = acks[u]
      /\ \/ wire' = wire /\ acks' = acks /\ t \in sawClose /\ forced' = forced
         \/ wire'[t] = <<>> /\ acks'[t] = 0 /\ forced' = forced \cup {t}
  <2>1. CASE Drained(t)
    BY <2>1 DEF Drained
  <2>2. CASE GraceOver(t)
    BY <2>2 DEF GraceOver, TypeOK
  <2> QED
    BY <2>1, <2>2
<1>3. TypeOK'
  <2>1. stage' \in [Tasks -> Stages]
    BY <1>1 DEF TypeOK, Stages
  <2>2. wire' \in [Tasks -> Seq(Writes)] /\ acks' \in [Tasks -> Nat] /\ forced' \subseteq Tasks
    <3>1. CASE Drained(t)
      BY <3>1 DEF TypeOK, Drained
    <3>2. CASE GraceOver(t)
      BY <3>2 DEF TypeOK, GraceOver
    <3> QED
      BY <3>1, <3>2
  <2>3. faults' \in Nat
    BY DEF TypeOK, Drained, GraceOver, Fault
  <2> QED
    BY <1>1, <2>1, <2>2, <2>3 DEF TypeOK
<1>4. Clients'
  BY <1>1 DEF Clients, TypeOK
<1>5. \A u \in Tasks : Accepted(u)' = Accepted(u)
  BY <1>1 DEF Accepted
<1>6. Ends'
  BY <1>1, <1>2 DEF Ends, TypeOK
<1>7. Flow'
  <2> SUFFICES ASSUME NEW u \in Tasks
               PROVE  /\ Len(wire'[u]) + acks'[u] <= MaxPending
                      /\ client[Host[u]] = u => Len(wire'[u]) + acks'[u] <= pending[Host[u]]
    BY <1>1 DEF Flow
  <2>1. CASE wire'[u] = wire[u] /\ acks'[u] = acks[u]
    BY <2>1 DEF Flow
  <2>2. CASE wire'[u] = <<>> /\ acks'[u] = 0
    <3>1. Len(wire'[u]) + acks'[u] = 0 /\ pending[Host[u]] \in 0..MaxPending
      BY <2>2, HostAssumption DEF TypeOK
    <3> QED
      BY <3>1, LimitAssumption
  <2> QED
    BY <1>2, <2>1, <2>2
<1>8. Alone'
  <2>1. \A u \in Tasks \ forced' : wire'[u] = wire[u]
    BY <1>2
  <2> QED
    BY <1>1, <1>2, <1>5, <2>1 DEF Alone, TypeOK
<1>9. AcceptedIsSafe'
  <2> SUFFICES ASSUME forced' = {}, NEW u \in Tasks, NEW op \in Accepted(u)
               PROVE  \/ op \in Range(log)
                      \/ \E c \in Tasks : stage'[c] # "recorded" /\ op \in Range(wire'[c])
    BY <1>1, <1>5 DEF AcceptedIsSafe
  <2>1. forced = {} /\ t \in sawClose /\ wire[t] = <<>>
    BY <1>2 DEF Ends
  <2>2. CASE op \in Range(log)
    BY <2>2
  <2>3. ASSUME NEW c \in Tasks, stage[c] # "recorded", op \in Range(wire[c])
        PROVE  stage'[c] # "recorded" /\ op \in Range(wire'[c])
    BY <1>1, <1>2, <2>1, <2>3, RangeEmpty DEF TypeOK
  <2> QED
    BY <2>1, <2>2, <2>3 DEF AcceptedIsSafe
<1> QED
  BY <1>3, <1>4, <1>6, <1>7, <1>8, <1>9

LEMMA InvNext == IInv /\ [Next]_vars => IInv'
<1>1. ASSUME IInv, UNCHANGED vars PROVE IInv'
  BY <1>1 DEF IInv, vars, TypeOK, Clients, Ends, Flow, Alone, AcceptedIsSafe, Accepted
<1>2. ASSUME IInv, NEW t \in Tasks, Worker(t) PROVE IInv'
  BY <1>2, InvBegin, InvPostLocally, InvPostQueued, InvAckArrives, InvEnd DEF Worker
<1>3. ASSUME IInv, NEW t \in Tasks, MainThread(t) PROVE IInv'
  BY <1>3, InvDeliver, InvRemoteCloses, InvRecord DEF MainThread
<1> QED
  BY <1>1, <1>2, <1>3 DEF Next

LEMMA InvCorrect == Spec => []IInv
  BY InvInit, InvNext, PTL DEF Spec

-----------------------------------------------------------------------------
(* The results.                                                            *)

(* A write that postWriteOp has answered with 200 is executed, or still     *)
(* waits in a channel that the main thread reads, however the tasks of a    *)
(* thread replace and close the client they share.                          *)
THEOREM NoAcceptedWriteLost == Spec => []AcceptedIsSafe
  BY InvCorrect, PTL DEF IInv

(* No channel holds more than MAX_PENDING_WRITES writes, those counted that *)
(* are applied but not yet acknowledged.                                    *)
THEOREM Backpressure == Spec => []InFlightBound
<1>1. IInv => InFlightBound
  BY DEF IInv, Flow, InFlightBound
<1> QED
  BY <1>1, InvCorrect, PTL

(* The result of a task that had its thread for itself is recorded after    *)
(* all its writes, unless its channel was finalized undrained.              *)
THEOREM DrainBeforeResult == Spec => []ResultAfterWrites
<1>1. IInv => ResultAfterWrites
  <2> SUFFICES ASSUME IInv, NEW t \in Tasks \ (shared \cup forced), stage[t] = "recorded"
               PROVE  Accepted(t) \subseteq Range(log)
    BY DEF ResultAfterWrites
  <2>1. Range(wire[t]) = {}
    BY RangeEmpty DEF IInv, Ends
  <2> QED
    BY <2>1 DEF IInv, Alone
<1> QED
  BY <1>1, InvCorrect, PTL

-----------------------------------------------------------------------------
(* Once and in order.  Every write has one place, the log or one channel,   *)
(* and the writes of a task that never shared its thread rise along its     *)
(* channel and from the log to the channel.                                 *)

Rising(s, t) ==
    \A i, j \in DOMAIN s : i < j /\ s[i][1] = t /\ s[j][1] = t => s[i][2] < s[j][2]

Placed ==
    /\ \A op \in Range(log) : op[2] <= posted[op[1]]
    /\ \A c \in Tasks : \A op \in Range(wire[c]) :
          op[2] <= posted[op[1]] /\ op \notin Range(log)
    /\ IsInjective(log) /\ \A c \in Tasks : IsInjective(wire[c])
    /\ \A c, d \in Tasks : c # d => Range(wire[c]) \cap Range(wire[d]) = {}

Ordered ==
    \A t \in Tasks \ shared :
        /\ Rising(log, t) /\ Rising(wire[t], t)
        /\ \A c \in Tasks \ {t} : \A op \in Range(wire[c]) : op[1] # t
        /\ \A op \in Range(log), e \in Range(wire[t]) :
              op[1] = t /\ e[1] = t => op[2] < e[2]

OrderInv == Placed /\ Ordered

LEMMA InjectiveAppend ==
    ASSUME NEW S, NEW s \in Seq(S), NEW e \in S, IsInjective(s), e \notin Range(s)
    PROVE  IsInjective(Append(s, e))
<1> SUFFICES ASSUME NEW i \in 1..(Len(s) + 1), NEW j \in 1..(Len(s) + 1),
                    Append(s, e)[i] = Append(s, e)[j], i # j
             PROVE  FALSE
  BY DEF IsInjective
<1>1. \A k \in 1..(Len(s) + 1) : Append(s, e)[k] = IF k = Len(s) + 1 THEN e ELSE s[k]
  OBVIOUS
<1>2. \A k \in 1..Len(s) : s[k] # e
  BY DEF Range
<1>3. \A k \in 1..(Len(s) + 1) : k = Len(s) + 1 \/ k \in 1..Len(s)
  OBVIOUS
<1>4. i \in 1..Len(s) /\ j \in 1..Len(s)
  BY <1>1, <1>2, <1>3
<1> QED
  BY <1>1, <1>4 DEF IsInjective

LEMMA InjectiveTail ==
    ASSUME NEW S, NEW s \in Seq(S), s # <<>>, IsInjective(s)
    PROVE  /\ IsInjective(Tail(s)) /\ Range(Tail(s)) \subseteq Range(s)
           /\ Head(s) \in Range(s) /\ Head(s) \notin Range(Tail(s))
<1>1. /\ Len(Tail(s)) = Len(s) - 1 /\ DOMAIN Tail(s) = 1..(Len(s) - 1)
      /\ Len(s) \in Nat /\ Len(s) >= 1
      /\ \A k \in 1..(Len(s) - 1) : Tail(s)[k] = s[k + 1]
  OBVIOUS
<1>2. \A k \in 1..(Len(s) - 1) : k + 1 \in 1..Len(s) /\ k + 1 # 1
  BY <1>1
<1>3. Head(s) = s[1] /\ 1 \in DOMAIN s /\ DOMAIN s = 1..Len(s)
  BY <1>1
<1>4. IsInjective(Tail(s))
  <2> SUFFICES ASSUME NEW i \in 1..(Len(s) - 1), NEW j \in 1..(Len(s) - 1),
                      Tail(s)[i] = Tail(s)[j]
               PROVE  i = j
    BY <1>1 DEF IsInjective
  <2>1. i + 1 = j + 1
    BY <1>1, <1>2, <1>3 DEF IsInjective
  <2> QED
    BY <2>1
<1>5. Range(Tail(s)) \subseteq Range(s) /\ Head(s) \in Range(s)
  BY <1>1, <1>2, <1>3 DEF Range
<1>6. Head(s) \notin Range(Tail(s))
  BY <1>1, <1>2, <1>3 DEF Range, IsInjective
<1> QED
  BY <1>4, <1>5, <1>6

LEMMA RisingAppend ==
    ASSUME NEW S, NEW s \in Seq(S), NEW e \in S, NEW t, Rising(s, t),
           e[1] = t => \A op \in Range(s) : op[1] = t => op[2] < e[2]
    PROVE  Rising(Append(s, e), t)
<1> SUFFICES ASSUME NEW i \in 1..(Len(s) + 1), NEW j \in 1..(Len(s) + 1), i < j,
                    Append(s, e)[i][1] = t, Append(s, e)[j][1] = t
             PROVE  Append(s, e)[i][2] < Append(s, e)[j][2]
  BY DEF Rising
<1>1. \A k \in 1..(Len(s) + 1) : Append(s, e)[k] = IF k = Len(s) + 1 THEN e ELSE s[k]
  OBVIOUS
<1>2. i \in 1..Len(s) /\ (j = Len(s) + 1 \/ j \in 1..Len(s))
  OBVIOUS
<1>3. CASE j = Len(s) + 1
  BY <1>1, <1>2, <1>3 DEF Range
<1>4. CASE j \in 1..Len(s)
  BY <1>1, <1>2, <1>4 DEF Rising
<1> QED
  BY <1>2, <1>3, <1>4

LEMMA RisingTail ==
    ASSUME NEW S, NEW s \in Seq(S), s # <<>>, NEW t, Rising(s, t)
    PROVE  /\ Rising(Tail(s), t)
           /\ Head(s)[1] = t => \A op \in Range(Tail(s)) : op[1] = t => Head(s)[2] < op[2]
<1>1. /\ DOMAIN Tail(s) = 1..(Len(s) - 1) /\ DOMAIN s = 1..Len(s)
      /\ Len(s) \in Nat /\ Len(s) >= 1 /\ Head(s) = s[1]
      /\ \A k \in 1..(Len(s) - 1) : Tail(s)[k] = s[k + 1]
  OBVIOUS
<1>2. \A k \in 1..(Len(s) - 1) : k + 1 \in 1..Len(s) /\ 1 < k + 1
  BY <1>1
<1>3. 1 \in 1..Len(s)
  BY <1>1
<1>4. Rising(Tail(s), t)
  <2> SUFFICES ASSUME NEW i \in 1..(Len(s) - 1), NEW j \in 1..(Len(s) - 1), i < j,
                      Tail(s)[i][1] = t, Tail(s)[j][1] = t
               PROVE  Tail(s)[i][2] < Tail(s)[j][2]
    BY <1>1 DEF Rising
  <2>1. i + 1 < j + 1
    OBVIOUS
  <2> QED
    BY <1>1, <1>2, <2>1 DEF Rising
<1>5. ASSUME Head(s)[1] = t, NEW k \in 1..(Len(s) - 1), Tail(s)[k][1] = t
      PROVE  Head(s)[2] < Tail(s)[k][2]
  BY <1>1, <1>2, <1>3, <1>5 DEF Rising
<1> QED
  BY <1>1, <1>4, <1>5 DEF Range

LEMMA OrderFrame ==
    ASSUME OrderInv, UNCHANGED <<log, wire, posted>>, shared \subseteq shared'
    PROVE  OrderInv'
BY DEF OrderInv, Placed, Ordered, Rising

\* The next write of a task has a number that no write of it has had.
LEMMA NextIsNew ==
    ASSUME TypeOK, Placed, NEW t \in Tasks
    PROVE  /\ NextWrite(t) \in Writes /\ NextWrite(t)[1] = t
           /\ NextWrite(t)[2] = posted[t] + 1 /\ posted[t] \in Nat
           /\ \A op \in Range(log) : op[1] = t => op[2] < NextWrite(t)[2]
           /\ \A c \in Tasks : \A op \in Range(wire[c]) : op[1] = t => op[2] < NextWrite(t)[2]
<1>1. posted[t] \in Nat /\ NextWrite(t) = <<t, posted[t] + 1>>
  BY DEF TypeOK, NextWrite
<1>2. NextWrite(t) \in Writes
  BY <1>1 DEF Writes
<1>3. Range(log) \subseteq Writes /\ \A c \in Tasks : Range(wire[c]) \subseteq Writes
  BY DEF TypeOK, Range
<1>4. ASSUME NEW op \in Writes, op[1] = t, op[2] <= posted[op[1]]
      PROVE  op[2] < posted[t] + 1
  BY <1>1, <1>4 DEF Writes
<1> QED
  BY <1>1, <1>2, <1>3, <1>4 DEF Placed

LEMMA NumbersGrow ==
    ASSUME TypeOK, Placed, NEW t \in Tasks, posted' = [posted EXCEPT ![t] = @ + 1]
    PROVE  /\ \A op \in Range(log) : op[2] <= posted'[op[1]]
           /\ \A c \in Tasks : \A op \in Range(wire[c]) : op[2] <= posted'[op[1]]
           /\ NextWrite(t)[2] <= posted'[t]
<1>1. Range(log) \subseteq Writes /\ \A c \in Tasks : Range(wire[c]) \subseteq Writes
  BY DEF TypeOK, Range
<1>2. \A op \in Writes : op[2] <= posted[op[1]] => op[2] <= posted'[op[1]]
  BY DEF Writes, TypeOK
<1>3. NextWrite(t)[2] <= posted'[t]
  BY DEF NextWrite, TypeOK
<1> QED
  BY <1>1, <1>2, <1>3 DEF Placed

\* A thread without a client: whoever runs there has shared it.
LEMMA OrderPostLocally ==
    ASSUME IInv, OrderInv, NEW t \in Tasks, PostLocally(t)
    PROVE  OrderInv'
<1> DEFINE e == NextWrite(t)
<1>1. /\ e \in Writes /\ e[1] = t /\ e \notin Range(log)
      /\ \A c \in Tasks : e \notin Range(wire[c])
  BY NextIsNew DEF IInv, OrderInv
<1>2. /\ log' = Append(log, e) /\ log \in Seq(Writes) /\ UNCHANGED <<wire, shared>>
      /\ posted' = [posted EXCEPT ![t] = @ + 1] /\ stage[t] = "running"
      /\ client[Host[t]] = NoTask
  BY DEF PostLocally, Posts, IInv, TypeOK
<1>3. t \in shared
  BY <1>2, HostAssumption DEF IInv, Alone
<1>4. Range(log') = Range(log) \cup {e} /\ IsInjective(log')
  <2> HIDE DEF e
  <2>1. Range(log') = Range(log) \cup {e}
    BY <1>1, <1>2, RangeAppend
  <2>2. IsInjective(log')
    BY <1>1, <1>2, InjectiveAppend DEF OrderInv, Placed
  <2> QED
    BY <2>1, <2>2
<1>5. Placed'
  <2>1. \A op \in Range(log') : op[2] <= posted'[op[1]]
    BY <1>1, <1>2, <1>4, NumbersGrow DEF IInv, OrderInv
  <2>2. \A c \in Tasks : \A op \in Range(wire[c]) : op[2] <= posted'[op[1]]
    BY <1>2, NumbersGrow DEF IInv, OrderInv
  <2> HIDE DEF e
  <2>3. \A c \in Tasks : \A op \in Range(wire[c]) : op \notin Range(log')
    BY <1>1, <1>4 DEF OrderInv, Placed
  <2> QED
    BY <1>2, <1>4, <2>1, <2>2, <2>3 DEF OrderInv, Placed
<1>6. Ordered'
  <2> SUFFICES ASSUME NEW u \in Tasks \ shared
               PROVE  /\ Rising(log', u)
                      /\ \A op \in Range(log'), d \in Range(wire[u]) :
                            op[1] = u /\ d[1] = u => op[2] < d[2]
    BY <1>2 DEF OrderInv, Ordered, Rising
  <2>1. u # e[1]
    BY <1>1, <1>3
  <2> HIDE DEF e
  <2>2. Rising(log, u)
    BY DEF OrderInv, Ordered
  <2>3. Rising(log', u)
    BY <1>1, <1>2, <2>1, <2>2, RisingAppend
  <2> QED
    BY <1>4, <2>1, <2>3 DEF OrderInv, Ordered
<1> QED
  BY <1>5, <1>6 DEF OrderInv

LEMMA OrderPostQueued ==
    ASSUME IInv, OrderInv, NEW t \in Tasks, PostQueued(t)
    PROVE  OrderInv'
<1> DEFINE e == NextWrite(t)
<1>1. /\ e \in Writes /\ e[1] = t /\ e \notin Range(log)
      /\ \A d \in Tasks : e \notin Range(wire[d])
  BY NextIsNew DEF IInv, OrderInv
<1>2. PICK c \in Tasks : c = client[Host[t]] /\ wire' = [wire EXCEPT ![c] = Append(@, e)]
  BY HostAssumption DEF PostQueued, IInv, TypeOK
<1>3. /\ UNCHANGED <<log, shared>> /\ stage[t] = "running"
      /\ posted' = [posted EXCEPT ![t] = @ + 1]
  BY DEF PostQueued, Posts
<1>4. t \notin shared => c = t
  BY <1>2, <1>3 DEF IInv, Alone
<1>5. wire[c] \in Seq(Writes) /\ wire'[c] = Append(wire[c], e)
      /\ \A d \in Tasks \ {c} : wire'[d] = wire[d]
  BY <1>2 DEF IInv, TypeOK
<1>6. Range(wire'[c]) = Range(wire[c]) \cup {e} /\ IsInjective(wire'[c])
  <2> HIDE DEF e
  <2>1. Range(wire'[c]) = Range(wire[c]) \cup {e}
    BY <1>1, <1>5, RangeAppend
  <2>2. IsInjective(wire[c])
    BY DEF OrderInv, Placed
  <2>3. IsInjective(wire'[c])
    BY <1>1, <1>5, <2>2, InjectiveAppend
  <2> QED
    BY <2>1, <2>3
<1>7. Placed'
  <2>1. /\ \A op \in Range(log) : op[2] <= posted'[op[1]]
        /\ \A d \in Tasks : \A op \in Range(wire[d]) : op[2] <= posted'[op[1]]
        /\ e[2] <= posted'[e[1]]
    BY <1>1, <1>3, NumbersGrow DEF IInv, OrderInv
  <2> HIDE DEF e
  <2>2. \A d \in Tasks : Range(wire'[d]) \subseteq Range(wire[d]) \cup {e}
    BY <1>5, <1>6
  <2>3. \A d \in Tasks : \A op \in Range(wire'[d]) : op[2] <= posted'[op[1]] /\ op \notin Range(log)
    BY <1>1, <2>1, <2>2 DEF OrderInv, Placed
  <2>4. \A d \in Tasks : IsInjective(wire'[d])
    BY <1>5, <1>6 DEF OrderInv, Placed
  <2>5. \A d, f \in Tasks : d # f => Range(wire'[d]) \cap Range(wire'[f]) = {}
    <3> SUFFICES ASSUME NEW d \in Tasks, NEW f \in Tasks \ {d}
                 PROVE  Range(wire'[d]) \cap Range(wire'[f]) = {}
      OBVIOUS
    <3>1. Range(wire[d]) \cap Range(wire[f]) = {} /\ e \notin Range(wire[d])
          /\ e \notin Range(wire[f])
      BY <1>1 DEF OrderInv, Placed
    <3>2. d # c => wire'[d] = wire[d]
      BY <1>5
    <3>3. f # c => wire'[f] = wire[f]
      BY <1>5
    <3> QED
      BY <1>6, <3>1, <3>2, <3>3
  <2> QED
    BY <1>3, <2>1, <2>3, <2>4, <2>5 DEF OrderInv, Placed
<1>8. Ordered'
  <2> SUFFICES ASSUME NEW u \in Tasks \ shared
               PROVE  /\ Rising(wire'[u], u)
                      /\ \A d \in Tasks \ {u} : \A op \in Range(wire'[d]) : op[1] # u
                      /\ \A op \in Range(log), f \in Range(wire'[u]) :
                            op[1] = u /\ f[1] = u => op[2] < f[2]
    BY <1>3 DEF OrderInv, Ordered, Rising
  <2>0. Rising(wire[u], u)
    BY DEF OrderInv, Ordered
  <2>1. CASE u = c
    <3>1. /\ \A op \in Range(log) : op[1] = u /\ e[1] = u => op[2] < e[2]
          /\ e[1] = u => \A op \in Range(wire[c]) : op[1] = u => op[2] < e[2]
      BY <1>1, NextIsNew DEF IInv, OrderInv
    <3> HIDE DEF e
    <3>2. Rising(wire'[u], u)
      <4>1. /\ wire[u] \in Seq(Writes) /\ wire'[u] = Append(wire[u], e)
            /\ e[1] = u => \A op \in Range(wire[u]) : op[1] = u => op[2] < e[2]
        BY <1>5, <2>1, <3>1
      <4> QED
        BY <1>1, <2>0, <4>1, RisingAppend
    <3>3. \A d \in Tasks \ {u} : \A op \in Range(wire'[d]) : op[1] # u
      BY <1>5, <2>1 DEF OrderInv, Ordered
    <3>4. \A op \in Range(log), f \in Range(wire'[u]) : op[1] = u /\ f[1] = u => op[2] < f[2]
      BY <1>6, <2>1, <3>1 DEF OrderInv, Ordered
    <3> QED
      BY <3>2, <3>3, <3>4
  <2>2. CASE u # c
    <3>1. wire'[u] = wire[u] /\ u # t
      BY <1>4, <1>5, <2>2
    <3>2. e[1] # u
      BY <1>1, <3>1
    <3> HIDE DEF e
    <3>3. \A d \in Tasks \ {u} : \A op \in Range(wire'[d]) : op[1] # u
      BY <1>5, <1>6, <3>2 DEF OrderInv, Ordered
    <3> QED
      BY <2>0, <3>1, <3>3 DEF OrderInv, Ordered
  <2> QED
    BY <2>1, <2>2
<1> QED
  BY <1>7, <1>8 DEF OrderInv

LEMMA OrderDeliver ==
    ASSUME IInv, OrderInv, NEW c \in Tasks, Deliver(c)
    PROVE  OrderInv'
<1> DEFINE e == Head(wire[c])
<1>1. /\ wire[c] \in Seq(Writes) /\ wire[c] # <<>> /\ log \in Seq(Writes)
      /\ wire' = [wire EXCEPT ![c] = Tail(@)] /\ log' = Append(log, e)
      /\ UNCHANGED <<posted, shared>> /\ IsInjective(wire[c])
  BY DEF Deliver, IInv, TypeOK, OrderInv, Placed
<1>2. wire'[c] = Tail(wire[c]) /\ \A d \in Tasks \ {c} : wire'[d] = wire[d]
  BY <1>1 DEF IInv, TypeOK
<1>3. /\ IsInjective(wire'[c]) /\ Range(wire'[c]) \subseteq Range(wire[c])
      /\ e \in Range(wire[c]) /\ e \notin Range(wire'[c]) /\ e \in Writes
  BY <1>1, <1>2, InjectiveTail, RangeTail
<1>4. /\ e[2] <= posted[e[1]] /\ e \notin Range(log)
      /\ \A d \in Tasks \ {c} : e \notin Range(wire[d])
  BY <1>3 DEF OrderInv, Placed
<1>5. Range(log') = Range(log) \cup {e} /\ IsInjective(log')
  <2> HIDE DEF e
  <2>1. Range(log') = Range(log) \cup {e}
    BY <1>1, <1>3, RangeAppend
  <2>2. IsInjective(log')
    BY <1>1, <1>3, <1>4, InjectiveAppend DEF OrderInv, Placed
  <2> QED
    BY <2>1, <2>2
<1>6. Placed'
  <2> HIDE DEF e
  <2>1. \A d \in Tasks : Range(wire'[d]) \subseteq Range(wire[d]) /\ e \notin Range(wire'[d])
    BY <1>2, <1>3, <1>4
  <2>2. \A op \in Range(log') : op[2] <= posted'[op[1]]
    BY <1>1, <1>4, <1>5 DEF OrderInv, Placed
  <2>3. \A d \in Tasks : \A op \in Range(wire'[d]) : op[2] <= posted'[op[1]] /\ op \notin Range(log')
    <3>1. \A d \in Tasks : \A op \in Range(wire[d]) : op[2] <= posted[op[1]] /\ op \notin Range(log)
      BY DEF OrderInv, Placed
    <3> QED
      BY <1>1, <1>5, <2>1, <3>1
  <2>4. \A d \in Tasks : IsInjective(wire'[d])
    BY <1>2, <1>3 DEF OrderInv, Placed
  <2>5. \A d, f \in Tasks : d # f => Range(wire'[d]) \cap Range(wire'[f]) = {}
    BY <2>1 DEF OrderInv, Placed
  <2> QED
    BY <1>5, <2>2, <2>3, <2>4, <2>5 DEF Placed
<1>7. Ordered'
  <2> SUFFICES ASSUME NEW u \in Tasks \ shared
               PROVE  /\ Rising(log', u) /\ Rising(wire'[u], u)
                      /\ \A d \in Tasks \ {u} : \A op \in Range(wire'[d]) : op[1] # u
                      /\ \A op \in Range(log'), f \in Range(wire'[u]) :
                            op[1] = u /\ f[1] = u => op[2] < f[2]
    BY <1>1 DEF Ordered, Rising
  <2>1. Rising(log, u) /\ Rising(wire[u], u)
    BY DEF OrderInv, Ordered
  <2>2. /\ \A op \in Range(log) : \A f \in Range(wire[u]) :
              op[1] = u /\ f[1] = u => op[2] < f[2]
        /\ \A d \in Tasks \ {u} : \A op \in Range(wire[d]) : op[1] # u
    BY DEF OrderInv, Ordered
  <2>3. \A d \in Tasks : Range(wire'[d]) \subseteq Range(wire[d])
    BY <1>2, <1>3
  <2>4. CASE u = c
    <3>1. /\ Rising(wire'[u], u)
          /\ e[1] = u => \A op \in Range(wire'[u]) : op[1] = u => e[2] < op[2]
      BY <1>1, <1>2, <2>1, <2>4, RisingTail
    <3> HIDE DEF e
    <3>2. Rising(log', u)
      BY <1>1, <1>3, <2>1, <2>2, <2>4, RisingAppend
    <3>3. \A op \in Range(log'), f \in Range(wire'[u]) : op[1] = u /\ f[1] = u => op[2] < f[2]
      BY <1>5, <2>2, <2>3, <3>1
    <3> QED
      BY <2>2, <2>3, <3>1, <3>2, <3>3
  <2>5. CASE u # c
    <3>1. e[1] # u /\ wire'[u] = wire[u]
      BY <1>2, <1>3, <2>2, <2>5
    <3> HIDE DEF e
    <3>2. Rising(log', u)
      BY <1>1, <1>3, <2>1, <3>1, RisingAppend
    <3> QED
      BY <1>5, <2>1, <2>2, <2>3, <3>1, <3>2
  <2> QED
    BY <2>4, <2>5
<1> QED
  BY <1>6, <1>7 DEF OrderInv

\* What is discarded leaves the others in their places.
LEMMA OrderGrace ==
    ASSUME IInv, OrderInv, NEW t \in Tasks, GraceOver(t)
    PROVE  OrderInv'
<1>1. /\ UNCHANGED <<log, posted, shared>> /\ wire'[t] = <<>>
      /\ \A c \in Tasks \ {t} : wire'[c] = wire[c]
  BY DEF GraceOver, Record, IInv, TypeOK
<1>2. IsInjective(<<>>) /\ \A u : Rising(<<>>, u)
  BY DEF IsInjective, Rising
<1>3. \A c \in Tasks : Range(wire'[c]) \subseteq Range(wire[c])
  BY <1>1, RangeEmpty
<1>4. Placed'
  <2>1. \A c \in Tasks : IsInjective(wire'[c])
    BY <1>1, <1>2 DEF OrderInv, Placed
  <2> QED
    BY <1>1, <1>3, <2>1 DEF OrderInv, Placed
<1>5. Ordered'
  <2>1. \A u \in Tasks \ shared : Rising(wire'[u], u)
    BY <1>1, <1>2 DEF OrderInv, Ordered
  <2> QED
    BY <1>1, <1>3, <2>1 DEF OrderInv, Ordered, Rising
<1> QED
  BY <1>4, <1>5 DEF OrderInv

LEMMA OrderNext == IInv /\ OrderInv /\ [Next]_vars => OrderInv'
<1> SUFFICES ASSUME IInv, OrderInv, [Next]_vars PROVE OrderInv'
  OBVIOUS
<1>1. ASSUME UNCHANGED vars PROVE OrderInv'
  BY <1>1, OrderFrame DEF vars
<1>2. ASSUME NEW t \in Tasks, Worker(t) PROVE OrderInv'
  <2>1. ASSUME Begin(t) \/ End(t) \/ AckArrives(t) PROVE OrderInv'
    BY <2>1, OrderFrame DEF Begin, End, AckArrives
  <2> QED
    BY <1>2, <2>1, OrderPostLocally, OrderPostQueued DEF Worker
<1>3. ASSUME NEW t \in Tasks, MainThread(t) PROVE OrderInv'
  <2>1. ASSUME RemoteCloses(t) \/ Drained(t) PROVE OrderInv'
    BY <2>1, OrderFrame DEF RemoteCloses, Drained, Record
  <2> QED
    BY <1>3, <2>1, OrderDeliver, OrderGrace DEF MainThread
<1> QED
  BY <1>1, <1>2, <1>3 DEF Next

(* Nothing is executed twice, by whichever thread, nothing that was not     *)
(* accepted, and the writes of a task that never shared its thread are      *)
(* executed in the order they were posted.                                  *)
THEOREM OnceAndInOrder == Spec => []ExecutedInOrder
<1>1. Init => OrderInv
  <2> SUFFICES ASSUME Init PROVE OrderInv
    OBVIOUS
  <2>1. log = <<>> /\ \A t \in Tasks : wire[t] = <<>>
    BY DEF Init
  <2> QED
    BY <2>1, RangeEmpty DEF OrderInv, Placed, Ordered, IsInjective, Rising
<1>2. IInv /\ OrderInv => ExecutedInOrder
  <2> SUFFICES ASSUME IInv, OrderInv PROVE ExecutedInOrder
    OBVIOUS
  <2>1. \A i \in DOMAIN log : log[i] \in Range(log) /\ log[i] \in Writes
    BY DEF Range, IInv, TypeOK
  <2>2. ExecutedOnce
    BY <2>1 DEF ExecutedOnce, OrderInv, Placed
  <2>3. InOrder
    BY <2>1 DEF InOrder, OrderInv, Ordered, Rising, Writes
  <2> QED
    BY <2>2, <2>3 DEF ExecutedInOrder
<1> QED
  BY <1>1, <1>2, OrderNext, InvCorrect, PTL DEF Spec
=============================================================================
