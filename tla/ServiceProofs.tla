--------------------------- MODULE ServiceProofs ----------------------------
(***************************************************************************)
(* The services behind the dispatcher.                                     *)
(***************************************************************************)
EXTENDS Memory, Knowledge, Worker, Scout, FiniteSetTheorems, SequenceTheorems, TLAPS

-----------------------------------------------------------------------------
(* The inductive invariant.                                                 *)

ScoutTypes ==
  /\ ticks \in Nat /\ beat \in Nat /\ staged \in Nat
  /\ checking \in [Checks -> Nat \cup {Unset}]
  /\ \A c \in Checks : checking[c] # Unset => checking[c] <= ticks

\* The cap is the profile's and nothing is remembered, or it is lowered and
\* the profile's is remembered: no third state without a restart while hot.
CapKept ==
  cutHot \/ (original = Unset /\ rule = Tier) \/ (original = Tier /\ rule = 0)

\* Once the machine is found idle, and while no check overtakes another, every
\* check that is still to end finds it idle too.
RestLasts ==
  ~overtaken =>
    IF idle THEN /\ staged <= 1 /\ Quiet(ticks)
                 /\ \A c \in Checks : checking[c] # Unset => Quiet(checking[c])
    ELSE staged = 0

ScoutInv == ScoutTypes /\ CapKept /\ RestLasts

LEMMA ScoutBegins == ScoutInit => ScoutInv
BY ScoutAssumption DEF ScoutInit, ScoutInv, ScoutTypes, CapKept, RestLasts

-----------------------------------------------------------------------------
(* The steps.                                                               *)

\* The end of a check leaves the cap where CapKept wants it.
LEMMA CapStep ==
  ASSUME CapKept, Yield \/ Recover \/ Leave, UNCHANGED cutHot
  PROVE  CapKept'
<1>1. CASE cutHot
  BY <1>1 DEF CapKept
<1>2. CASE ~cutHot
  <2>1. Tier # Unset /\ Tier # 0
    BY ScoutAssumption
  <2> QED
    BY <1>2, <2>1 DEF CapKept, Yield, Recover, Leave
<1> QED
  BY <1>1, <1>2

\* A check that overtakes none and finds the machine idle leaves only checks
\* that began later.
LEMMA RestStep ==
  ASSUME ScoutInv, NEW c \in Checks, CheckEnds(c)
  PROVE  RestLasts'
<1> SUFFICES ASSUME ~overtaken' PROVE RestLasts'
  BY DEF RestLasts
<1>1. checking[c] \in Nat /\ checking[c] <= ticks
  BY DEF CheckEnds, ScoutInv, ScoutTypes
<1>2. /\ ~overtaken
      /\ \A d \in Checks \ {c} : checking[d] # Unset => checking[d] >= checking[c]
  <2>1. ~overtaken /\ ~Overtakes(c)
    BY DEF CheckEnds
  <2>2. \A d \in Checks : checking[d] # Unset => checking[d] \in Nat
    BY DEF ScoutInv, ScoutTypes
  <2> QED
    BY <1>1, <2>1, <2>2 DEF Overtakes
<1>3. /\ UNCHANGED <<ticks, beat>>
      /\ \A d \in Checks : checking'[d] = IF d = c THEN Unset ELSE checking[d]
  BY DEF CheckEnds, ScoutInv, ScoutTypes
<1>4. CASE idle
  <2>1. Quiet(checking[c])
    BY <1>1, <1>2, <1>4 DEF RestLasts, ScoutInv, CheckEnds
  <2>2. UNCHANGED <<idle, staged>>
    BY <1>4, <2>1 DEF CheckEnds
  <2> QED
    BY <1>2, <1>3, <1>4, <2>2 DEF RestLasts, ScoutInv, Quiet
<1>5. CASE ~idle /\ ~Quiet(checking[c])
  <2>1. UNCHANGED <<idle, staged>>
    BY <1>5 DEF CheckEnds
  <2> QED
    BY <1>2, <1>5, <2>1 DEF RestLasts, ScoutInv
<1>6. CASE ~idle /\ Quiet(checking[c])
  <2>1. idle' = TRUE /\ staged' \in {staged, staged + 1} /\ staged = 0
    BY <1>2, <1>6 DEF CheckEnds, BecomesIdle, RestLasts, ScoutInv
  <2>2. Quiet(ticks)'
    BY <1>1, <1>3, <1>6, ScoutAssumption DEF Quiet, ScoutInv, ScoutTypes
  <2>3. ASSUME NEW d \in Checks, checking'[d] # Unset
        PROVE  Quiet(checking[d])'
    <3>1. d # c /\ checking'[d] = checking[d] /\ checking[d] \in Nat /\ checking[d] >= checking[c]
      BY <1>2, <1>3, <2>3 DEF ScoutInv, ScoutTypes
    <3> QED
      BY <1>1, <1>3, <1>6, <3>1, ScoutAssumption DEF Quiet, ScoutInv, ScoutTypes
  <2> QED
    BY <2>1, <2>2, <2>3 DEF RestLasts
<1> QED
  BY <1>4, <1>5, <1>6

LEMMA ScoutHolds == ScoutInv /\ [ScoutNext]_svars => ScoutInv'
<1> SUFFICES ASSUME ScoutInv, [ScoutNext]_svars PROVE ScoutInv'
  OBVIOUS
<1>1. ASSUME NEW h, Heat(h) PROVE ScoutInv'
  BY <1>1 DEF Heat, ScoutInv, ScoutTypes, CapKept, RestLasts, Quiet
<1>2. CASE Tick
  <2>1. ScoutTypes' /\ CapKept'
    BY <1>2, ScoutAssumption DEF Tick, ScoutInv, ScoutTypes, CapKept
  <2>2. RestLasts'
    BY <1>2, ScoutAssumption DEF Tick, ScoutInv, ScoutTypes, RestLasts, Quiet
  <2> QED
    BY <2>1, <2>2 DEF ScoutInv
<1>3. CASE Ping
  BY <1>3 DEF Ping, ScoutInv, ScoutTypes, CapKept, RestLasts
<1>4. CASE ProcessRestarts
  BY <1>4, ScoutAssumption DEF ProcessRestarts, ScoutInv, ScoutTypes, CapKept, RestLasts
<1>5. ASSUME NEW c \in Checks, CheckStarts(c) PROVE ScoutInv'
  BY <1>5, ScoutAssumption DEF CheckStarts, ScoutInv, ScoutTypes, CapKept, RestLasts, Quiet
<1>6. ASSUME NEW c \in Checks, CheckEnds(c) PROVE ScoutInv'
  <2>1. ScoutTypes'
    <3>1. staged' \in {staged, staged + 1}
      BY <1>6 DEF CheckEnds, BecomesIdle, BecomesActive
    <3> QED
      BY <1>6, <3>1 DEF CheckEnds, ScoutInv, ScoutTypes
  <2>2. CapKept'
    BY <1>6, CapStep DEF CheckEnds, ScoutInv
  <2>3. RestLasts'
    BY <1>6, RestStep
  <2> QED
    BY <2>1, <2>2, <2>3 DEF ScoutInv
<1>7. CASE UNCHANGED svars
  BY <1>7 DEF svars, ScoutInv, ScoutTypes, CapKept, RestLasts, Quiet
<1> QED
  BY <1>1, <1>2, <1>3, <1>4, <1>5, <1>6, <1>7 DEF ScoutNext

-----------------------------------------------------------------------------
(* However checks overlap and restarts fall, the cap of the profile is      *)
(* remembered while the dispatcher has none, but after a restart while hot, *)
(* and one maintenance run is staged per rest, but after a slow reading let *)
(* one check overtake another (idle.ts, the body of the interval).          *)
THEOREM ScoutIsSound == ScoutSpec => []ScoutSound
<1>1. ScoutInv => ScoutSound
  BY ScoutAssumption DEF ScoutInv, ScoutTypes, CapKept, RestLasts, ScoutSound, CapRemembered, OneRunPerRest
<1> QED
  BY <1>1, ScoutBegins, ScoutHolds, PTL DEF ScoutSpec

-----------------------------------------------------------------------------
(* OKF: the inductive invariant.                                            *)

Directory == [Names -> Texts \cup {None}]

\* The nodes have passed the confidence gate, and the edges are theirs.
Curated(G, E) ==
  /\ G \in [Names -> NodeRows \cup {None}]
  /\ \A n \in Names : G[n] # None => Trust[G[n].text] = "auto"
  /\ E \subseteq Names \X Names
  /\ \A e \in E : G[e[1]] # None /\ G[e[2]] # None

KnowledgeTypes ==
  /\ disk \in [Dirs -> Directory]
  /\ strikes \in Nat /\ parked \in Nat /\ swallowed \in Nat
  /\ extraction \in [Extractions -> {None} \cup [dir : Dirs, doc : Docs \cup {Chat}, attempt : {1, 2}]]

KnowledgeInv == KnowledgeTypes /\ Curated(nodes, edges) /\ HaltIsReported

LEMMA KnowledgeBegins == KnowledgeInit => KnowledgeInv
BY KnowledgeAssumption DEF KnowledgeInit, KnowledgeInv, KnowledgeTypes, Curated, HaltIsReported, Empty, Directory

\* An indexing pass over the files D of a directory adds trusted nodes and
\* edges between nodes.
LEMMA IndexedStill ==
  ASSUME NEW G, NEW E, Curated(G, E), NEW d \in Dirs, NEW D \in Directory,
         NEW U, U = Upserted(d, D, G), NEW L, L = Linked(D, G, U)
  PROVE  Curated(U, E \cup L)
<1>1. \A n \in Fresh(D, G) : n \in Names /\ D[n] \in Texts /\ Trust[D[n]] = "auto"
  BY DEF Fresh, Passes, Directory
<1>2. ASSUME NEW n \in Names
      PROVE  /\ U[n] \in NodeRows \cup {None}
             /\ U[n] # None => Trust[U[n].text] = "auto"
             /\ G[n] # None \/ n \in Fresh(D, G) => U[n] # None
  <2>1. CASE n \notin Fresh(D, G)
    <3>1. U[n] = G[n]
      BY <2>1 DEF Upserted
    <3> QED
      BY <2>1, <3>1 DEF Curated
  <2>2. CASE n \in Fresh(D, G) /\ G[n] = None
    <3>1. U[n] = [dir |-> d, text |-> D[n]]
      BY <2>2 DEF Upserted
    <3>2. U[n] \in NodeRows /\ U[n].text = D[n]
      BY <1>1, <2>2, <3>1 DEF NodeRows
    <3> QED
      BY <1>1, <2>2, <3>2, KnowledgeAssumption
  <2>3. CASE n \in Fresh(D, G) /\ G[n] # None
    <3>1. U[n] = [G[n] EXCEPT !.text = D[n]] /\ G[n] \in NodeRows
      BY <2>3 DEF Upserted, Curated
    <3>2. U[n] \in NodeRows /\ U[n].text = D[n]
      BY <1>1, <2>3, <3>1 DEF NodeRows
    <3> QED
      BY <1>1, <2>3, <3>2, KnowledgeAssumption
  <2> QED
    BY <2>1, <2>2, <2>3
<1>3. U \in [Names -> NodeRows \cup {None}]
  BY <1>2 DEF Upserted
<1>4. ASSUME NEW e \in E \cup L PROVE e \in Names \X Names /\ U[e[1]] # None /\ U[e[2]] # None
  <2>1. CASE e \in E
    BY <1>2, <2>1 DEF Curated
  <2>2. CASE e \in L
    <3>1. e \in Fresh(D, G) \X Names /\ Linkable(e[1], e[2], U)
      BY <2>2 DEF Linked
    <3>2. e[1] \in Fresh(D, G) /\ e[1] \in Names /\ e[2] \in Names /\ e \in Names \X Names
      BY <1>1, <3>1
    <3> QED
      BY <1>2, <3>1, <3>2 DEF Linkable
  <2> QED
    BY <2>1, <2>2
<1> QED
  BY <1>2, <1>3, <1>4 DEF Curated

\* The deletion of nodes takes their edges with them.
LEMMA PrunedStill ==
  ASSUME NEW G, NEW E, Curated(G, E), NEW gone
  PROVE  Curated(Without(G, gone), Anchored(E, gone))
BY DEF Curated, Without, Anchored

\* What an extraction writes, and the manifest, are files.
LEMMA DirectoryStill ==
  ASSUME NEW D \in Directory
  PROVE  /\ Manifested(D) \in Directory
         /\ \A C \in Directory : WithConcepts(D, C) \in Directory
         /\ \A n \in Names, t \in Texts \cup {None} : [D EXCEPT ![n] = t] \in Directory
BY KnowledgeAssumption DEF Directory, Manifested, WithConcepts

LEMMA IndexDirectoryStill ==
  ASSUME Curated(nodes, edges), NEW d \in Dirs, NEW D \in Directory, IndexDirectory(d, D)
  PROVE  Curated(nodes, edges)'
<1>1. PICK G, E, U, L : /\ G = nodes /\ E = edges /\ U = Upserted(d, D, G) /\ L = Linked(D, G, U)
  OBVIOUS
<1>2. nodes' = U /\ edges' = E \cup L
  BY <1>1 DEF IndexDirectory
<1>3. Curated(U, E \cup L)
  BY <1>1, IndexedStill
<1>4. Curated(nodes', edges')
  BY <1>2, <1>3
<1> QED
  BY <1>4 DEF Curated

-----------------------------------------------------------------------------
(* The steps.                                                               *)

LEMMA ConcludeStill ==
  ASSUME KnowledgeInv, NEW x \in Extractions, NEW d \in Dirs, NEW doc, NEW C \in Directory, Conclude(x, d, doc, C)
  PROVE  /\ disk' \in [Dirs -> Directory] /\ Curated(nodes, edges)'
         /\ extraction' \in [Extractions -> {None} \cup [dir : Dirs, doc : Docs \cup {Chat}, attempt : {1, 2}]]
<1>1. PICK D : D = Manifested(WithConcepts(disk[d], C))
  OBVIOUS
<1>2. D \in Directory
  BY <1>1, DirectoryStill DEF KnowledgeInv, KnowledgeTypes
<1>3. disk' = [disk EXCEPT ![d] = D] /\ IndexDirectory(d, D) /\ extraction' = [extraction EXCEPT ![x] = None]
  BY <1>1 DEF Conclude
<1> QED
  BY <1>2, <1>3, IndexDirectoryStill DEF KnowledgeInv, KnowledgeTypes

LEMMA DriftHolds ==
  ASSUME KnowledgeInv, NEW x \in Extractions, Drift(x) PROVE KnowledgeInv'
<1>1. /\ extraction[x] \in [dir : Dirs, doc : Docs \cup {Chat}, attempt : {1, 2}]
      /\ strikes' = strikes + 1
      /\ IF strikes + 1 >= StrikeLimit
         THEN \/ parked' = parked + 1 /\ swallowed' = swallowed
              \/ swallowed' = swallowed + 1 /\ parked' = parked
         ELSE parked' = parked /\ swallowed' = swallowed
  BY DEF Drift, RecordDrift, Park, Tripped, escalations, KnowledgeInv, KnowledgeTypes
<1>2. strikes' \in Nat /\ parked' \in Nat /\ swallowed' \in Nat /\ HaltIsReported'
  BY <1>1, KnowledgeAssumption DEF KnowledgeInv, KnowledgeTypes, HaltIsReported
<1>3. CASE /\ extraction' = [extraction EXCEPT ![x].attempt = 2]
           /\ UNCHANGED <<disk, nodes, edges>>
  <2>1. PICK e : e = [extraction[x] EXCEPT !.attempt = 2]
    OBVIOUS
  <2>2. e \in [dir : Dirs, doc : Docs \cup {Chat}, attempt : {1, 2}]
    BY <1>1, <2>1
  <2>3. extraction' = [extraction EXCEPT ![x] = e]
    BY <1>3, <2>1
  <2>4. extraction' \in [Extractions -> {None} \cup [dir : Dirs, doc : Docs \cup {Chat}, attempt : {1, 2}]]
    BY <2>2, <2>3 DEF KnowledgeInv, KnowledgeTypes
  <2>5. disk' \in [Dirs -> Directory] /\ Curated(nodes, edges)'
    BY <1>3 DEF KnowledgeInv, KnowledgeTypes, Curated
  <2> QED
    BY <1>2, <2>4, <2>5 DEF KnowledgeInv, KnowledgeTypes
<1>4. CASE Conclude(x, extraction[x].dir, extraction[x].doc, Empty)
  <2>1. PICK d, doc : d = extraction[x].dir /\ doc = extraction[x].doc
    OBVIOUS
  <2>2. d \in Dirs /\ Conclude(x, d, doc, Empty) /\ Empty \in Directory
    BY <1>1, <1>4, <2>1 DEF Empty, Directory
  <2> QED
    BY <1>2, <2>2, ConcludeStill DEF KnowledgeInv, KnowledgeTypes
<1> QED
  BY <1>3, <1>4 DEF Drift

LEMMA AnswerHolds ==
  ASSUME KnowledgeInv, NEW x \in Extractions, NEW C \in Yields, Answer(x, C) PROVE KnowledgeInv'
<1>1. PICK d, doc : d = extraction[x].dir /\ doc = extraction[x].doc
  OBVIOUS
<1>2. d \in Dirs /\ Conclude(x, d, doc, C)
  BY <1>1 DEF Answer, KnowledgeInv, KnowledgeTypes
<1>3. C \in Directory
  BY DEF Yields, Empty, Directory
<1>4. strikes' = 0 /\ parked' = 0 /\ swallowed' = 0
  BY DEF Answer, Forgive
<1> QED
  BY <1>2, <1>3, <1>4, ConcludeStill, KnowledgeAssumption DEF KnowledgeInv, KnowledgeTypes, HaltIsReported

LEMMA AnswerTornHolds ==
  ASSUME KnowledgeInv, NEW x \in Extractions, NEW C \in Yields, AnswerTorn(x, C) PROVE KnowledgeInv'
<1>1. PICK d : d = extraction[x].dir
  OBVIOUS
<1>2. PICK D : D = WithConcepts(disk[d], C)
  OBVIOUS
<1>3. /\ d \in Dirs /\ disk' = [disk EXCEPT ![d] = D] /\ extraction' = [extraction EXCEPT ![x] = None]
      /\ strikes' = 0 /\ parked' = 0 /\ swallowed' = 0 /\ UNCHANGED <<nodes, edges>>
  BY <1>1, <1>2 DEF AnswerTorn, Forgive, KnowledgeInv, KnowledgeTypes
<1>4. C \in Directory
  BY DEF Yields, Empty, Directory
<1>5. D \in Directory
  BY <1>2, <1>3, <1>4, DirectoryStill DEF KnowledgeInv, KnowledgeTypes
<1> QED
  BY <1>3, <1>5, KnowledgeAssumption DEF KnowledgeInv, KnowledgeTypes, Curated, HaltIsReported

LEMMA ExtractHolds ==
  ASSUME KnowledgeInv, NEW x \in Extractions, NEW d \in Dirs, NEW doc \in Docs \cup {Chat}, Extract(x, d, doc)
  PROVE  KnowledgeInv'
<1>1. strikes' = strikes /\ parked' = parked /\ swallowed' = swallowed
  BY DEF Extract, escalations
<1>2. CASE Conclude(x, d, doc, Empty)
  <2>1. Empty \in Directory
    BY DEF Empty, Directory
  <2> QED
    BY <1>1, <1>2, <2>1, ConcludeStill DEF KnowledgeInv, KnowledgeTypes, HaltIsReported
<1>3. CASE /\ extraction' = [extraction EXCEPT ![x] = [dir |-> d, doc |-> doc, attempt |-> 1]]
           /\ UNCHANGED <<disk, nodes, edges>>
  BY <1>1, <1>3 DEF KnowledgeInv, KnowledgeTypes, HaltIsReported, Curated
<1> QED
  BY <1>2, <1>3 DEF Extract

LEMMA SyncHolds ==
  ASSUME KnowledgeInv, NEW p \in Projects, Sync(p) PROVE KnowledgeInv'
<1>1. PICK D, G, E, U, L, gone :
        /\ D = Manifested(disk[p]) /\ G = nodes /\ E = edges
        /\ U = Upserted(p, D, G) /\ L = Linked(D, G, U) /\ gone = Orphans(p, D, U)
  OBVIOUS
<1>2. D \in Directory /\ p \in Dirs /\ Curated(G, E)
  BY <1>1, DirectoryStill DEF KnowledgeInv, KnowledgeTypes, Dirs
<1>3. /\ disk' = [disk EXCEPT ![p] = D] /\ nodes' = Without(U, gone) /\ edges' = Anchored(E \cup L, gone)
      /\ UNCHANGED <<extraction, strikes, parked, swallowed>>
  BY <1>1 DEF Sync, escalations
<1>4. Curated(U, E \cup L)
  BY <1>1, <1>2, IndexedStill
<1>5. Curated(nodes', edges')
  BY <1>3, <1>4, PrunedStill
<1> QED
  BY <1>2, <1>3, <1>5 DEF KnowledgeInv, KnowledgeTypes, Curated, HaltIsReported

LEMMA IndexHolds ==
  ASSUME KnowledgeInv, NEW p \in Projects, Index(p) PROVE KnowledgeInv'
<1>1. PICK G0, E0, D1, D2, D3 : /\ G0 = nodes /\ E0 = edges
                                /\ D1 = disk[p] /\ D2 = disk["USER"] /\ D3 = disk["GLOBAL"]
  OBVIOUS
<1>2. PICK G1, L1, G2, L2, G3, L3 :
        /\ G1 = Upserted(p, D1, G0) /\ L1 = Linked(D1, G0, G1)
        /\ G2 = Upserted("USER", D2, G1) /\ L2 = Linked(D2, G1, G2)
        /\ G3 = Upserted("GLOBAL", D3, G2) /\ L3 = Linked(D3, G2, G3)
  OBVIOUS
<1>3. /\ p \in Dirs /\ "USER" \in Dirs /\ "GLOBAL" \in Dirs
      /\ D1 \in Directory /\ D2 \in Directory /\ D3 \in Directory /\ Curated(G0, E0)
  BY <1>1 DEF KnowledgeInv, KnowledgeTypes, Dirs, Shared
<1>4. nodes' = G3 /\ edges' = ((E0 \cup L1) \cup L2) \cup L3 /\ UNCHANGED <<disk, extraction, strikes, parked, swallowed>>
  BY <1>1, <1>2, Zenon DEF Index, escalations
<1>5. Curated(G1, E0 \cup L1)
  BY <1>2, <1>3, IndexedStill
<1>6. Curated(G2, (E0 \cup L1) \cup L2)
  BY <1>2, <1>3, <1>5, IndexedStill
<1>7. Curated(G3, ((E0 \cup L1) \cup L2) \cup L3)
  BY <1>2, <1>3, <1>6, IndexedStill
<1> QED
  BY <1>4, <1>7 DEF KnowledgeInv, KnowledgeTypes, Curated, HaltIsReported

LEMMA KnowledgeHolds == KnowledgeInv /\ [KnowledgeNext]_kvars => KnowledgeInv'
<1> SUFFICES ASSUME KnowledgeInv, [KnowledgeNext]_kvars PROVE KnowledgeInv'
  OBVIOUS
<1>1. ASSUME NEW d \in Dirs, NEW n \in Names, NEW t \in Texts \cup {None}, Edit(d, n, t) PROVE KnowledgeInv'
  <2>1. PICK D : D = [disk[d] EXCEPT ![n] = t]
    OBVIOUS
  <2>2. disk' = [disk EXCEPT ![d] = D] /\ UNCHANGED <<nodes, edges, extraction, strikes, parked, swallowed>>
    BY <1>1, <2>1 DEF Edit, escalations
  <2>3. D \in Directory
    BY <2>1, DirectoryStill DEF KnowledgeInv, KnowledgeTypes
  <2> QED
    BY <2>2, <2>3 DEF KnowledgeInv, KnowledgeTypes, Curated, HaltIsReported
<1>2. CASE Restart
  <2>1. /\ strikes' = 0 /\ parked' = 0 /\ swallowed' = 0 /\ extraction' = [x \in Extractions |-> None]
    BY <1>2 DEF Restart, Forgive
  <2>2. CASE UNCHANGED <<disk, nodes, edges>>
    BY <2>1, <2>2, KnowledgeAssumption DEF KnowledgeInv, KnowledgeTypes, Curated, HaltIsReported
  <2>3. ASSUME NEW D, D = [Empty EXCEPT ![Manifest] = ManifestText], disk' = [disk EXCEPT !["GLOBAL"] = D],
               IndexDirectory("GLOBAL", D)
        PROVE  KnowledgeInv'
    <3>1. D \in Directory /\ "GLOBAL" \in Dirs
      BY <2>3, KnowledgeAssumption DEF Empty, Directory, Dirs, Shared
    <3>2. Curated(nodes, edges)'
      BY <2>3, <3>1, IndexDirectoryStill DEF KnowledgeInv
    <3> QED
      BY <2>1, <2>3, <3>1, <3>2, KnowledgeAssumption DEF KnowledgeInv, KnowledgeTypes, HaltIsReported
  <2> QED
    BY <1>2, <2>2, <2>3 DEF Restart
<1>3. CASE UNCHANGED kvars
  BY <1>3 DEF kvars, escalations, KnowledgeInv, KnowledgeTypes, Curated, HaltIsReported
<1>4. \A p \in Projects : p \in Dirs
  BY DEF Dirs
<1>5. "USER" \in Dirs
  BY DEF Dirs, Shared
<1> QED
  BY <1>1, <1>2, <1>3, <1>4, <1>5, ExtractHolds, AnswerHolds, AnswerTornHolds, DriftHolds, SyncHolds, IndexHolds DEF KnowledgeNext

-----------------------------------------------------------------------------
(* Both ends of an edge are nodes, nothing below the confidence gate gets    *)
(* into the graph, and a run of failures is escalated, with a to-do or a     *)
(* failed insert, exactly when it halts extraction (core/okf,                *)
(* schema-drift-breaker.ts), whatever the order of edits, conversions,       *)
(* reflections, syncs and restarts.                                          *)
THEOREM KnowledgeIsSound == KnowledgeSpec => []KnowledgeSound
<1>1. KnowledgeInv => KnowledgeSound
  BY DEF KnowledgeInv, Curated, KnowledgeSound, EdgesAnchored, GraphTrusted, Indexed
<1> QED
  BY <1>1, KnowledgeBegins, KnowledgeHolds, PTL DEF KnowledgeSpec

-----------------------------------------------------------------------------
(* The task worker: the inductive invariant.                                *)

FetchRecord == [host : Hosts \cup {Nowhere}, found : Addresses \cup {Nowhere}, hops : Nat, internal : BOOLEAN,
                stage : {"none", "host", "switch", "address", "policy", "request"}]
BatchRecord == [left : Nat, rows : Nat, todos : Nat, processed : Nat, skipped : Nat, deferred : Nat]
Actions == {"fetch", "shell", "scrape"}
ActRecord == [kind : {"request", "shell", "child", "model", "file"}, host : Hosts \cup {Nowhere},
              found : Addresses \cup {Nowhere}, reached : Addresses \cup {Nowhere}]

WorkerTypes ==
  /\ input \in [Tasks -> Inputs \cup {Untaken}]
  /\ step \in [Tasks -> {"queued", "gating", "plugin", "batch", "fetching", "drafting",
                         "mapping", "embedding", "directive", "scraping", "succeeded", "failed"}]
  /\ gates \in [Tasks -> Seq(Actions)]
  /\ permitted \in [Tasks -> SUBSET Actions]
  /\ fetch \in [Tasks -> FetchRecord]
  /\ acts \in [Tasks -> SUBSET ActRecord]
  /\ indexing \in [Tasks -> BatchRecord]
  /\ pending \in [Tasks -> Nat]

\* An action that the gate of a task is there for.
Gates(in, a) ==
  \/ a = "fetch" /\ NeedsNetwork(in)
  \/ a = in.directive /\ in.directive \in {"shell", "scrape"}

\* What is to be gated has passed the gate or is still in line for it.
InLine(t) ==
  /\ step[t] # "queued" => input[t] \in Inputs
  /\ step[t] = "gating" =>
       \A a \in Actions : Gates(input[t], a) => a \in permitted[t] \/ \E i \in 1..Len(gates[t]) : gates[t][i] = a
  /\ step[t] \notin {"queued", "gating", "failed"} =>
       \A a \in Actions : Gates(input[t], a) => a \in permitted[t]

\* A task is where its plugin or its directive takes it.
OnItsWay(t) ==
  /\ step[t] = "fetching" => Plugin(t) = "fetch"
  /\ step[t] = "drafting" => Plugin(t) = "draft"
  /\ step[t] \in {"mapping", "embedding"} => Plugin(t) = "map"
  /\ step[t] = "batch" => Plugin(t) = "index"
  /\ step[t] \in {"directive", "scraping"} => Plugin(t) # "index"
  /\ step[t] = "scraping" => Directive(t) = "scrape"

\* A fetch past a gate is of a host that passes it.
Vetting(t) ==
  /\ fetch[t].internal => step[t] # "queued" /\ Directive(t) = "scrape"
  /\ fetch[t].stage # "none" => fetch[t].host \in Hosts
  /\ fetch[t].internal /\ fetch[t].stage \in {"switch", "address", "policy", "request"} =>
       fetch[t].host \in Loopback
  /\ ~fetch[t].internal /\ fetch[t].stage \in {"policy", "request"} => fetch[t].found = "public"

\* What is done was let through, and what was requested was vetted.
Acted(t) ==
  /\ step[t] \in {"queued", "gating", "plugin"} => acts[t] = {} /\ pending[t] = 0
  /\ \A a \in acts[t] :
       /\ Licensed(t, a)
       /\ a.kind = "request" => a.found = "public" \/ (Directive(t) = "scrape" /\ a.host \in Loopback)

\* The channel has room for the rest of a batch, and its counts add up.
Batched(t) ==
  LET b == indexing[t] IN
  /\ b.rows = b.todos
  /\ step[t] = "batch" => pending[t] + 2 * b.left <= MaxPending
  /\ step[t] = "batch" => b.processed + b.skipped + b.deferred + b.left = input[t].files
  /\ step[t] = "succeeded" /\ Plugin(t) = "index" => b.processed + b.skipped + b.deferred = input[t].files

TaskInv(t) == InLine(t) /\ OnItsWay(t) /\ Vetting(t) /\ Acted(t) /\ Batched(t)
WorkerInv == WorkerTypes /\ \A t \in Tasks : TaskInv(t)

TaskRows(t) == <<input[t], step[t], gates[t], permitted[t], fetch[t], acts[t], indexing[t], pending[t]>>

LEMMA WorkerBegins == WorkerInit => WorkerInv
<1> SUFFICES ASSUME WorkerInit PROVE WorkerInv
  OBVIOUS
<1>1. NoFetch \in FetchRecord /\ NoBatch \in BatchRecord
  BY DEF NoFetch, Addresses, FetchRecord, NoBatch, BatchRecord
<1>2. WorkerTypes
  <2>1. PICK u, f, b : u = Untaken /\ f = NoFetch /\ b = NoBatch
    OBVIOUS
  <2>2. /\ input = [t \in Tasks |-> u] /\ fetch = [t \in Tasks |-> f] /\ indexing = [t \in Tasks |-> b]
        /\ step = [t \in Tasks |-> "queued"] /\ gates = [t \in Tasks |-> <<>>]
        /\ permitted = [t \in Tasks |-> {}] /\ acts = [t \in Tasks |-> {}] /\ pending = [t \in Tasks |-> 0]
    BY <2>1, Zenon DEF WorkerInit
  <2>3. u \in Inputs \cup {Untaken} /\ f \in FetchRecord /\ b \in BatchRecord
    BY <1>1, <2>1
  <2>4. gates \in [Tasks -> Seq(Actions)] /\ acts \in [Tasks -> SUBSET ActRecord]
    BY <2>2
  <2>5. /\ input \in [Tasks -> Inputs \cup {Untaken}] /\ fetch \in [Tasks -> FetchRecord]
        /\ indexing \in [Tasks -> BatchRecord]
    BY <2>2, <2>3
  <2> QED
    BY <2>2, <2>4, <2>5 DEF WorkerTypes
<1>3. ASSUME NEW t \in Tasks PROVE TaskInv(t)
  <2>7. /\ step = [u \in Tasks |-> "queued"] /\ acts = [u \in Tasks |-> {}] /\ pending = [u \in Tasks |-> 0]
        /\ fetch = [u \in Tasks |-> NoFetch] /\ indexing = [u \in Tasks |-> NoBatch]
    BY Zenon DEF WorkerInit
  <2>1. /\ step[t] = "queued" /\ acts[t] = {} /\ pending[t] = 0
        /\ ~fetch[t].internal /\ fetch[t].stage = "none" /\ indexing[t] = NoBatch
    BY <2>7 DEF NoFetch
  <2>2. InLine(t) /\ OnItsWay(t)
    BY <2>1 DEF InLine, OnItsWay
  <2>3. Vetting(t)
    BY <2>1 DEF Vetting
  <2>4. Acted(t) /\ Batched(t)
    BY <2>1 DEF Acted, Batched, NoBatch
  <2> QED
    BY <2>2, <2>3, <2>4 DEF TaskInv
<1> QED
  BY <1>2, <1>3 DEF WorkerInv

\* A step of one task leaves the others where they are.
LEMMA TasksApart ==
  ASSUME WorkerInv, NEW t \in Tasks, WorkerTypes', TaskInv(t)',
         \A u \in Tasks \ {t} : TaskRows(u)' = TaskRows(u)
  PROVE  WorkerInv'
<1> SUFFICES ASSUME NEW u \in Tasks, u # t PROVE TaskInv(u)'
  BY DEF WorkerInv
<1>1. TaskRows(u)' = TaskRows(u) /\ TaskInv(u)
  BY DEF WorkerInv
<1>2. /\ input'[u] = input[u] /\ step'[u] = step[u] /\ gates'[u] = gates[u] /\ permitted'[u] = permitted[u]
      /\ fetch'[u] = fetch[u] /\ acts'[u] = acts[u] /\ indexing'[u] = indexing[u] /\ pending'[u] = pending[u]
  BY <1>1 DEF TaskRows
<1> QED
  BY <1>1, <1>2 DEF TaskInv, InLine, OnItsWay, Vetting, Acted, Licensed, Batched, Plugin, Directive

\* The list of actions to gate holds all that are to be gated.
LEMMA ResolvedFacts ==
  ASSUME NEW in \in Inputs, NEW q, q = Resolved(in)
  PROVE  q \in Seq(Actions) /\ \A a \in Actions : Gates(in, a) => \E i \in 1..Len(q) : q[i] = a
<1>1. CASE NeedsNetwork(in) /\ in.directive \in {"shell", "scrape"}
  <2>2. q = <<"fetch", in.directive>>
    BY <1>1 DEF Resolved
  <2>3. q \in Seq(Actions) /\ Len(q) = 2 /\ q[1] = "fetch" /\ q[2] = in.directive
    BY <1>1, <2>2 DEF Actions
  <2>4. 1 \in 1..Len(q) /\ 2 \in 1..Len(q)
    BY <2>3
  <2> QED
    BY <2>3, <2>4 DEF Gates
<1>2. CASE NeedsNetwork(in) /\ in.directive \notin {"shell", "scrape"}
  <2>2. q = <<"fetch">>
    BY <1>2 DEF Resolved, ResolvedFirst
  <2>3. q \in Seq(Actions) /\ Len(q) = 1 /\ q[1] = "fetch" /\ 1 \in 1..Len(q)
    BY <2>2 DEF Actions
  <2> QED
    BY <1>2, <2>3 DEF Gates
<1>3. CASE ~NeedsNetwork(in) /\ in.directive \in {"shell", "scrape"}
  <2>2. q = <<in.directive>>
    BY <1>3 DEF Resolved, ResolvedFirst
  <2>3. q \in Seq(Actions) /\ Len(q) = 1 /\ q[1] = in.directive /\ 1 \in 1..Len(q)
    BY <1>3, <2>2 DEF Actions
  <2> QED
    BY <1>3, <2>3 DEF Gates
<1>4. CASE ~NeedsNetwork(in) /\ in.directive \notin {"shell", "scrape"}
  <2>2. q = <<>>
    BY <1>4 DEF Resolved, ResolvedFirst
  <2> QED
    BY <1>4, <2>2 DEF Gates
<1> QED
  BY <1>1, <1>2, <1>3, <1>4

\* A step that the settings or the other tasks of the run take.
LEMMA RowsStand ==
  ASSUME WorkerInv, UNCHANGED <<input, step, gates, permitted, fetch, acts, indexing, pending>>
  PROVE  WorkerInv'
<1>1. WorkerTypes'
  BY DEF WorkerInv, WorkerTypes
<1>2. ASSUME NEW t \in Tasks PROVE TaskInv(t)'
  BY DEF WorkerInv, TaskInv, InLine, OnItsWay, Vetting, Acted, Licensed, Batched, Plugin, Directive
<1> QED
  BY <1>1, <1>2 DEF WorkerInv

LEMMA AcknowledgeStep == ASSUME WorkerInv, NEW t \in Tasks, Acknowledge(t) PROVE WorkerInv'
<1>0. pending[t] \in Nat /\ pending[t] > 0 /\ step[t] # "batch" /\ pending' = [pending EXCEPT ![t] = pending[t] - 1]
  BY DEF Acknowledge, WorkerInv, WorkerTypes
<1>1. WorkerTypes' /\ pending'[t] <= pending[t] /\ pending[t] > 0 /\ step[t] # "batch"
  <2>1. pending[t] - 1 \in Nat /\ pending[t] - 1 <= pending[t]
    BY <1>0
  <2> QED
    BY <1>0, <2>1 DEF Acknowledge, WorkerInv, WorkerTypes
<1>2. \A u \in Tasks \ {t} : TaskRows(u)' = TaskRows(u)
  BY DEF Acknowledge, WorkerInv, WorkerTypes, TaskRows
<1>3. TaskInv(t)
  BY DEF WorkerInv
<1>4. InLine(t)' /\ OnItsWay(t)' /\ Vetting(t)'
  BY <1>3 DEF Acknowledge, TaskInv, InLine, OnItsWay, Vetting, Plugin, Directive
<1>5. Acted(t)'
  BY <1>1, <1>3 DEF Acknowledge, TaskInv, Acted, Licensed, Plugin, Directive
<1>6. Batched(t)'
  BY <1>1, <1>3 DEF Acknowledge, TaskInv, Batched, Plugin
<1>7. TaskInv(t)'
  BY <1>4, <1>5, <1>6 DEF TaskInv
<1> QED
  BY <1>1, <1>2, <1>7, TasksApart

LEMMA ReceiveStep == ASSUME WorkerInv, NEW t \in Tasks, NEW in \in Inputs, Receive(t, in) PROVE WorkerInv'
<1>1. PICK q : q = Resolved(in)
  OBVIOUS
<1>2. /\ step[t] = "queued" /\ step' = [step EXCEPT ![t] = "gating"]
      /\ input' = [input EXCEPT ![t] = in] /\ gates' = [gates EXCEPT ![t] = q]
      /\ UNCHANGED <<permitted, fetch, acts, indexing, pending>>
  BY <1>1 DEF Receive, At
<1>3. q \in Seq(Actions) /\ \A a \in Actions : Gates(in, a) => \E i \in 1..Len(q) : q[i] = a
  BY <1>1, ResolvedFacts
<1>4. WorkerTypes'
  BY <1>2, <1>3 DEF WorkerInv, WorkerTypes
<1>5. \A u \in Tasks \ {t} : TaskRows(u)' = TaskRows(u)
  BY <1>2 DEF WorkerInv, WorkerTypes, TaskRows
<1>6. step'[t] = "gating" /\ input'[t] = in /\ gates'[t] = q
  BY <1>2 DEF WorkerInv, WorkerTypes
<1>7. InLine(t)' /\ OnItsWay(t)'
  BY <1>3, <1>6 DEF InLine, OnItsWay
<1>8. acts[t] = {} /\ pending[t] = 0 /\ Vetting(t) /\ Batched(t)
  BY <1>2 DEF WorkerInv, TaskInv, Acted
<1>9. Vetting(t)'
  BY <1>2, <1>6, <1>8 DEF Vetting
<1>10. Acted(t)' /\ Batched(t)'
  BY <1>2, <1>6, <1>8 DEF Acted, Batched
<1>11. TaskInv(t)'
  BY <1>7, <1>9, <1>10 DEF TaskInv
<1> QED
  BY <1>4, <1>5, <1>11, TasksApart

LEMMA GateStep == ASSUME WorkerInv, NEW t \in Tasks, Gate(t) PROVE WorkerInv'
<1>0. /\ step[t] = "gating" /\ UNCHANGED <<input, fetch, acts, indexing, pending>> /\ TaskInv(t)
      /\ gates[t] \in Seq(Actions) /\ permitted[t] \in SUBSET Actions
  BY DEF Gate, WorkerInv, WorkerTypes
<1>1. PICK s, g, p :
        /\ s \in {"gating", "plugin", "failed"} /\ g \in Seq(Actions) /\ p \in SUBSET Actions /\ permitted[t] \subseteq p
        /\ step' = [step EXCEPT ![t] = s] /\ gates' = [gates EXCEPT ![t] = g] /\ permitted' = [permitted EXCEPT ![t] = p]
        /\ \A a \in Actions : (\E i \in 1..Len(gates[t]) : gates[t][i] = a) =>
             a \in p \/ s = "failed" \/ (s = "gating" /\ \E i \in 1..Len(g) : g[i] = a)
  <2>1. CASE gates[t] = <<>>
    <3>1. step' = [step EXCEPT ![t] = "plugin"] /\ gates' = [gates EXCEPT ![t] = gates[t]]
          /\ permitted' = [permitted EXCEPT ![t] = permitted[t]]
      BY <2>1 DEF Gate, At, WorkerInv, WorkerTypes
    <3>2. ~\E i \in 1..Len(gates[t]) : gates[t][i] = gates[t][i]
      BY <2>1
    <3> WITNESS "plugin", gates[t], permitted[t]
    <3> QED
      BY <1>0, <3>1, <3>2
  <2>2. CASE gates[t] # <<>> /\ Allowed(Head(gates[t]))
    <3>1. step' = [step EXCEPT ![t] = "gating"]
      BY <1>0, <2>2 DEF Gate, WorkerInv, WorkerTypes
    <3>2. gates' = [gates EXCEPT ![t] = Tail(gates[t])]
          /\ permitted' = [permitted EXCEPT ![t] = permitted[t] \cup {Head(gates[t])}]
      BY <2>2 DEF Gate
    <3>3. PICK h, g : h = Head(gates[t]) /\ g = Tail(gates[t])
      OBVIOUS
    <3>4. /\ h \in Actions /\ g \in Seq(Actions) /\ h = gates[t][1] /\ Len(g) = Len(gates[t]) - 1
          /\ \A i \in 1..Len(g) : g[i] = gates[t][i + 1]
      BY <1>0, <2>2, <3>3
    <3>5. \A a \in Actions : (\E i \in 1..Len(gates[t]) : gates[t][i] = a) => a = h \/ \E i \in 1..Len(g) : g[i] = a
      <4> SUFFICES ASSUME NEW i \in 1..Len(gates[t]), gates[t][i] # h PROVE \E j \in 1..Len(g) : g[j] = gates[t][i]
        OBVIOUS
      <4>1. i - 1 \in 1..Len(g)
        BY <1>0, <3>4
      <4>2. g[i - 1] = gates[t][i]
        BY <3>4, <4>1
      <4> QED
        BY <4>1, <4>2
    <3>6. permitted[t] \cup {h} \in SUBSET Actions /\ permitted[t] \subseteq permitted[t] \cup {h} /\ h \in permitted[t] \cup {h}
      BY <1>0, <3>4
    <3> WITNESS "gating", g, permitted[t] \cup {h}
    <3> QED
      BY <3>1, <3>2, <3>3, <3>4, <3>5, <3>6
  <2>3. CASE gates[t] # <<>> /\ ~Allowed(Head(gates[t]))
    <3>1. step' = [step EXCEPT ![t] = "failed"] /\ gates' = [gates EXCEPT ![t] = gates[t]]
          /\ permitted' = [permitted EXCEPT ![t] = permitted[t]]
      BY <2>3 DEF Gate, At, WorkerInv, WorkerTypes
    <3> QED
      BY <1>0, <3>1
  <2> QED
    BY <2>1, <2>2, <2>3
<1>2. WorkerTypes'
  BY <1>0, <1>1 DEF WorkerInv, WorkerTypes
<1>3. \A u \in Tasks \ {t} : TaskRows(u)' = TaskRows(u)
  BY <1>0, <1>1 DEF WorkerInv, WorkerTypes, TaskRows
<1>4. step'[t] = s /\ gates'[t] = g /\ permitted'[t] = p
  BY <1>1 DEF WorkerInv, WorkerTypes
<1>5. InLine(t)'
  BY <1>0, <1>1, <1>4 DEF TaskInv, InLine
<1>6. OnItsWay(t)' /\ Vetting(t)'
  BY <1>0, <1>1, <1>4 DEF TaskInv, OnItsWay, Vetting, Directive
<1>7. Acted(t)' /\ Batched(t)'
  BY <1>0, <1>1, <1>4 DEF TaskInv, Acted, Batched
<1>8. TaskInv(t)'
  BY <1>5, <1>6, <1>7 DEF TaskInv
<1> QED
  BY <1>2, <1>3, <1>8, TasksApart

\* The files batch fits the channel from its first file.
LEMMA BatchFits ==
  ASSUME NEW n \in Nat, NEW b, b = Batch(n)
  PROVE  /\ b \in BatchRecord /\ b.rows = b.todos
         /\ 2 * b.left <= MaxPending /\ b.processed + b.skipped + b.deferred + b.left = n
<1>1. PICK m : m = MinOf(n, MaxFiles)
  OBVIOUS
<1>2. m \in Nat /\ m <= n /\ m <= MaxFiles /\ n - m \in Nat /\ MaxFiles \in Nat /\ MaxPending \in Nat
  BY <1>1, WorkerAssumption DEF MinOf
<1>3. b = [left |-> m, rows |-> 0, todos |-> 0, processed |-> 0, skipped |-> 0, deferred |-> n - m]
  BY <1>1 DEF Batch, NoBatch
<1>4. b \in BatchRecord /\ b.left = m /\ b.rows = 0 /\ b.todos = 0 /\ b.processed = 0 /\ b.skipped = 0 /\ b.deferred = n - m
  BY <1>2, <1>3 DEF BatchRecord
<1>5. 2 * m <= MaxPending
  BY <1>2, WorkerAssumption
<1>6. 0 + 0 + (n - m) + m = n
  BY <1>2
<1> QED
  BY <1>4, <1>5, <1>6

LEMMA DispatchStep == ASSUME WorkerInv, NEW t \in Tasks, Dispatch(t) PROVE WorkerInv'
<1>0. /\ step[t] = "plugin" /\ UNCHANGED <<input, gates, permitted, acts, pending>> /\ TaskInv(t)
      /\ fetch[t] \in FetchRecord /\ indexing[t] \in BatchRecord /\ input[t] \in Inputs
      /\ acts[t] = {} /\ pending[t] = 0
  BY DEF Dispatch, WorkerInv, WorkerTypes, TaskInv, InLine, Acted
<1>f. input[t].files \in Nat /\ Target(t) \in Hosts /\ MaxPending \in Nat
  BY <1>0, WorkerAssumption DEF Target
<1>a. ASSUME NEW s \in {"batch", "fetching", "drafting", "mapping", "directive"},
             NEW f \in FetchRecord, NEW b \in BatchRecord,
             step' = [step EXCEPT ![t] = s], fetch' = [fetch EXCEPT ![t] = f], indexing' = [indexing EXCEPT ![t] = b],
             s = "fetching" => Plugin(t) = "fetch",
             s = "drafting" => Plugin(t) = "draft",
             s = "mapping" => Plugin(t) = "map",
             s = "batch" => Plugin(t) = "index",
             s = "directive" => Plugin(t) # "index",
             f = fetch[t] \/ (~f.internal /\ f.host \in Hosts /\ f.stage = "host"),
             b.rows = b.todos,
             s = "batch" => /\ 2 * b.left <= MaxPending
                            /\ b.processed + b.skipped + b.deferred + b.left = input[t].files
      PROVE  WorkerInv'
  <2>1. WorkerTypes'
    BY <1>0, <1>a DEF WorkerInv, WorkerTypes
  <2>2. \A u \in Tasks \ {t} : TaskRows(u)' = TaskRows(u)
    BY <1>0, <1>a DEF WorkerInv, WorkerTypes, TaskRows
  <2>3. step'[t] = s /\ fetch'[t] = f /\ indexing'[t] = b
    BY <1>a DEF WorkerInv, WorkerTypes
  <2>4. InLine(t)'
    BY <1>0, <2>3 DEF TaskInv, InLine
  <2>5. OnItsWay(t)'
    BY <1>0, <1>a, <2>3 DEF OnItsWay, Plugin
  <2>6. Vetting(t)'
    BY <1>0, <1>a, <2>3 DEF TaskInv, Vetting, Directive
  <2>7. Acted(t)'
    BY <1>0, <2>3 DEF TaskInv, Acted
  <2>8. 0 + 2 * b.left = 2 * b.left
    BY DEF BatchRecord
  <2>9. Batched(t)'
    BY <1>0, <1>a, <2>3, <2>8 DEF Batched
  <2>10. TaskInv(t)'
    BY <2>4, <2>5, <2>6, <2>7, <2>9 DEF TaskInv
  <2> QED
    BY <2>1, <2>2, <2>10, TasksApart
<1>r. indexing[t].rows = indexing[t].todos /\ indexing = [indexing EXCEPT ![t] = indexing[t]] /\ fetch = [fetch EXCEPT ![t] = fetch[t]]
  BY <1>0 DEF TaskInv, Batched, WorkerInv, WorkerTypes
<1>1. CASE Plugin(t) = "index"
  <2>1. PICK b : b = Batch(input[t].files)
    OBVIOUS
  <2>2. b \in BatchRecord /\ b.rows = b.todos /\ 2 * b.left <= MaxPending
        /\ b.processed + b.skipped + b.deferred + b.left = input[t].files
    BY <1>f, <2>1, BatchFits
  <2>3. step' = [step EXCEPT ![t] = "batch"] /\ indexing' = [indexing EXCEPT ![t] = b] /\ fetch' = fetch
    BY <1>1, <2>1 DEF Dispatch, At
  <2> QED
    BY <1>0, <1>1, <1>r, <1>a, <2>2, <2>3
<1>2. CASE Plugin(t) = "fetch"
  <2>1. PICK f : f = [host |-> Target(t), found |-> Nowhere, hops |-> 0, internal |-> FALSE, stage |-> "host"]
    OBVIOUS
  <2>2. f \in FetchRecord /\ ~f.internal /\ f.host \in Hosts /\ f.stage = "host"
    BY <1>f, <2>1 DEF FetchRecord
  <2>3. step' = [step EXCEPT ![t] = "fetching"] /\ indexing' = indexing /\ fetch' = [fetch EXCEPT ![t] = f]
    BY <1>2, <2>1 DEF Dispatch, At, BeginFetch
  <2> QED
    BY <1>0, <1>2, <1>r, <1>a, <2>2, <2>3
<1>3. CASE Plugin(t) = "draft"
  <2>1. step' = [step EXCEPT ![t] = "drafting"] /\ indexing' = indexing /\ fetch' = fetch
    BY <1>3 DEF Dispatch, At
  <2> QED
    BY <1>0, <1>3, <1>r, <1>a, <2>1
<1>5. CASE Plugin(t) = "map"
  <2>1. step' = [step EXCEPT ![t] = "mapping"] /\ indexing' = indexing /\ fetch' = fetch
    BY <1>5 DEF Dispatch, At
  <2> QED
    BY <1>0, <1>5, <1>r, <1>a, <2>1
<1>4. CASE Plugin(t) \notin {"index", "fetch", "draft", "map"}
  <2>1. step' = [step EXCEPT ![t] = "directive"] /\ indexing' = indexing /\ fetch' = fetch
    BY <1>4 DEF Dispatch, At
  <2> QED
    BY <1>0, <1>4, <1>r, <1>a, <2>1
<1> QED
  BY <1>1, <1>2, <1>3, <1>4, <1>5

LEMMA IndexFileStep ==
  ASSUME WorkerInv, NEW t \in Tasks, NEW readable \in BOOLEAN, IndexFile(t, readable)
  PROVE  WorkerInv'
<1>0. /\ step[t] = "batch" /\ UNCHANGED <<input, step, gates, permitted, fetch, acts>> /\ TaskInv(t)
      /\ indexing[t] \in BatchRecord /\ pending[t] \in Nat /\ indexing[t].left > 0
      /\ pending[t] + 2 * indexing[t].left <= MaxPending /\ MaxPending \in Nat
  BY WorkerAssumption DEF IndexFile, WorkerInv, WorkerTypes, TaskInv, Batched
<1>i. input[t].files \in Nat
  BY <1>0, WorkerAssumption DEF TaskInv, InLine
<1>1. PICK o : o = indexing[t]
  OBVIOUS
<1>2. /\ o.left \in Nat /\ o.rows \in Nat /\ o.todos \in Nat /\ o.processed \in Nat /\ o.skipped \in Nat /\ o.deferred \in Nat
      /\ o.left > 0 /\ pending[t] + 2 * o.left <= MaxPending
      /\ o.rows = o.todos /\ o.processed + o.skipped + o.deferred + o.left = input[t].files
  BY <1>0, <1>1 DEF BatchRecord, TaskInv, Batched
<1>3. Fits(t, 2)
  BY <1>0, <1>2 DEF Fits
<1>4. PICK b, p :
        /\ b \in BatchRecord /\ p \in Nat
        /\ indexing' = [indexing EXCEPT ![t] = b] /\ pending' = [pending EXCEPT ![t] = p]
        /\ b.rows = b.todos /\ b.left = o.left - 1 /\ p <= pending[t] + 2
        /\ b.processed + b.skipped + b.deferred = o.processed + o.skipped + o.deferred + 1
  <2>1. CASE ~readable \/ ~Fits(t, 1)
    <3>1. PICK b : b = [o EXCEPT !.left = @ - 1, !.skipped = @ + 1]
      OBVIOUS
    <3>2. b = [left |-> o.left - 1, rows |-> o.rows, todos |-> o.todos, processed |-> o.processed,
               skipped |-> o.skipped + 1, deferred |-> o.deferred]
      BY <1>0, <1>1, <3>1 DEF BatchRecord
    <3>3. /\ b \in BatchRecord /\ b.rows = b.todos /\ b.left = o.left - 1
          /\ b.processed + b.skipped + b.deferred = o.processed + o.skipped + o.deferred + 1
      BY <1>2, <3>2 DEF BatchRecord
    <3>4. [[indexing[t] EXCEPT !.left = @ - 1] EXCEPT !.skipped = @ + 1] = b
      BY <1>0, <1>1, <3>1 DEF BatchRecord
    <3>5. indexing' = [indexing EXCEPT ![t] = b] /\ pending' = [pending EXCEPT ![t] = pending[t]]
      BY <2>1, <3>4 DEF IndexFile, WorkerInv, WorkerTypes
    <3>6. pending[t] <= pending[t] + 2
      BY <1>0
    <3> QED
      BY <1>0, <3>3, <3>5, <3>6
  <2>2. CASE readable /\ Fits(t, 1)
    <3>1. PICK b : b = [o EXCEPT !.left = @ - 1, !.rows = @ + 1, !.todos = @ + 1, !.processed = @ + 1]
      OBVIOUS
    <3>2. b = [left |-> o.left - 1, rows |-> o.rows + 1, todos |-> o.todos + 1, processed |-> o.processed + 1,
               skipped |-> o.skipped, deferred |-> o.deferred]
      BY <1>0, <1>1, <3>1 DEF BatchRecord
    <3>3. /\ b \in BatchRecord /\ b.rows = b.todos /\ b.left = o.left - 1
          /\ b.processed + b.skipped + b.deferred = o.processed + o.skipped + o.deferred + 1
      BY <1>2, <3>2 DEF BatchRecord
    <3>4. [[indexing[t] EXCEPT !.left = @ - 1] EXCEPT !.rows = @ + 1, !.todos = @ + 1, !.processed = @ + 1] = b
      BY <1>0, <1>1, <3>1 DEF BatchRecord
    <3>5. indexing' = [indexing EXCEPT ![t] = b] /\ pending' = [pending EXCEPT ![t] = pending[t] + 2]
      BY <1>3, <2>2, <3>4 DEF IndexFile
    <3>6. pending[t] + 2 \in Nat /\ pending[t] + 2 <= pending[t] + 2
      BY <1>0
    <3> QED
      BY <3>3, <3>5, <3>6
  <2> QED
    BY <2>1, <2>2
<1>5. WorkerTypes'
  BY <1>0, <1>4 DEF WorkerInv, WorkerTypes
<1>6. \A u \in Tasks \ {t} : TaskRows(u)' = TaskRows(u)
  BY <1>0, <1>4 DEF WorkerInv, WorkerTypes, TaskRows
<1>7. indexing'[t] = b /\ pending'[t] = p
  BY <1>4 DEF WorkerInv, WorkerTypes
<1>8. InLine(t)' /\ OnItsWay(t)' /\ Vetting(t)'
  BY <1>0 DEF TaskInv, InLine, OnItsWay, Vetting, Plugin, Directive
<1>9. Acted(t)'
  BY <1>0 DEF TaskInv, Acted, Licensed, Plugin, Directive
<1>10. p + 2 * b.left <= MaxPending /\ b.processed + b.skipped + b.deferred + b.left = input[t].files
  BY <1>0, <1>2, <1>4 DEF BatchRecord
<1>11. Batched(t)'
  BY <1>0, <1>4, <1>7, <1>10 DEF Batched
<1>12. TaskInv(t)'
  BY <1>8, <1>9, <1>11 DEF TaskInv
<1> QED
  BY <1>5, <1>6, <1>12, TasksApart

LEMMA EndBatchStep == ASSUME WorkerInv, NEW t \in Tasks, EndBatch(t) PROVE WorkerInv'
<1>0. /\ step[t] = "batch" /\ step' = [step EXCEPT ![t] = "succeeded"] /\ TaskInv(t)
      /\ UNCHANGED <<input, gates, permitted, fetch, acts, indexing, pending>>
      /\ indexing[t] \in BatchRecord /\ indexing[t].left = 0
  BY DEF EndBatch, At, WorkerInv, WorkerTypes
<1>1. WorkerTypes'
  BY <1>0 DEF WorkerInv, WorkerTypes
<1>2. \A u \in Tasks \ {t} : TaskRows(u)' = TaskRows(u)
  BY <1>0 DEF WorkerInv, WorkerTypes, TaskRows
<1>3. step'[t] = "succeeded"
  BY <1>0 DEF WorkerInv, WorkerTypes
<1>4. InLine(t)' /\ OnItsWay(t)' /\ Vetting(t)' /\ Acted(t)'
  BY <1>0, <1>3 DEF TaskInv, InLine, OnItsWay, Vetting, Acted, Licensed, Plugin, Directive
<1>5. Batched(t)'
  BY <1>0, <1>3 DEF TaskInv, Batched, BatchRecord, Plugin
<1>6. TaskInv(t)'
  BY <1>4, <1>5 DEF TaskInv
<1> QED
  BY <1>1, <1>2, <1>6, TasksApart

\* A task ends, or goes on to the embedding of its map, and it is not one of a batch.
LEMMA EndsStep ==
  ASSUME WorkerInv, NEW t \in Tasks, NEW s \in {"succeeded", "failed", "embedding"}, NEW p \in Nat,
         NEW a \in SUBSET ActRecord, s = "embedding" => Plugin(t) = "map",
         step[t] \notin {"queued", "gating", "plugin", "batch", "failed"}, s = "succeeded" => Plugin(t) # "index",
         step' = [step EXCEPT ![t] = s], pending' = [pending EXCEPT ![t] = p],
         acts' = [acts EXCEPT ![t] = a],
         \A x \in a : x \in acts[t] \/ (x.kind # "request" /\ Licensed(t, x)),
         UNCHANGED <<input, gates, permitted, fetch, indexing>>
  PROVE  WorkerInv'
<1>0. TaskInv(t)
  BY DEF WorkerInv
<1>1. WorkerTypes'
  BY DEF WorkerInv, WorkerTypes
<1>2. \A u \in Tasks \ {t} : TaskRows(u)' = TaskRows(u)
  BY DEF WorkerInv, WorkerTypes, TaskRows
<1>3. step'[t] = s /\ pending'[t] = p /\ acts'[t] = a
  BY DEF WorkerInv, WorkerTypes
<1>4. InLine(t)'
  BY <1>0, <1>3 DEF TaskInv, InLine
<1>8. OnItsWay(t)' /\ Vetting(t)'
  BY <1>0, <1>3 DEF TaskInv, OnItsWay, Vetting, Plugin, Directive
<1>5. Acted(t)'
  <2>1. /\ Directive(t)' = Directive(t) /\ \A x \in a : Licensed(t, x)' <=> Licensed(t, x)
        /\ s \notin {"queued", "gating", "plugin"}
    BY DEF Licensed, Plugin, Directive
  <2> QED
    BY <1>0, <1>3, <2>1 DEF TaskInv, Acted
<1>6. Batched(t)'
  BY <1>0, <1>3 DEF TaskInv, Batched, Plugin
<1>7. TaskInv(t)'
  BY <1>4, <1>5, <1>6, <1>8 DEF TaskInv
<1> QED
  BY <1>1, <1>2, <1>7, TasksApart

\* What ends a task as it stands leaves its rows in place.
LEMMA SameRow ==
  ASSUME WorkerInv, NEW t \in Tasks
  PROVE  /\ acts[t] \in SUBSET ActRecord /\ acts = [acts EXCEPT ![t] = acts[t]]
         /\ pending[t] \in Nat /\ pending = [pending EXCEPT ![t] = pending[t]] /\ pending[t] + 1 \in Nat /\ pending[t] + 2 \in Nat
         /\ fetch[t] \in FetchRecord /\ fetch = [fetch EXCEPT ![t] = fetch[t]] /\ TaskInv(t)
<1>1. acts[t] \in SUBSET ActRecord /\ acts = [acts EXCEPT ![t] = acts[t]]
  BY DEF WorkerInv, WorkerTypes
<1>2. pending[t] \in Nat /\ pending = [pending EXCEPT ![t] = pending[t]]
  BY DEF WorkerInv, WorkerTypes
<1>3. fetch[t] \in FetchRecord /\ fetch = [fetch EXCEPT ![t] = fetch[t]] /\ TaskInv(t)
  BY DEF WorkerInv, WorkerTypes
<1>4. pending[t] + 1 \in Nat /\ pending[t] + 2 \in Nat
  BY <1>2
<1> QED
  BY <1>1, <1>2, <1>3, <1>4

\* What a task does without a request is added to its acts.
LEMMA Doing ==
  ASSUME WorkerInv, NEW t \in Tasks, NEW kinds \in SUBSET {"shell", "child", "model", "file"}, Does(t, kinds),
         \A k \in kinds : \A x \in ActRecord : x.kind = k => Licensed(t, x)
  PROVE  \E a \in SUBSET ActRecord : /\ acts' = [acts EXCEPT ![t] = a]
                                     /\ \A x \in a : x \in acts[t] \/ (x.kind # "request" /\ Licensed(t, x))
<1>1. PICK d : d = Did(kinds)
  OBVIOUS
<1>2. \A x \in d : x \in ActRecord /\ x.kind \in kinds
  BY <1>1 DEF Did, ActRecord
<1>3. PICK a : a = acts[t] \cup d
  OBVIOUS
<1>4. acts' = [acts EXCEPT ![t] = a]
  BY <1>1, <1>3 DEF Does
<1>5. a \in SUBSET ActRecord
  BY <1>2, <1>3, SameRow
<1>6. \A x \in a : x \in acts[t] \/ (x.kind # "request" /\ Licensed(t, x))
  BY <1>2, <1>3
<1> QED
  BY <1>4, <1>5, <1>6

LEMMA PostingEnds ==
  ASSUME WorkerInv, NEW t \in Tasks, NEW good \in BOOLEAN, PostAndEnd(t, good),
         step[t] \in {"drafting", "embedding"}, NEW a \in SUBSET ActRecord, acts' = [acts EXCEPT ![t] = a],
         \A x \in a : x \in acts[t] \/ (x.kind # "request" /\ Licensed(t, x)),
         UNCHANGED <<input, gates, permitted, fetch, indexing>>
  PROVE  WorkerInv'
<1>0. Plugin(t) # "index"
  BY DEF WorkerInv, TaskInv, OnItsWay
<1>1. PICK s, p : /\ s = IF good /\ Fits(t, 1) THEN "succeeded" ELSE "failed"
                  /\ p = IF good /\ Fits(t, 1) THEN pending[t] + 1 ELSE pending[t]
  OBVIOUS
<1>2. s \in {"succeeded", "failed"} /\ p \in Nat
  BY <1>1, SameRow
<1>3. step' = [step EXCEPT ![t] = s] /\ pending' = [pending EXCEPT ![t] = p]
  BY <1>1, SameRow DEF PostAndEnd, At
<1> QED
  BY <1>0, <1>2, <1>3, EndsStep

LEMMA PluginSteps ==
  ASSUME WorkerInv, NEW t \in Tasks, NEW b \in BOOLEAN, NEW done \in {{}, {"model"}, {"model", "file"}},
         Draft(t, done) \/ MapCode(t, b) \/ EmbedMap(t, b)
  PROVE  WorkerInv'
<1>0. TaskInv(t)
  BY SameRow
<1>1. CASE Draft(t, done)
  <2>1. step[t] = "drafting" /\ Plugin(t) = "draft" /\ UNCHANGED <<input, gates, permitted, fetch, indexing>>
    BY <1>0, <1>1 DEF Draft, TaskInv, OnItsWay
  <2>2. Does(t, done) /\ done \in SUBSET {"shell", "child", "model", "file"}
    BY <1>1 DEF Draft
  <2>3. \A k \in done : \A x \in ActRecord : x.kind = k => Licensed(t, x)
    BY <2>1 DEF Licensed
  <2>4. PICK a \in SUBSET ActRecord : /\ acts' = [acts EXCEPT ![t] = a]
                                     /\ \A x \in a : x \in acts[t] \/ (x.kind # "request" /\ Licensed(t, x))
    BY <2>2, <2>3, Doing
  <2>5. PICK good : good = ("file" \in done)
    OBVIOUS
  <2>6. good \in BOOLEAN /\ PostAndEnd(t, good)
    <3>1. PostAndEnd(t, "file" \in done)
      BY <1>1 DEF Draft
    <3>2. good \in BOOLEAN
      BY <2>5
    <3>3. PostAndEnd(t, good)
      BY <2>5, <3>1, Zenon
    <3> QED
      BY <3>2, <3>3
  <2> QED
    BY <2>1, <2>4, <2>6, PostingEnds
<1>2. CASE MapCode(t, b)
  <2>1. step[t] = "mapping" /\ Plugin(t) = "map" /\ UNCHANGED <<input, gates, permitted, fetch, indexing, pending>>
    BY <1>0, <1>2 DEF MapCode, TaskInv, OnItsWay
  <2>2. PICK kinds : kinds = {"child"}
    OBVIOUS
  <2>3. Does(t, kinds) /\ kinds \in SUBSET {"shell", "child", "model", "file"}
    BY <1>2, <2>2 DEF MapCode
  <2>4. \A k \in kinds : \A x \in ActRecord : x.kind = k => Licensed(t, x)
    BY <2>1, <2>2 DEF Licensed
  <2>5. PICK a \in SUBSET ActRecord : /\ acts' = [acts EXCEPT ![t] = a]
                                     /\ \A x \in a : x \in acts[t] \/ (x.kind # "request" /\ Licensed(t, x))
    BY <2>3, <2>4, Doing
  <2>6. PICK s : s = IF b THEN "embedding" ELSE "failed"
    OBVIOUS
  <2>7. s \in {"succeeded", "failed", "embedding"} /\ s # "succeeded" /\ step' = [step EXCEPT ![t] = s]
    BY <1>2, <2>6 DEF MapCode, At
  <2>8. pending' = [pending EXCEPT ![t] = pending[t]] /\ pending[t] \in Nat
    BY <2>1, SameRow
  <2> QED
    BY <2>1, <2>5, <2>7, <2>8, EndsStep
<1>3. CASE EmbedMap(t, b)
  <2>1. step[t] = "embedding" /\ Plugin(t) = "map" /\ UNCHANGED <<input, gates, permitted, fetch, indexing>>
    BY <1>0, <1>3 DEF EmbedMap, TaskInv, OnItsWay
  <2>2. PICK kinds : kinds = {"model"}
    OBVIOUS
  <2>3. Does(t, kinds) /\ kinds \in SUBSET {"shell", "child", "model", "file"}
    BY <1>3, <2>2 DEF EmbedMap
  <2>4. \A k \in kinds : \A x \in ActRecord : x.kind = k => Licensed(t, x)
    BY <2>1, <2>2 DEF Licensed
  <2>5. PICK a \in SUBSET ActRecord : /\ acts' = [acts EXCEPT ![t] = a]
                                     /\ \A x \in a : x \in acts[t] \/ (x.kind # "request" /\ Licensed(t, x))
    BY <2>3, <2>4, Doing
  <2>6. PostAndEnd(t, b)
    BY <1>3 DEF EmbedMap
  <2> QED
    BY <2>1, <2>5, <2>6, PostingEnds
<1> QED
  BY <1>1, <1>2, <1>3

LEMMA DirectiveSteps ==
  ASSUME WorkerInv, NEW t \in Tasks, NEW b \in BOOLEAN, Verify(t, b) \/ Shell(t, b) \/ ScrapeByBrowser(t, b) \/ Echo(t)
  PROVE  WorkerInv'
<1>0. step[t] = "directive" /\ Plugin(t) # "index" /\ UNCHANGED <<input, gates, permitted, fetch, indexing, pending>>
  BY DEF Verify, Shell, ScrapeByBrowser, Echo, WorkerInv, TaskInv, OnItsWay
<1>p. pending' = [pending EXCEPT ![t] = pending[t]]
  BY <1>0, SameRow
<1>1. CASE Verify(t, b)
  <2>1. PICK s : s = IF b THEN "succeeded" ELSE "failed"
    OBVIOUS
  <2>2. s \in {"succeeded", "failed"} /\ step' = [step EXCEPT ![t] = s] /\ acts' = acts
    BY <1>1, <2>1 DEF Verify, At
  <2>3. acts' = [acts EXCEPT ![t] = acts[t]]
    BY <2>2, SameRow
  <2> QED
    BY <1>0, <1>p, <2>2, <2>3, SameRow, EndsStep
<1>2. CASE Shell(t, b) \/ ScrapeByBrowser(t, b)
  <2>1. PICK s : s = IF b THEN "succeeded" ELSE "failed"
    OBVIOUS
  <2>2. s \in {"succeeded", "failed"} /\ step' = [step EXCEPT ![t] = s]
        /\ Does(t, {"shell"}) /\ Directive(t) \in {"shell", "scrape"}
    BY <1>2, <2>1 DEF Shell, ScrapeByBrowser, At
  <2>3. PICK kinds : kinds = {"shell"}
    OBVIOUS
  <2>4. Does(t, kinds) /\ kinds \in SUBSET {"shell", "child", "model", "file"}
    BY <2>2, <2>3
  <2>5. TaskInv(t)
    BY SameRow
  <2>6. Gates(input[t], Directive(t)) /\ Directive(t) \in Actions
    BY <2>2 DEF Gates, Directive, Actions
  <2>7. Directive(t) \in permitted[t]
    BY <1>0, <2>5, <2>6 DEF TaskInv, InLine
  <2>8. \A k \in kinds : \A x \in ActRecord : x.kind = k => Licensed(t, x)
    BY <2>2, <2>3, <2>7 DEF Licensed
  <2>9. PICK a \in SUBSET ActRecord : /\ acts' = [acts EXCEPT ![t] = a]
                                     /\ \A x \in a : x \in acts[t] \/ (x.kind # "request" /\ Licensed(t, x))
    BY <2>4, <2>8, Doing
  <2> QED
    BY <1>0, <1>p, <2>2, <2>9, SameRow, EndsStep
<1>3. CASE Echo(t)
  <2>1. step' = [step EXCEPT ![t] = "succeeded"] /\ acts' = acts
    BY <1>3 DEF Echo, At
  <2>2. acts' = [acts EXCEPT ![t] = acts[t]]
    BY <2>1, SameRow
  <2> QED
    BY <1>0, <1>p, <2>1, <2>2, SameRow, EndsStep
<1> QED
  BY <1>1, <1>2, <1>3

\* What a fetch may become: of a vetted host for the stage it is at.
Vettable(t, f) ==
  /\ f.internal => Directive(t) = "scrape"
  /\ f.stage # "none" => f.host \in Hosts
  /\ f.internal /\ f.stage \in {"switch", "address", "policy", "request"} => f.host \in Loopback
  /\ ~f.internal /\ f.stage \in {"policy", "request"} => f.found = "public"

\* What a fetch past its gates has the task do.
Requested(t, a) ==
  \A x \in a : x \in acts[t] \/ (/\ fetch[t].stage = "request" /\ x.kind = "request"
                                  /\ x.host = fetch[t].host /\ x.found = fetch[t].found)

\* A step of a governed fetch: the task goes on with it or ends.
LEMMA FetchStep ==
  ASSUME WorkerInv, NEW t \in Tasks, NEW f \in FetchRecord, NEW s, NEW p \in Nat,
         NEW a \in SUBSET ActRecord,
         step[t] \in {"fetching", "scraping"}, s \in {step[t], "succeeded", "failed"},
         Vettable(t, f), Requested(t, a),
         step' = [step EXCEPT ![t] = s], fetch' = [fetch EXCEPT ![t] = f],
         pending' = [pending EXCEPT ![t] = p], acts' = [acts EXCEPT ![t] = a],
         UNCHANGED <<input, gates, permitted, indexing>>
  PROVE  WorkerInv'
<1>0. TaskInv(t) /\ s \in {"fetching", "scraping", "succeeded", "failed"}
  BY DEF WorkerInv
<1>1. WorkerTypes'
  BY <1>0 DEF WorkerInv, WorkerTypes
<1>2. \A u \in Tasks \ {t} : TaskRows(u)' = TaskRows(u)
  BY DEF WorkerInv, WorkerTypes, TaskRows
<1>3. step'[t] = s /\ pending'[t] = p /\ acts'[t] = a /\ fetch'[t] = f
  BY DEF WorkerInv, WorkerTypes
<1>4. InLine(t)'
  BY <1>0, <1>3 DEF TaskInv, InLine
<1>5. OnItsWay(t)'
  BY <1>0, <1>3 DEF TaskInv, OnItsWay, Plugin, Directive
<1>6. Vetting(t)'
  BY <1>0, <1>3 DEF Vettable, Vetting, Directive
<1>7. permitted[t] \cap {"fetch", "scrape"} # {}
  <2>1. Gates(input[t], "fetch") \/ Gates(input[t], "scrape")
    BY <1>0 DEF TaskInv, OnItsWay, Gates, NeedsNetwork, Plugin, Directive
  <2> QED
    BY <1>0, <2>1 DEF TaskInv, InLine, Actions
<1>8. fetch[t].stage = "request" =>
        fetch[t].found = "public" \/ (Directive(t) = "scrape" /\ fetch[t].host \in Loopback)
  BY <1>0 DEF TaskInv, Vetting
<1>9. Acted(t)'
  <2>1. ASSUME NEW x \in a
        PROVE  /\ Licensed(t, x)
               /\ x.kind = "request" => x.found = "public" \/ (Directive(t) = "scrape" /\ x.host \in Loopback)
    <3>1. CASE x \in acts[t]
      BY <1>0, <3>1 DEF TaskInv, Acted
    <3>2. CASE fetch[t].stage = "request" /\ x.kind = "request" /\ x.host = fetch[t].host /\ x.found = fetch[t].found
      BY <1>7, <1>8, <3>2 DEF Licensed
    <3> QED
      BY <2>1, <3>1, <3>2 DEF Requested
  <2>2. Directive(t)' = Directive(t) /\ \A x \in a : Licensed(t, x)' <=> Licensed(t, x)
    BY DEF Directive, Licensed, Plugin
  <2> QED
    BY <1>0, <1>3, <2>1, <2>2 DEF Acted
<1>10. Batched(t)'
  BY <1>0, <1>3, <1>5 DEF TaskInv, Batched, OnItsWay, Plugin
<1>11. TaskInv(t)'
  BY <1>4, <1>5, <1>6, <1>9, <1>10 DEF TaskInv
<1> QED
  BY <1>1, <1>2, <1>11, TasksApart

\* A fetch ends its task, or goes on to the next gate.
LEMMA Staged ==
  ASSUME WorkerInv, NEW t \in Tasks, NEW s, NEW p \in Nat,
         NEW stage \in {"none", "host", "switch", "address", "policy", "request"},
         NEW a \in SUBSET ActRecord,
         step[t] \in {"fetching", "scraping"}, s \in {step[t], "succeeded", "failed"},
         step' = [step EXCEPT ![t] = s], fetch' = [fetch EXCEPT ![t].stage = stage],
         pending' = [pending EXCEPT ![t] = p], acts' = [acts EXCEPT ![t] = a],
         Requested(t, a),
         stage = "none" \/ fetch[t].stage # "none",
         fetch[t].internal /\ stage \in {"switch", "address", "policy", "request"} => fetch[t].host \in Loopback,
         ~fetch[t].internal /\ stage \in {"policy", "request"} => fetch[t].found = "public",
         UNCHANGED <<input, gates, permitted, indexing>>
  PROVE  WorkerInv'
<1>1. fetch[t] \in FetchRecord /\ TaskInv(t)
  BY SameRow
<1>2. PICK o, f : o = fetch[t] /\ f = [o EXCEPT !.stage = stage]
  OBVIOUS
<1>6. /\ o \in FetchRecord /\ f = [o EXCEPT !.stage = stage]
      /\ stage \in {"none", "host", "switch", "address", "policy", "request"}
  BY <1>1, <1>2
<1>7. f \in FetchRecord /\ f.stage = stage /\ f.host = o.host /\ f.found = o.found /\ f.internal = o.internal
  BY ONLY <1>6 DEF FetchRecord
<1>3. f \in FetchRecord /\ f.stage = stage /\ f.host = fetch[t].host /\ f.found = fetch[t].found /\ f.internal = fetch[t].internal
  BY <1>2, <1>7
<1>4. fetch' = [fetch EXCEPT ![t] = f]
  BY <1>2
<1>5. Vettable(t, f)
  BY <1>1, <1>3 DEF Vettable, TaskInv, Vetting
<1> QED
  BY <1>3, <1>4, <1>5, FetchStep

\* A fetch begins with the host gate.
LEMMA Begun ==
  ASSUME WorkerInv, NEW t \in Tasks, NEW internal \in BOOLEAN, step[t] \in {"fetching", "scraping"},
         internal => Directive(t) = "scrape",
         BeginFetch(t, Target(t), internal), UNCHANGED <<input, step, gates, permitted, indexing, pending>>,
         NEW a \in SUBSET ActRecord,
         acts' = [acts EXCEPT ![t] = a], Requested(t, a)
  PROVE  WorkerInv'
<1>1. PICK f : f = [host |-> Target(t), found |-> Nowhere, hops |-> 0, internal |-> internal, stage |-> "host"]
  OBVIOUS
<1>2. input[t] \in Inputs
  BY SameRow DEF TaskInv, InLine
<1>3. Target(t) \in Hosts
  BY <1>2, WorkerAssumption DEF Target
<1>4. f \in FetchRecord /\ f.host \in Hosts /\ f.internal = internal /\ f.stage = "host"
  BY <1>1, <1>3 DEF FetchRecord
<1>5. Vettable(t, f)
  BY <1>4 DEF Vettable
<1>6. fetch' = [fetch EXCEPT ![t] = f]
  BY <1>1 DEF BeginFetch
<1>7. step' = [step EXCEPT ![t] = step[t]] /\ pending' = [pending EXCEPT ![t] = pending[t]]
  BY DEF WorkerInv, WorkerTypes
<1> QED
  BY <1>4, <1>5, <1>6, <1>7, SameRow, FetchStep

\* A gate blocks the fetch, or lets it through to the next one.
LEMMA BlockedStep ==
  ASSUME WorkerInv, NEW t \in Tasks, NEW reason \in {"internal-not-loopback", "kill-switch", "address", "policy", "response"}, step[t] \in {"fetching", "scraping"}, Blocked(t, reason),
         NEW a \in SUBSET ActRecord,
         acts' = [acts EXCEPT ![t] = a], Requested(t, a),
         UNCHANGED <<input, gates, permitted, indexing, pending>>
  PROVE  WorkerInv'
<1>1. CASE step[t] = "scraping" /\ fetch[t].internal /\ reason = "internal-not-loopback"
  <2>1. BeginFetch(t, Target(t), FALSE) /\ UNCHANGED step
    BY <1>1 DEF Blocked
  <2>2. PICK no : no = FALSE
    OBVIOUS
  <2>3. no \in BOOLEAN /\ ~no /\ BeginFetch(t, Target(t), no)
    BY <2>1, <2>2
  <2> QED
    BY <2>1, <2>3, Begun
<1>2. CASE ~(step[t] = "scraping" /\ fetch[t].internal /\ reason = "internal-not-loopback")
  <2>1. fetch' = [fetch EXCEPT ![t].stage = "none"] /\ step' = [step EXCEPT ![t] = "failed"]
    BY <1>2 DEF Blocked, At
  <2>2. pending' = [pending EXCEPT ![t] = pending[t]] /\ pending[t] \in Nat
    BY SameRow
  <2> QED
    BY <2>1, <2>2, Staged
<1> QED
  BY <1>1, <1>2

LEMMA AdvanceStep ==
  ASSUME WorkerInv, NEW t \in Tasks, NEW stage \in {"switch", "address", "policy", "request"},
         step[t] \in {"fetching", "scraping"}, fetch[t].stage # "none",
         Advance(t, stage), Unfetched,
         fetch[t].internal => fetch[t].host \in Loopback,
         ~fetch[t].internal /\ stage \in {"policy", "request"} => fetch[t].found = "public"
  PROVE  WorkerInv'
<1>1. fetch' = [fetch EXCEPT ![t].stage = stage]
  BY DEF Advance
<1>2. PICK a : a = acts[t]
  OBVIOUS
<1>3. a \in SUBSET ActRecord /\ acts' = [acts EXCEPT ![t] = a] /\ Requested(t, a)
  BY <1>2, SameRow DEF Unfetched, Requested
<1>4. pending' = [pending EXCEPT ![t] = pending[t]] /\ pending[t] \in Nat
  BY SameRow DEF Unfetched
<1>5. step' = [step EXCEPT ![t] = step[t]] /\ UNCHANGED <<input, gates, permitted, indexing>>
  BY DEF Advance, Unfetched, WorkerInv, WorkerTypes
<1> QED
  BY <1>1, <1>3, <1>4, <1>5, Staged

LEMMA GatesOfFetch ==
  ASSUME WorkerInv, NEW t \in Tasks, NEW b \in Addresses,
         HostGate(t) \/ KillSwitch(t) \/ AddressGate(t, b) \/ PolicyGate(t)
  PROVE  WorkerInv'
<1>0. /\ step[t] \in {"fetching", "scraping"} /\ Unfetched /\ fetch[t].stage \in {"host", "switch", "address", "policy"}
      /\ fetch[t] \in FetchRecord /\ Vetting(t)
  BY SameRow DEF HostGate, KillSwitch, AddressGate, PolicyGate, Fetching, TaskInv
<1>b. ASSUME NEW reason \in {"internal-not-loopback", "kill-switch", "address", "policy", "response"}, Blocked(t, reason) PROVE WorkerInv'
  <2>1. PICK a : a = acts[t]
    OBVIOUS
  <2>2. a \in SUBSET ActRecord /\ acts' = [acts EXCEPT ![t] = a] /\ Requested(t, a)
    BY <1>0, <2>1, SameRow DEF Unfetched, Requested
  <2>3. UNCHANGED <<input, gates, permitted, indexing, pending>>
    BY <1>0 DEF Unfetched
  <2>4. WorkerInv /\ t \in Tasks /\ step[t] \in {"fetching", "scraping"} /\ reason \in {"internal-not-loopback", "kill-switch", "address", "policy", "response"} /\ Blocked(t, reason)
    BY <1>0, <1>b
  <2> QED
    BY ONLY <2>2, <2>3, <2>4, BlockedStep
<1>1. CASE HostGate(t)
  <2>1. CASE fetch[t].internal /\ fetch[t].host \notin Loopback
    BY <1>1, <1>b, <2>1 DEF HostGate
  <2>2. CASE ~(fetch[t].internal /\ fetch[t].host \notin Loopback)
    <3>1. Advance(t, "switch")
      BY <1>1, <2>2 DEF HostGate
    <3> QED
      BY <1>0, <2>2, <3>1, AdvanceStep
  <2> QED
    BY <2>1, <2>2
<1>2. CASE KillSwitch(t)
  <2>1. CASE ~fetch[t].internal /\ ~policy.external
    BY <1>2, <1>b, <2>1 DEF KillSwitch
  <2>2. CASE ~(~fetch[t].internal /\ ~policy.external)
    <3>1. Advance(t, "address") /\ fetch[t].stage = "switch"
      BY <1>2, <2>2 DEF KillSwitch, Fetching
    <3>2. fetch[t].internal => fetch[t].host \in Loopback
      BY <1>0, <3>1 DEF Vetting
    <3> QED
      BY <1>0, <3>1, <3>2, AdvanceStep
  <2> QED
    BY <2>1, <2>2
<1>3. CASE AddressGate(t, b)
  <2>1. CASE Reachable(b, fetch[t].internal)
    <3>1. /\ step' = [step EXCEPT ![t] = step[t]] /\ fetch' = [fetch EXCEPT ![t].stage = "policy", ![t].found = b]
          /\ fetch[t].stage = "address" /\ UNCHANGED <<input, gates, permitted, indexing>>
      BY <1>0, <1>3, <2>1 DEF AddressGate, Fetching, Unfetched, WorkerInv, WorkerTypes
    <3>2. PICK o, f : o = fetch[t] /\ f = [o EXCEPT !.stage = "policy", !.found = b]
      BY Zenon
    <3>3. o \in FetchRecord
      BY <1>0, <3>2
    <3>4. f \in FetchRecord /\ f.stage = "policy" /\ f.host = o.host /\ f.found = b /\ f.internal = o.internal
      BY ONLY <3>2, <3>3, b \in Addresses DEF FetchRecord
    <3>5. fetch' = [fetch EXCEPT ![t] = f]
      BY <3>1, <3>2
    <3>6. Vettable(t, f)
      BY <1>0, <2>1, <3>1, <3>2, <3>4 DEF Vettable, Vetting, Reachable
    <3>7. PICK a : a = acts[t]
      OBVIOUS
    <3>8. a \in SUBSET ActRecord /\ acts' = [acts EXCEPT ![t] = a] /\ Requested(t, a)
      BY <1>0, <3>7, SameRow DEF Unfetched, Requested
    <3>9. pending' = [pending EXCEPT ![t] = pending[t]] /\ pending[t] \in Nat
      BY <1>0, SameRow DEF Unfetched
    <3> QED
      BY <1>0, <3>1, <3>4, <3>5, <3>6, <3>8, <3>9, FetchStep
  <2>2. CASE ~Reachable(b, fetch[t].internal)
    BY <1>3, <1>b, <2>2 DEF AddressGate
  <2> QED
    BY <2>1, <2>2
<1>4. CASE PolicyGate(t)
  <2>1. CASE Allowed("fetch")
    <3>1. Advance(t, "request") /\ fetch[t].stage = "policy"
      BY <1>4, <2>1 DEF PolicyGate, Fetching
    <3>2. /\ fetch[t].internal => fetch[t].host \in Loopback
          /\ ~fetch[t].internal => fetch[t].found = "public"
      BY <1>0, <3>1 DEF Vetting
    <3> QED
      BY <1>0, <3>1, <3>2, AdvanceStep
  <2>2. CASE ~Allowed("fetch")
    BY <1>4, <1>b, <2>2 DEF PolicyGate
  <2> QED
    BY <2>1, <2>2
<1> QED
  BY <1>1, <1>2, <1>3, <1>4

\* A request of a vetted host.
LEMMA RequestMade ==
  ASSUME WorkerInv, NEW t \in Tasks, NEW ad \in Addresses, Fetching(t, "request"), Sends(t, ad)
  PROVE  \E a \in SUBSET ActRecord : acts' = [acts EXCEPT ![t] = a] /\ Requested(t, a)
<1>1. PICK f, x : f = fetch[t] /\ x = [kind |-> "request", host |-> f.host, found |-> f.found, reached |-> ad]
  OBVIOUS
<1>2. f \in FetchRecord /\ f.stage = "request"
  BY <1>1, SameRow DEF Fetching
<1>3. x \in ActRecord /\ x.kind = "request" /\ x.host = f.host /\ x.found = f.found
  BY <1>1, <1>2 DEF ActRecord, FetchRecord
<1>4. PICK a : a = acts[t] \cup {x}
  OBVIOUS
<1>5. acts' = [acts EXCEPT ![t] = a]
  BY <1>1, <1>4 DEF Sends
<1>6. a \in SUBSET ActRecord
  BY <1>3, <1>4, SameRow
<1>7. Requested(t, a)
  BY <1>1, <1>2, <1>3, <1>4 DEF Requested
<1> QED
  BY <1>5, <1>6, <1>7

LEMMA RequestStep ==
  ASSUME WorkerInv, NEW t \in Tasks, NEW ad \in Addresses, NEW b \in BOOLEAN, Request(t, ad, b) PROVE WorkerInv'
<1>1. Fetching(t, "request") /\ Sends(t, ad)
  BY DEF Request
<1>3. PICK a \in SUBSET ActRecord : acts' = [acts EXCEPT ![t] = a] /\ Requested(t, a)
  BY <1>1, RequestMade
<1>2. /\ step[t] \in {"fetching", "scraping"} /\ acts' = [acts EXCEPT ![t] = a]
      /\ UNCHANGED <<input, gates, permitted, indexing>>
  BY <1>3 DEF Request, Fetching
<1>4. CASE b /\ (step[t] = "scraping" \/ Fits(t, 2))
  <2>1. fetch' = [fetch EXCEPT ![t].stage = "none"] /\ step' = [step EXCEPT ![t] = "succeeded"]
    BY <1>4 DEF Request, At
  <2>2. PICK p : p = IF step[t] = "fetching" THEN pending[t] + 2 ELSE pending[t]
    OBVIOUS
  <2>3. p \in Nat
    BY <2>2, SameRow
  <2>4. pending' = [pending EXCEPT ![t] = p]
    BY <1>4, <2>2, SameRow DEF Request
  <2> QED
    BY <1>2, <1>3, <2>1, <2>3, <2>4, Staged
<1>5. CASE ~(b /\ (step[t] = "scraping" \/ Fits(t, 2)))
  <2>1. Blocked(t, "response") /\ UNCHANGED <<input, gates, permitted, indexing, pending>>
    BY <1>2, <1>5 DEF Request
  <2>2. PICK r : r = "response"
    OBVIOUS
  <2>3. r \in {"internal-not-loopback", "kill-switch", "address", "policy", "response"} /\ Blocked(t, r)
    BY <2>1, <2>2
  <2> QED
    BY <1>2, <1>3, <2>1, <2>3, BlockedStep
<1> QED
  BY <1>4, <1>5

LEMMA RedirectStep ==
  ASSUME WorkerInv, NEW t \in Tasks, NEW ad \in Addresses, NEW h \in Hosts, NEW n \in Addresses, Redirect(t, ad, h, n)
  PROVE  WorkerInv'
<1>1. Fetching(t, "request") /\ Sends(t, ad)
  BY DEF Redirect
<1>3. PICK a \in SUBSET ActRecord : acts' = [acts EXCEPT ![t] = a] /\ Requested(t, a)
  BY <1>1, RequestMade
<1>2. /\ step[t] \in {"fetching", "scraping"} /\ acts' = [acts EXCEPT ![t] = a]
      /\ UNCHANGED <<input, gates, permitted, indexing, pending>>
  BY <1>3 DEF Redirect, Fetching
<1>p. pending' = [pending EXCEPT ![t] = pending[t]] /\ pending[t] \in Nat /\ fetch[t] \in FetchRecord /\ TaskInv(t)
  BY <1>2, SameRow
<1>4. CASE fetch[t].hops < MaxRedirects /\ Vetted(h, n, fetch[t].internal)
  <2>1. PICK o, f : o = fetch[t] /\ f = [o EXCEPT !.host = h, !.found = n, !.hops = @ + 1]
    BY Zenon
  <2>8. o \in FetchRecord
    BY <1>p, <2>1
  <2>9. o.hops \in Nat
    BY <2>8 DEF FetchRecord
  <2>2. o \in FetchRecord /\ o.hops + 1 \in Nat
    BY <2>8, <2>9
  <2>3. f = [host |-> h, found |-> n, hops |-> o.hops + 1, internal |-> o.internal, stage |-> o.stage]
    BY <2>1, <2>2 DEF FetchRecord
  <2>4. f \in FetchRecord /\ f.host = h /\ f.found = n /\ f.internal = fetch[t].internal /\ f.stage = fetch[t].stage
    BY <2>1, <2>2, <2>3 DEF FetchRecord
  <2>5. Vettable(t, f)
    BY <1>4, <1>p, <2>4 DEF Vettable, Vetted, Reachable, TaskInv, Vetting
  <2>6. fetch' = [fetch EXCEPT ![t] = f] /\ step' = step
    BY <1>4, <2>1 DEF Redirect
  <2>7. step' = [step EXCEPT ![t] = step[t]]
    BY <2>6 DEF WorkerInv, WorkerTypes
  <2> QED
    BY <1>2, <1>3, <1>p, <2>4, <2>5, <2>6, <2>7, FetchStep
<1>5. CASE ~(fetch[t].hops < MaxRedirects /\ Vetted(h, n, fetch[t].internal))
  <2>1. fetch' = [fetch EXCEPT ![t].stage = "none"] /\ step' = [step EXCEPT ![t] = "failed"]
    BY <1>5 DEF Redirect, At
  <2> QED
    BY <1>2, <1>3, <1>p, <2>1, Staged
<1> QED
  BY <1>4, <1>5

LEMMA ScrapeStep == ASSUME WorkerInv, NEW t \in Tasks, Scrape(t) PROVE WorkerInv'
<1>0. /\ step[t] = "directive" /\ Directive(t) = "scrape" /\ TaskInv(t)
      /\ UNCHANGED <<input, gates, permitted, acts, indexing, pending>> /\ step' = [step EXCEPT ![t] = "scraping"]
  BY SameRow DEF Scrape, At
<1>1. PICK f : f = [host |-> Target(t), found |-> Nowhere, hops |-> 0, internal |-> TRUE, stage |-> "host"]
  OBVIOUS
<1>2. Target(t) \in Hosts
  BY <1>0, WorkerAssumption DEF Target, TaskInv, InLine
<1>3. f \in FetchRecord /\ f.host \in Hosts /\ f.stage = "host"
  BY <1>1, <1>2 DEF FetchRecord
<1>4. fetch' = [fetch EXCEPT ![t] = f]
  BY <1>1 DEF Scrape, BeginFetch
<1>5. WorkerTypes'
  BY <1>0, <1>3, <1>4 DEF WorkerInv, WorkerTypes
<1>6. \A u \in Tasks \ {t} : TaskRows(u)' = TaskRows(u)
  BY <1>0, <1>4 DEF WorkerInv, WorkerTypes, TaskRows
<1>7. step'[t] = "scraping" /\ fetch'[t] = f
  BY <1>0, <1>4 DEF WorkerInv, WorkerTypes
<1>8. InLine(t)' /\ OnItsWay(t)'
  BY <1>0, <1>7 DEF TaskInv, InLine, OnItsWay, Plugin, Directive
<1>9. Vetting(t)'
  BY <1>0, <1>1, <1>3, <1>7 DEF Vetting, Directive
<1>10. Acted(t)' /\ Batched(t)'
  BY <1>0, <1>7 DEF TaskInv, Acted, Licensed, Batched, Plugin, Directive
<1>11. TaskInv(t)'
  BY <1>8, <1>9, <1>10 DEF TaskInv
<1> QED
  BY <1>5, <1>6, <1>11, TasksApart

\* For every set of tasks, inputs, hosts and policies, and whatever the
\* settings become while a task awaits: no task reaches the network or a shell
\* before its gate has let that action through (gate-order.ts, worker.ts) but
\* by the two plugins that have no gate, a request and each of its redirects is
\* of a host that its check found outside the network or is the machine itself
\* (egress.ts), and the files batch stays within the channel.
THEOREM TaskIsSound == WorkerSpec => []TaskSound
<1>1. WorkerInit => WorkerInv
  BY WorkerBegins
<1>2. WorkerInv /\ [WorkerNext]_wvars => WorkerInv'
  <2> SUFFICES ASSUME WorkerInv, [WorkerNext]_wvars PROVE WorkerInv'
    OBVIOUS
  <2>1. CASE UNCHANGED wvars
    BY <2>1, RowsStand DEF wvars
  <2>2. ASSUME NEW p \in Policies, ChangePolicy(p) PROVE WorkerInv'
    BY <2>2, RowsStand DEF ChangePolicy
  <2>3. ASSUME NEW s \in Range(Siblings), Complete(s) PROVE WorkerInv'
    BY <2>3, RowsStand DEF Complete
  <2>4. ASSUME NEW t \in Tasks, Acknowledge(t) \/ Gate(t) \/ Dispatch(t) \/ EndBatch(t) \/ Scrape(t) PROVE WorkerInv'
    BY <2>4, AcknowledgeStep, GateStep, DispatchStep, EndBatchStep, ScrapeStep
  <2>5. ASSUME NEW t \in Tasks, HostGate(t) \/ KillSwitch(t) \/ PolicyGate(t) \/ Echo(t) PROVE WorkerInv'
    <3>1. PICK b \in BOOLEAN, a \in Addresses : b /\ a = "public"
      BY DEF Addresses
    <3> QED
      BY <2>5, <3>1, GatesOfFetch, DirectiveSteps
  <2>6. ASSUME NEW t \in Tasks, NEW in \in Inputs, Receive(t, in) PROVE WorkerInv'
    BY <2>6, ReceiveStep
  <2>7. ASSUME NEW t \in Tasks, NEW b \in BOOLEAN,
               IndexFile(t, b) \/ MapCode(t, b) \/ EmbedMap(t, b) \/ Verify(t, b) \/ Shell(t, b) \/ ScrapeByBrowser(t, b)
        PROVE WorkerInv'
    <3>1. PICK done \in {{}, {"model"}, {"model", "file"}} : done = {}
      OBVIOUS
    <3> QED
      BY <2>7, <3>1, IndexFileStep, PluginSteps, DirectiveSteps
  <2>8. ASSUME NEW t \in Tasks, NEW done \in {{}, {"model"}, {"model", "file"}}, Draft(t, done) PROVE WorkerInv'
    <3>1. PICK b \in BOOLEAN : b
      OBVIOUS
    <3> QED
      BY <2>8, <3>1, PluginSteps
  <2>9. ASSUME NEW t \in Tasks, NEW a \in Addresses, NEW h \in Hosts, NEW f \in Addresses, Redirect(t, a, h, f)
        PROVE WorkerInv'
    BY <2>9, RedirectStep
  <2>10. ASSUME NEW t \in Tasks, NEW a \in Addresses, AddressGate(t, a) PROVE WorkerInv'
    BY <2>10, GatesOfFetch
  <2>11. ASSUME NEW t \in Tasks, NEW a \in Addresses, NEW b \in BOOLEAN, Request(t, a, b) PROVE WorkerInv'
    BY <2>11, RequestStep
  <2> QED
    BY <2>1, <2>2, <2>3, <2>4, <2>5, <2>6, <2>7, <2>8, <2>9, <2>10, <2>11 DEF WorkerNext
<1>3. WorkerInv => TaskSound
  <2> SUFFICES ASSUME WorkerInv PROVE TaskSound
    OBVIOUS
  <2>1. GatedBeforeAct /\ OnlyVettedHosts
    BY DEF WorkerInv, TaskInv, Acted, GatedBeforeAct, OnlyVettedHosts
  <2>2. ASSUME NEW t \in Tasks, step[t] = "fetching" PROVE "fetch" \in permitted[t]
    BY <2>2 DEF WorkerInv, TaskInv, InLine, OnItsWay, Gates, NeedsNetwork, Plugin, Actions
  <2>3. BatchReviewed
    BY DEF WorkerInv, TaskInv, Batched, BatchReviewed
  <2> QED
    BY <2>1, <2>2, <2>3 DEF TaskSound, PluginGated
<1> QED
  BY <1>1, <1>2, <1>3, PTL DEF WorkerSpec

-----------------------------------------------------------------------------
(* Cerebro's memory: the inductive invariant.                               *)

Chans == Sweeps \cup Ingests
MemoryRows == [id : Nat, text : Facts \cup Documents, born : Nat]
WriteOps == [op : {"insert", "embed", "quarantine"}, row : MemoryRows] \cup [op : {"review", "delete"}, id : Nat]
         \cup [op : {"approval"}, fact : Facts, conflict : Nat] \cup [op : {"stale", "cleanup"}]
Inserts(w) == w.op \in {"insert", "embed", "quarantine"}

MemoryTypes ==
  /\ day \in Nat /\ ids \in Nat
  /\ memories \subseteq MemoryRows /\ quarantine \subseteq MemoryRows
  /\ reviews \in [DOMAIN reviews -> {"pending", "resolved", "rejected"}]
  /\ approvals \in Seq([fact : Facts, conflict : Nat, status : {"pending", "approved", "rejected", "promoted"}])
  /\ channel \in [Chans -> Seq(WriteOps)]
  /\ cycle \in [Sweeps -> {"idle", "extracting", "placing", "pruning", "posted", "aborted"}]
  /\ facts \in [Sweeps -> Seq(Facts)] /\ owed \in [Sweeps -> SUBSET Facts]
  /\ unacked \in [Sweeps -> 0..ChannelLimit]

\* Every row that is on its way has an id of its own, and a document is
\* followed by its review.
Apart(q) ==
  /\ \A c, d \in Chans : \A k \in 1..Len(q[c]), l \in 1..Len(q[d]) :
       Inserts(q[c][k]) /\ Inserts(q[d][l]) /\ q[c][k].row.id = q[d][l].row.id => c = d /\ k = l
  /\ \A c, d \in Chans : \A k \in 1..Len(q[c]), l \in 1..Len(q[d]) :
       q[c][k].op = "review" /\ q[d][l].op = "review" /\ q[c][k].id = q[d][l].id => c = d /\ k = l
  /\ \A c, d \in Chans : \A k \in 1..Len(q[c]), l \in 1..Len(q[d]) :
       q[c][k].op = "review" /\ Inserts(q[d][l]) /\ q[c][k].id = q[d][l].row.id
         => c = d /\ l < k /\ q[d][l].op = "quarantine"
  /\ \A c \in Chans : \A k \in 1..Len(q[c]) :
       q[c][k].op = "quarantine" =>
         k + 1 \in 1..Len(q[c]) /\ q[c][k + 1].op = "review" /\ q[c][k + 1].id = q[c][k].row.id

\* The rows on their way are of ids that no table holds, and the reviews of
\* ids that no memory and no review holds; documents are what is embedded or
\* quarantined.
Unused(q, n, stored, asked) ==
  /\ \A c \in Chans : \A k \in 1..Len(q[c]) :
       Inserts(q[c][k]) => q[c][k].row.id \in 1..n /\ q[c][k].row.id \notin stored
  /\ \A c \in Chans : \A k \in 1..Len(q[c]) :
       q[c][k].op = "review" => q[c][k].id \in 1..n /\ q[c][k].id \notin asked
  /\ \A c \in Chans : \A k \in 1..Len(q[c]) :
       q[c][k].op \in {"embed", "quarantine"} => q[c][k].row.text \in Documents

Stored == IdsOf(memories) \cup IdsOf(quarantine) \cup DOMAIN reviews
Asked == IdsOf(memories) \cup DOMAIN reviews

\* A document is in one place, and stays out of the memory unless a review
\* that is not its rejection lets it in.
Reviewed ==
  /\ Stored \subseteq 1..ids
  /\ IdsOf(memories) \cap IdsOf(quarantine) = {}
  /\ declined \subseteq DOMAIN reviews
  /\ declined \cap (IdsOf(memories) \cup IdsOf(quarantine)) = {}
  /\ \A i \in DOMAIN reviews : reviews[i] = "pending" => i \notin IdsOf(memories)
  /\ \A r \in quarantine : r.text \in Documents

\* A document without a pending review has it on its way, or lost it.
Reviewable(q, lost, held, asked) ==
  \A r \in held :
    \/ r.id \in lost
    \/ \E c \in Chans : \E k \in 1..Len(q[c]) : q[c][k].op = "review" /\ q[c][k].id = r.id
    \/ r.id \in DOMAIN asked /\ asked[r.id] = "pending"

\* A fact in the memory or among the proposals has been noted.
Known ==
  /\ \A r \in memories : r.text \in Documents \cup noted
  /\ \A i \in 1..Len(approvals) : approvals[i].fact \in noted

\* A fact that a sweep has placed is noted or on its way.
Carries(w, f) == (w.op = "insert" /\ w.row.text = f) \/ (w.op = "approval" /\ w.fact = f)
Carried(s) ==
  cycle[s] \in {"placing", "pruning", "posted"} =>
    \A f \in owed[s] :
      \/ f \in noted
      \/ cycle[s] = "placing" /\ \E k \in 1..Len(facts[s]) : facts[s][k] = f
      \/ \E k \in 1..Len(channel[s]) : Carries(channel[s][k], f)

\* A deletion that leaves vectors behind is followed by the cleanup, but in a
\* sweep that was cut short.
Followed(q, at) ==
  \A c \in Chans : \A k \in 1..Len(q[c]) :
    q[c][k].op = "stale" =>
      \/ c \in Sweeps /\ at[c] = "aborted"
      \/ \E l \in 1..Len(q[c]) : l > k /\ q[c][l].op = "cleanup"

Orphaned ==
  \/ vec \subseteq IdsOf(memories) \/ interrupted
  \/ \E s \in Sweeps : cycle[s] = "aborted"
  \/ \E c \in Chans : \E k \in 1..Len(channel[c]) : channel[c][k].op = "cleanup"

MemoryInv ==
  /\ MemoryTypes /\ Apart(channel) /\ Unused(channel, ids, Stored, Asked)
  /\ Reviewed /\ Reviewable(channel, torn, quarantine, reviews)
  /\ Known /\ (\A s \in Sweeps : Carried(s))
  /\ Followed(channel, cycle) /\ Orphaned

\* What a write is.
LEMMA WriteFacts ==
  ASSUME NEW w \in WriteOps
  PROVE  /\ w.op \in {"insert", "embed", "quarantine", "review", "delete", "approval", "stale", "cleanup"}
         /\ Inserts(w) => w.row \in MemoryRows
         /\ w.op \in {"review", "delete"} => w.id \in Nat
         /\ w.op = "approval" => w.fact \in Facts /\ w.conflict \in Nat
BY DEF WriteOps, Inserts

LEMMA MemoryBegins == MemoryInit => MemoryInv
<1> SUFFICES ASSUME MemoryInit PROVE MemoryInv
  OBVIOUS
<1>1. \A c \in Chans : channel[c] = <<>> /\ Len(channel[c]) = 0
  BY DEF MemoryInit, Chans
<1>2. channel \in [Chans -> Seq(WriteOps)] /\ DOMAIN reviews = {}
  BY DEF MemoryInit, Chans
<1>3. 0 \in 0..ChannelLimit
  BY MemoryAssumption
<1>4. MemoryTypes
  BY <1>2, <1>3 DEF MemoryInit, MemoryTypes
<1>5. Apart(channel) /\ Unused(channel, ids, Stored, Asked)
  BY <1>1 DEF Apart, Unused
<1>6. Reviewed /\ Reviewable(channel, torn, quarantine, reviews) /\ Known
  BY <1>2 DEF MemoryInit, Reviewed, Reviewable, Known, Stored, IdsOf
<1>7. (\A s \in Sweeps : Carried(s)) /\ Followed(channel, cycle) /\ Orphaned
  BY <1>1 DEF MemoryInit, Carried, Followed, Orphaned
<1> QED
  BY <1>4, <1>5, <1>6, <1>7 DEF MemoryInv

\* A write leaves the head of a channel: the places of the others.
Past(c, d, k) == IF d = c THEN k + 1 ELSE k
Shifted(q, r, c) ==
  /\ r \in [Chans -> Seq(WriteOps)]
  /\ \A d \in Chans : \A k \in 1..Len(r[d]) : Past(c, d, k) \in 1..Len(q[d]) /\ r[d][k] = q[d][Past(c, d, k)]
  /\ \A d \in Chans : \A l \in 1..Len(q[d]) : (d = c /\ l = 1) \/ \E k \in 1..Len(r[d]) : Past(c, d, k) = l

LEMMA ShiftedFacts ==
  ASSUME NEW q \in [Chans -> Seq(WriteOps)], NEW c \in Chans, q[c] # <<>>,
         NEW r, r = [q EXCEPT ![c] = Tail(@)]
  PROVE  Shifted(q, r, c)
<1>1. PICK o, t : o = q[c] /\ t = Tail(o)
  OBVIOUS
<1>2. o \in Seq(WriteOps) /\ o # <<>>
  BY <1>1
<1>3. /\ t \in Seq(WriteOps) /\ Len(t) = Len(o) - 1 /\ Len(o) \in Nat /\ Len(o) >= 1
      /\ \A k \in 1..Len(t) : t[k] = o[k + 1]
  BY <1>1, <1>2
<1>4. r = [q EXCEPT ![c] = t]
  BY <1>1
<1>5. r \in [Chans -> Seq(WriteOps)]
  BY <1>3, <1>4
<1>6. r[c] = t /\ \A d \in Chans \ {c} : r[d] = q[d]
  BY <1>4
<1>7. ASSUME NEW d \in Chans, NEW k \in 1..Len(r[d])
      PROVE  Past(c, d, k) \in 1..Len(q[d]) /\ r[d][k] = q[d][Past(c, d, k)]
  <2>1. CASE d = c
    <3>1. k \in 1..Len(t) /\ k + 1 \in 1..Len(o) /\ t[k] = o[k + 1]
      BY <1>3, <1>6, <1>7, <2>1
    <3> QED
      BY <1>1, <1>6, <2>1, <3>1 DEF Past
  <2>2. CASE d # c
    BY <1>6, <1>7, <2>2 DEF Past
  <2> QED
    BY <2>1, <2>2
<1>8. ASSUME NEW d \in Chans, NEW l \in 1..Len(q[d]), ~(d = c /\ l = 1)
      PROVE  \E k \in 1..Len(r[d]) : Past(c, d, k) = l
  <2>1. CASE d = c
    <3>1. l - 1 \in 1..Len(t) /\ (l - 1) + 1 = l
      BY <1>1, <1>3, <1>8, <2>1
    <3> QED
      BY <1>6, <2>1, <3>1 DEF Past
  <2>2. CASE d # c
    BY <1>6, <1>8, <2>2 DEF Past
  <2> QED
    BY <2>1, <2>2
<1> QED
  BY <1>5, <1>7, <1>8 DEF Shifted

LEMMA ShiftApart ==
  ASSUME NEW q, NEW r, NEW c \in Chans, Shifted(q, r, c), Apart(q)
  PROVE  Apart(r)
<1>0. \A d \in Chans : \A k \in 1..Len(r[d]) :
        k \in Nat /\ Past(c, d, k) \in 1..Len(q[d]) /\ r[d][k] = q[d][Past(c, d, k)]
  BY DEF Shifted
<1>a. \A d \in Chans : \A k, l \in Nat :
        /\ Past(c, d, k) = Past(c, d, l) => k = l
        /\ Past(c, d, k) < Past(c, d, l) => k < l
  BY DEF Past
<1>b. \A d, e \in Chans : \A k \in 1..Len(q[d]), l \in 1..Len(q[e]) :
        q[d][k].op = "review" /\ Inserts(q[e][l]) /\ q[d][k].id = q[e][l].row.id
          => d = e /\ l < k /\ q[e][l].op = "quarantine"
  BY Zenon DEF Apart
<1>1. ASSUME NEW d \in Chans, NEW e \in Chans, NEW k \in 1..Len(r[d]), NEW l \in 1..Len(r[e]),
             Inserts(r[d][k]), Inserts(r[e][l]), r[d][k].row.id = r[e][l].row.id
      PROVE  d = e /\ k = l
  <2>1. PICK p, m : p = Past(c, d, k) /\ m = Past(c, e, l)
    OBVIOUS
  <2>2. p \in 1..Len(q[d]) /\ r[d][k] = q[d][p] /\ m \in 1..Len(q[e]) /\ r[e][l] = q[e][m]
    BY <1>0, <2>1
  <2>3. d = e /\ p = m
    BY <1>1, <2>2 DEF Apart
  <2> QED
    BY <1>0, <1>a, <2>1, <2>3
<1>2. ASSUME NEW d \in Chans, NEW e \in Chans, NEW k \in 1..Len(r[d]), NEW l \in 1..Len(r[e]),
             r[d][k].op = "review", r[e][l].op = "review", r[d][k].id = r[e][l].id
      PROVE  d = e /\ k = l
  <2>1. PICK p, m : p = Past(c, d, k) /\ m = Past(c, e, l)
    OBVIOUS
  <2>2. p \in 1..Len(q[d]) /\ r[d][k] = q[d][p] /\ m \in 1..Len(q[e]) /\ r[e][l] = q[e][m]
    BY <1>0, <2>1
  <2>3. d = e /\ p = m
    BY <1>2, <2>2 DEF Apart
  <2> QED
    BY <1>0, <1>a, <2>1, <2>3
<1>3. ASSUME NEW d \in Chans, NEW e \in Chans, NEW k \in 1..Len(r[d]), NEW l \in 1..Len(r[e]),
             r[d][k].op = "review", Inserts(r[e][l]), r[d][k].id = r[e][l].row.id
      PROVE  d = e /\ l < k /\ r[e][l].op = "quarantine"
  <2>1. PICK p, m : p = Past(c, d, k) /\ m = Past(c, e, l)
    OBVIOUS
  <2>2. p \in 1..Len(q[d]) /\ r[d][k] = q[d][p] /\ m \in 1..Len(q[e]) /\ r[e][l] = q[e][m]
    BY <1>0, <2>1
  <2>3. q[d][p].op = "review" /\ Inserts(q[e][m]) /\ q[d][p].id = q[e][m].row.id
    BY <1>3, <2>2
  <2>4. d = e /\ m < p /\ q[e][m].op = "quarantine"
    BY <1>b, <2>2, <2>3, Zenon
  <2> QED
    BY <1>0, <1>a, <2>1, <2>2, <2>4
<1>4. ASSUME NEW d \in Chans, NEW k \in 1..Len(r[d]), r[d][k].op = "quarantine"
      PROVE  k + 1 \in 1..Len(r[d]) /\ r[d][k + 1].op = "review" /\ r[d][k + 1].id = r[d][k].row.id
  <2>1. PICK p : p = Past(c, d, k)
    OBVIOUS
  <2>2. k \in Nat /\ k >= 1 /\ p \in 1..Len(q[d]) /\ r[d][k] = q[d][p] /\ p \in Nat /\ p >= k
    BY <1>0, <2>1 DEF Past
  <2>3. p + 1 \in 1..Len(q[d]) /\ q[d][p + 1].op = "review" /\ q[d][p + 1].id = q[d][p].row.id
    BY <1>4, <2>2 DEF Apart
  <2>4. ~(d = c /\ p + 1 = 1)
    BY <2>2
  <2>5. PICK m \in 1..Len(r[d]) : Past(c, d, m) = p + 1
    BY <2>3, <2>4 DEF Shifted
  <2>6. m = k + 1
    BY <2>1, <2>2, <2>5 DEF Past
  <2>7. r[d][m] = q[d][p + 1]
    BY <1>0, <2>5
  <2> QED
    BY <2>2, <2>3, <2>5, <2>6, <2>7
<1> QED
  BY <1>1, <1>2, <1>3, <1>4 DEF Apart

\* The others' ids are not those of the write that leaves, and a document
\* that leaves has its review behind it.
Heads(q, r, c, w) ==
  /\ Inserts(w) => \A d \in Chans : \A k \in 1..Len(r[d]) : Inserts(r[d][k]) => r[d][k].row.id # w.row.id
  /\ w.op = "review" => \A d \in Chans : \A k \in 1..Len(r[d]) : r[d][k].op = "review" => r[d][k].id # w.id
  /\ w.op \in {"insert", "embed"} => \A d \in Chans : \A k \in 1..Len(r[d]) : r[d][k].op = "review" => r[d][k].id # w.row.id
  /\ w.op = "review" => \A d \in Chans : \A k \in 1..Len(r[d]) : Inserts(r[d][k]) => r[d][k].row.id # w.id
  /\ w.op = "quarantine" => 1 \in 1..Len(r[c]) /\ r[c][1].op = "review" /\ r[c][1].id = w.row.id

LEMMA HeadApart ==
  ASSUME NEW q, NEW r, NEW c \in Chans, Shifted(q, r, c), Apart(q), 1 \in 1..Len(q[c]), NEW w, w = q[c][1]
  PROVE  Heads(q, r, c, w)
<1>1. ASSUME NEW d \in Chans, NEW k \in 1..Len(r[d])
      PROVE  \E p \in 1..Len(q[d]) : r[d][k] = q[d][p] /\ ~(d = c /\ p = 1) /\ p >= 1
  <2>1. PICK p : p = Past(c, d, k)
    OBVIOUS
  <2>2. k \in Nat /\ k >= 1 /\ p \in 1..Len(q[d]) /\ r[d][k] = q[d][p]
    BY <2>1 DEF Shifted
  <2>3. ~(d = c /\ p = 1) /\ p >= 1
    BY <2>1, <2>2 DEF Past
  <2> QED
    BY <2>2, <2>3
<1>2. \A d, e \in Chans : \A k \in 1..Len(q[d]), l \in 1..Len(q[e]) :
        Inserts(q[d][k]) /\ Inserts(q[e][l]) /\ q[d][k].row.id = q[e][l].row.id => d = e /\ k = l
  BY Zenon DEF Apart
<1>3. \A d, e \in Chans : \A k \in 1..Len(q[d]), l \in 1..Len(q[e]) :
        q[d][k].op = "review" /\ q[e][l].op = "review" /\ q[d][k].id = q[e][l].id => d = e /\ k = l
  BY Zenon DEF Apart
<1>4. \A d, e \in Chans : \A k \in 1..Len(q[d]), l \in 1..Len(q[e]) :
        q[d][k].op = "review" /\ Inserts(q[e][l]) /\ q[d][k].id = q[e][l].row.id
          => d = e /\ l < k /\ q[e][l].op = "quarantine"
  BY Zenon DEF Apart
<1>5. ASSUME Inserts(w), NEW d \in Chans, NEW k \in 1..Len(r[d]), Inserts(r[d][k])
      PROVE  r[d][k].row.id # w.row.id
  BY <1>1, <1>2, <1>5
<1>6. ASSUME w.op = "review", NEW d \in Chans, NEW k \in 1..Len(r[d]), r[d][k].op = "review"
      PROVE  r[d][k].id # w.id
  <2>1. PICK p \in 1..Len(q[d]) : r[d][k] = q[d][p] /\ ~(d = c /\ p = 1)
    BY <1>1
  <2>2. q[d][p].op = "review" /\ q[c][1].op = "review" /\ q[c][1].id = w.id
    BY <1>6, <2>1
  <2> QED
    BY <1>3, <2>1, <2>2
<1>7. ASSUME w.op \in {"insert", "embed"}, NEW d \in Chans, NEW k \in 1..Len(r[d]), r[d][k].op = "review"
      PROVE  r[d][k].id # w.row.id
  <2>1. Inserts(w) /\ w.op # "quarantine"
    BY <1>7 DEF Inserts
  <2> QED
    BY <1>1, <1>4, <1>7, <2>1
<1>8. ASSUME w.op = "review", NEW d \in Chans, NEW k \in 1..Len(r[d]), Inserts(r[d][k])
      PROVE  r[d][k].row.id # w.id
  <2>1. PICK p \in 1..Len(q[d]) : r[d][k] = q[d][p] /\ p >= 1
    BY <1>1
  <2>2. SUFFICES ASSUME r[d][k].row.id = w.id PROVE FALSE
    OBVIOUS
  <2>3. p < 1
    BY <1>4, <1>8, <2>1, <2>2
  <2> QED
    BY <2>1, <2>3
<1>9. ASSUME w.op = "quarantine"
      PROVE  1 \in 1..Len(r[c]) /\ r[c][1].op = "review" /\ r[c][1].id = w.row.id
  <2>1. 2 \in 1..Len(q[c]) /\ q[c][2].op = "review" /\ q[c][2].id = w.row.id
    <3>1. 1 + 1 = 2
      OBVIOUS
    <3> QED
      BY <1>9, <3>1 DEF Apart
  <2>2. PICK k \in 1..Len(r[c]) : Past(c, c, k) = 2
    BY <2>1 DEF Shifted
  <2>3. k = 1 /\ r[c][k] = q[c][2]
    BY <2>2 DEF Past, Shifted
  <2> QED
    BY <2>1, <2>3
<1> QED
  BY <1>5, <1>6, <1>7, <1>8, <1>9, Zenon DEF Heads

\* The tables may take the ids that are no longer on their way.
Gains(r, st, as, st2, as2, x) ==
  /\ \A i \in st2 : i \in st \/ i = x
  /\ \A i \in as2 : i \in as \/ i = x
  /\ x \in st2 => \A d \in Chans : \A k \in 1..Len(r[d]) : Inserts(r[d][k]) => r[d][k].row.id # x
  /\ x \in as2 => \A d \in Chans : \A k \in 1..Len(r[d]) : r[d][k].op = "review" => r[d][k].id # x

LEMMA ShiftUnused ==
  ASSUME NEW q, NEW r, NEW c \in Chans, Shifted(q, r, c), NEW n, NEW st, NEW as, Unused(q, n, st, as),
         NEW st2, NEW as2, NEW x, Gains(r, st, as, st2, as2, x)
  PROVE  Unused(r, n, st2, as2)
<1>1. ASSUME NEW d \in Chans, NEW k \in 1..Len(r[d])
      PROVE  /\ Inserts(r[d][k]) => r[d][k].row.id \in 1..n /\ r[d][k].row.id \notin st
             /\ r[d][k].op = "review" => r[d][k].id \in 1..n /\ r[d][k].id \notin as
             /\ r[d][k].op \in {"embed", "quarantine"} => r[d][k].row.text \in Documents
  <2>1. PICK p \in 1..Len(q[d]) : r[d][k] = q[d][p]
    BY DEF Shifted
  <2> QED
    BY <2>1, Zenon DEF Unused
<1>2. ASSUME NEW d \in Chans, NEW k \in 1..Len(r[d]), Inserts(r[d][k])
      PROVE  r[d][k].row.id \notin st2
  BY <1>1, <1>2 DEF Gains
<1>3. ASSUME NEW d \in Chans, NEW k \in 1..Len(r[d]), r[d][k].op = "review"
      PROVE  r[d][k].id \notin as2
  BY <1>1, <1>3 DEF Gains
<1> QED
  BY <1>1, <1>2, <1>3, Zenon DEF Unused

\* Writes are sent on a channel, behind those on their way.
Extended(q, r, s, sent) ==
  /\ r \in [Chans -> Seq(WriteOps)]
  /\ \A d \in Chans : \A k \in 1..Len(q[d]) : k \in 1..Len(r[d]) /\ r[d][k] = q[d][k]
  /\ \A d \in Chans : \A k \in 1..Len(r[d]) :
       \/ k \in 1..Len(q[d])
       \/ d = s /\ \E j \in 1..Len(sent) : k = Len(q[s]) + j /\ r[d][k] = sent[j]
  /\ \A j \in 1..Len(sent) : Len(q[s]) + j \in 1..Len(r[s]) /\ r[s][Len(q[s]) + j] = sent[j]

LEMMA ExtendedFacts ==
  ASSUME NEW q \in [Chans -> Seq(WriteOps)], NEW s \in Chans, NEW sent \in Seq(WriteOps),
         NEW r, r = [q EXCEPT ![s] = @ \o sent]
  PROVE  Extended(q, r, s, sent)
<1>1. PICK o, t : o = q[s] /\ t = o \o sent
  OBVIOUS
<1>2. o \in Seq(WriteOps) /\ Len(o) \in Nat /\ Len(sent) \in Nat
  BY <1>1
<1>3. /\ t \in Seq(WriteOps) /\ Len(t) = Len(o) + Len(sent)
      /\ \A k \in 1..Len(o) : t[k] = o[k]
  BY <1>1, <1>2
<1>a. ASSUME NEW j \in 1..Len(sent) PROVE t[Len(o) + j] = sent[j]
  BY <1>1, <1>2
<1>4. r = [q EXCEPT ![s] = t]
  BY <1>1
<1>5. r \in [Chans -> Seq(WriteOps)] /\ r[s] = t /\ \A d \in Chans \ {s} : r[d] = q[d]
  BY <1>3, <1>4
<1>6. ASSUME NEW d \in Chans, NEW k \in 1..Len(q[d])
      PROVE  k \in 1..Len(r[d]) /\ r[d][k] = q[d][k]
  BY <1>1, <1>2, <1>3, <1>5
<1>7. ASSUME NEW d \in Chans, NEW k \in 1..Len(r[d]), k \notin 1..Len(q[d])
      PROVE  d = s /\ \E j \in 1..Len(sent) : k = Len(q[s]) + j /\ r[d][k] = sent[j]
  <2>1. d = s
    BY <1>5, <1>7
  <2>2. k - Len(o) \in 1..Len(sent) /\ k = Len(o) + (k - Len(o))
    BY <1>1, <1>2, <1>3, <1>5, <1>7, <2>1
  <2>3. PICK j \in 1..Len(sent) : k = Len(o) + j
    BY <2>2
  <2>4. t[k] = sent[j]
    BY <1>a, <2>3
  <2> QED
    BY <1>1, <1>5, <2>1, <2>3, <2>4
<1>8. ASSUME NEW j \in 1..Len(sent)
      PROVE  Len(q[s]) + j \in 1..Len(r[s]) /\ r[s][Len(q[s]) + j] = sent[j]
  BY <1>1, <1>2, <1>3, <1>5, <1>a
<1>9. \A d \in Chans : \A k \in 1..Len(r[d]) :
        k \in 1..Len(q[d]) \/ (d = s /\ \E j \in 1..Len(sent) : k = Len(q[s]) + j /\ r[d][k] = sent[j])
  BY <1>7, Zenon
<1>10. r \in [Chans -> Seq(WriteOps)]
  BY <1>5
<1> QED
  BY <1>6, <1>8, <1>9, <1>10, Zenon DEF Extended

\* What is sent at a time: at most one row, of the next id, and a document
\* that is quarantined with its review.
Sendable(sent, n, m) ==
  /\ \A j \in 1..Len(sent) : Inserts(sent[j]) => j = 1 /\ sent[j].row.id = n + 1 /\ m = n + 1
  /\ \A j \in 1..Len(sent) : sent[j].op = "review" =>
       j = 2 /\ sent[j].id = n + 1 /\ m = n + 1 /\ 1 \in 1..Len(sent) /\ sent[1].op = "quarantine"
  /\ \A j \in 1..Len(sent) : sent[j].op = "quarantine" => 2 \in 1..Len(sent) /\ sent[2].op = "review"
  /\ \A j \in 1..Len(sent) : sent[j].op \in {"embed", "quarantine"} => sent[j].row.text \in Documents

Grows(q, r, s, sent, n, m, st, as) ==
  /\ q \in [Chans -> Seq(WriteOps)] /\ s \in Chans /\ Extended(q, r, s, sent)
  /\ n \in Nat /\ m \in {n, n + 1} /\ Sendable(sent, n, m)
  /\ st \subseteq 1..n /\ as \subseteq 1..n /\ Unused(q, n, st, as) /\ Apart(q)

LEMMA ExtendUnused ==
  ASSUME NEW q, NEW r, NEW s, NEW sent, NEW n, NEW m, NEW st, NEW as, Grows(q, r, s, sent, n, m, st, as)
  PROVE  Unused(r, m, st, as)
<1> USE DEF Grows
<1>0. \A i \in 1..n : i \in 1..m /\ i # n + 1
  OBVIOUS
<1>a. n + 1 \notin st /\ n + 1 \notin as
  BY <1>0
<1>b. m = n + 1 => n + 1 \in 1..m
  OBVIOUS
<1>1. ASSUME NEW d \in Chans, NEW k \in 1..Len(r[d])
      PROVE  /\ Inserts(r[d][k]) => r[d][k].row.id \in 1..m /\ r[d][k].row.id \notin st
             /\ r[d][k].op = "review" => r[d][k].id \in 1..m /\ r[d][k].id \notin as
             /\ r[d][k].op \in {"embed", "quarantine"} => r[d][k].row.text \in Documents
  <2>1. CASE k \in 1..Len(q[d])
    <3>1. r[d][k] = q[d][k]
      BY <2>1 DEF Extended
    <3>2. /\ Inserts(q[d][k]) => q[d][k].row.id \in 1..n /\ q[d][k].row.id \notin st
          /\ q[d][k].op = "review" => q[d][k].id \in 1..n /\ q[d][k].id \notin as
          /\ q[d][k].op \in {"embed", "quarantine"} => q[d][k].row.text \in Documents
      BY <2>1, Zenon DEF Unused
    <3> QED
      BY <1>0, <3>1, <3>2, Zenon
  <2>2. CASE k \notin 1..Len(q[d])
    <3>1. PICK j \in 1..Len(sent) : r[d][k] = sent[j]
      BY <2>2, Zenon DEF Extended
    <3>2. Inserts(sent[j]) => sent[j].row.id = n + 1 /\ m = n + 1
      BY Zenon DEF Sendable
    <3>3. sent[j].op = "review" => sent[j].id = n + 1 /\ m = n + 1
      BY Zenon DEF Sendable
    <3>4. sent[j].op \in {"embed", "quarantine"} => sent[j].row.text \in Documents
      BY Zenon DEF Sendable
    <3> QED
      BY <1>a, <1>b, <3>1, <3>2, <3>3, <3>4, Zenon
  <2> QED
    BY <2>1, <2>2
<1> QED
  BY <1>1, Zenon DEF Unused

\* The ids on their way differ: a place and what it holds.
LEMMA ExtendApart ==
  ASSUME NEW q, NEW r, NEW s, NEW sent, NEW n, NEW m, NEW st, NEW as, Grows(q, r, s, sent, n, m, st, as)
  PROVE  Apart(r)
<1> USE DEF Grows
<1> DEFINE Old(d, k) == k \in 1..Len(q[d]) /\ r[d][k] = q[d][k]
           New(d, k, j) == d = s /\ j \in 1..Len(sent) /\ k = Len(q[s]) + j /\ r[d][k] = sent[j]
<1>1. ASSUME NEW d \in Chans, NEW k \in 1..Len(r[d]) PROVE Old(d, k) \/ \E j \in 1..Len(sent) : New(d, k, j)
  BY Zenon DEF Extended
<1>2. ASSUME NEW d \in Chans, NEW k \in 1..Len(r[d]), Old(d, k)
      PROVE  /\ Inserts(r[d][k]) => r[d][k].row.id # n + 1
             /\ r[d][k].op = "review" => r[d][k].id # n + 1
  <2>1. /\ Inserts(q[d][k]) => q[d][k].row.id \in 1..n
        /\ q[d][k].op = "review" => q[d][k].id \in 1..n
    BY <1>2, Zenon DEF Unused
  <2>2. n + 1 \notin 1..n
    OBVIOUS
  <2> QED
    BY <1>2, <2>1, <2>2, Zenon
<1>3. ASSUME NEW d \in Chans, NEW k \in 1..Len(r[d]), NEW j, New(d, k, j)
      PROVE  /\ Inserts(r[d][k]) => r[d][k].row.id = n + 1 /\ j = 1
             /\ r[d][k].op = "review" => r[d][k].id = n + 1 /\ j = 2 /\ 1 \in 1..Len(sent) /\ sent[1].op = "quarantine"
             /\ r[d][k].op = "quarantine" => 2 \in 1..Len(sent) /\ sent[2].op = "review"
  BY <1>3, Zenon DEF Sendable
<1>4. Len(q[s]) \in Nat
  OBVIOUS
<1>b. \A d, e \in Chans : \A k \in 1..Len(q[d]), l \in 1..Len(q[e]) :
        Inserts(q[d][k]) /\ Inserts(q[e][l]) /\ q[d][k].row.id = q[e][l].row.id => d = e /\ k = l
  BY Zenon DEF Apart
<1>c. \A d, e \in Chans : \A k \in 1..Len(q[d]), l \in 1..Len(q[e]) :
        q[d][k].op = "review" /\ q[e][l].op = "review" /\ q[d][k].id = q[e][l].id => d = e /\ k = l
  BY Zenon DEF Apart
<1>d. \A d, e \in Chans : \A k \in 1..Len(q[d]), l \in 1..Len(q[e]) :
        q[d][k].op = "review" /\ Inserts(q[e][l]) /\ q[d][k].id = q[e][l].row.id
          => d = e /\ l < k /\ q[e][l].op = "quarantine"
  BY Zenon DEF Apart
<1>e. \A d \in Chans : \A k \in 1..Len(q[d]) : q[d][k].op = "quarantine" =>
        k + 1 \in 1..Len(q[d]) /\ q[d][k + 1].op = "review" /\ q[d][k + 1].id = q[d][k].row.id
  BY Zenon DEF Apart
<1>5. ASSUME NEW d \in Chans, NEW e \in Chans, NEW k \in 1..Len(r[d]), NEW l \in 1..Len(r[e]),
             Inserts(r[d][k]), Inserts(r[e][l]), r[d][k].row.id = r[e][l].row.id
      PROVE  d = e /\ k = l
  <2>1. CASE Old(d, k) /\ Old(e, l)
    <3>1. Inserts(q[d][k]) /\ Inserts(q[e][l]) /\ q[d][k].row.id = q[e][l].row.id
      BY <1>5, <2>1
    <3>2. k \in 1..Len(q[d]) /\ l \in 1..Len(q[e])
      BY <2>1
    <3> QED
      BY <3>1, <3>2, <1>b
  <2>2. CASE \E i \in 1..Len(sent) : New(d, k, i)
    <3>1. PICK i \in 1..Len(sent) : New(d, k, i)
      BY <2>2
    <3>2. r[e][l].row.id = n + 1
      BY <1>3, <1>5, <3>1
    <3>3. PICK j \in 1..Len(sent) : New(e, l, j)
      BY <1>1, <1>2, <1>5, <3>2
    <3>4. i = 1 /\ j = 1
      BY <1>3, <1>5, <3>1, <3>3
    <3> QED
      BY <3>1, <3>3, <3>4
  <2>3. CASE Old(d, k) /\ \E j \in 1..Len(sent) : New(e, l, j)
    <3>1. PICK j \in 1..Len(sent) : New(e, l, j)
      BY <2>3
    <3>2. r[e][l].row.id = n + 1
      BY <1>3, <1>5, <3>1
    <3>3. r[d][k].row.id # n + 1
      BY <1>2, <1>5, <2>3
    <3> QED
      BY <1>5, <3>2, <3>3
  <2> QED
    BY <1>1, <2>1, <2>2, <2>3, Zenon
<1>6. ASSUME NEW d \in Chans, NEW e \in Chans, NEW k \in 1..Len(r[d]), NEW l \in 1..Len(r[e]),
             r[d][k].op = "review", r[e][l].op = "review", r[d][k].id = r[e][l].id
      PROVE  d = e /\ k = l
  <2>1. CASE Old(d, k) /\ Old(e, l)
    BY <1>6, <2>1, <1>c
  <2>2. CASE \E i \in 1..Len(sent) : New(d, k, i)
    <3>1. PICK i \in 1..Len(sent) : New(d, k, i)
      BY <2>2
    <3>2. r[e][l].id = n + 1
      BY <1>3, <1>6, <3>1
    <3>3. PICK j \in 1..Len(sent) : New(e, l, j)
      BY <1>1, <1>2, <1>6, <3>2
    <3>4. i = 2 /\ j = 2
      <4>1. i = 2
        BY <1>3, <1>6, <3>1
      <4>2. j = 2
        BY <1>3, <1>6, <3>3
      <4> QED
        BY <4>1, <4>2
    <3> QED
      BY <3>1, <3>3, <3>4
  <2>3. CASE Old(d, k) /\ \E j \in 1..Len(sent) : New(e, l, j)
    <3>1. PICK j \in 1..Len(sent) : New(e, l, j)
      BY <2>3
    <3>2. r[e][l].id = n + 1
      BY <1>3, <1>6, <3>1
    <3>3. r[d][k].id # n + 1
      BY <1>2, <1>6, <2>3
    <3> QED
      BY <1>6, <3>2, <3>3
  <2> QED
    BY <1>1, <2>1, <2>2, <2>3, Zenon
<1>7. ASSUME NEW d \in Chans, NEW e \in Chans, NEW k \in 1..Len(r[d]), NEW l \in 1..Len(r[e]),
             r[d][k].op = "review", Inserts(r[e][l]), r[d][k].id = r[e][l].row.id
      PROVE  d = e /\ l < k /\ r[e][l].op = "quarantine"
  <2>1. CASE Old(d, k) /\ Old(e, l)
    <3>1. q[d][k].op = "review" /\ Inserts(q[e][l]) /\ q[d][k].id = q[e][l].row.id
      BY <1>7, <2>1
    <3>2. d = e /\ l < k /\ q[e][l].op = "quarantine"
      BY <2>1, <3>1, <1>d
    <3> QED
      BY <2>1, <3>2
  <2>2. CASE \E i \in 1..Len(sent) : New(d, k, i)
    <3>1. PICK i \in 1..Len(sent) : New(d, k, i)
      BY <2>2
    <3>2. r[e][l].row.id = n + 1
      BY <1>3, <1>7, <3>1
    <3>3. PICK j \in 1..Len(sent) : New(e, l, j)
      BY <1>1, <1>2, <1>7, <3>2
    <3>4. i = 2 /\ j = 1 /\ sent[1].op = "quarantine"
      <4>1. i = 2 /\ sent[1].op = "quarantine"
        BY <1>3, <1>7, <3>1
      <4>2. j = 1
        BY <1>3, <1>7, <3>3
      <4> QED
        BY <4>1, <4>2
    <3>5. l < k
      BY <1>4, <3>1, <3>3, <3>4
    <3> QED
      BY <3>1, <3>3, <3>4, <3>5
  <2>3. CASE Old(d, k) /\ \E j \in 1..Len(sent) : New(e, l, j)
    <3>1. PICK j \in 1..Len(sent) : New(e, l, j)
      BY <2>3
    <3>2. r[e][l].row.id = n + 1
      BY <1>3, <1>7, <3>1
    <3>3. r[d][k].id # n + 1
      BY <1>2, <1>7, <2>3
    <3> QED
      BY <1>7, <3>2, <3>3
  <2> QED
    BY <1>1, <2>1, <2>2, <2>3, Zenon
<1>8. ASSUME NEW d \in Chans, NEW k \in 1..Len(r[d]), r[d][k].op = "quarantine"
      PROVE  k + 1 \in 1..Len(r[d]) /\ r[d][k + 1].op = "review" /\ r[d][k + 1].id = r[d][k].row.id
  <2>1. CASE Old(d, k)
    <3>1. k + 1 \in 1..Len(q[d]) /\ q[d][k + 1].op = "review" /\ q[d][k + 1].id = q[d][k].row.id
      BY <1>8, <2>1, <1>e
    <3>2. k + 1 \in 1..Len(r[d]) /\ r[d][k + 1] = q[d][k + 1]
      BY <3>1, Zenon DEF Extended
    <3> QED
      BY <2>1, <3>1, <3>2
  <2>2. CASE \E j \in 1..Len(sent) : New(d, k, j)
    <3>1. PICK j \in 1..Len(sent) : New(d, k, j)
      BY <2>2
    <3>2. Inserts(r[d][k])
      BY <1>8 DEF Inserts
    <3>3. j = 1 /\ r[d][k].row.id = n + 1 /\ 2 \in 1..Len(sent) /\ sent[2].op = "review"
      BY <1>3, <1>8, <3>1, <3>2
    <3>4. sent[2].id = n + 1
      BY <3>3, Zenon DEF Sendable
    <3>5. Len(q[s]) + 2 \in 1..Len(r[s]) /\ r[s][Len(q[s]) + 2] = sent[2]
      BY <3>3, Zenon DEF Extended
    <3>6. k + 1 = Len(q[s]) + 2 /\ d = s
      BY <1>4, <3>1, <3>3
    <3> QED
      BY <3>3, <3>4, <3>5, <3>6, Zenon
  <2> QED
    BY <1>1, <2>1, <2>2, Zenon
<1>9. \A d, e \in Chans : \A k \in 1..Len(r[d]), l \in 1..Len(r[e]) :
        Inserts(r[d][k]) /\ Inserts(r[e][l]) /\ r[d][k].row.id = r[e][l].row.id => d = e /\ k = l
  BY <1>5
<1>10. \A d, e \in Chans : \A k \in 1..Len(r[d]), l \in 1..Len(r[e]) :
        r[d][k].op = "review" /\ r[e][l].op = "review" /\ r[d][k].id = r[e][l].id => d = e /\ k = l
  BY <1>6
<1>11. \A d, e \in Chans : \A k \in 1..Len(r[d]), l \in 1..Len(r[e]) :
        r[d][k].op = "review" /\ Inserts(r[e][l]) /\ r[d][k].id = r[e][l].row.id
          => d = e /\ l < k /\ r[e][l].op = "quarantine"
  BY <1>7
<1>12. \A d \in Chans : \A k \in 1..Len(r[d]) :
        r[d][k].op = "quarantine" =>
          k + 1 \in 1..Len(r[d]) /\ r[d][k + 1].op = "review" /\ r[d][k + 1].id = r[d][k].row.id
  BY <1>8
<1> QED
  BY <1>9, <1>10, <1>11, <1>12, Zenon DEF Apart

StaleSent(q, r, s, sent, at, at2) ==
  /\ q \in [Chans -> Seq(WriteOps)] /\ s \in Chans /\ Extended(q, r, s, sent)
  /\ \A a \in Sweeps : at[a] = "aborted" => at2[a] = "aborted"
  /\ \A j \in 1..Len(sent) : sent[j].op = "stale" =>
       (s \in Sweeps /\ at2[s] = "aborted") \/ \E i \in 1..Len(sent) : i > j /\ sent[i].op = "cleanup"

LEMMA ExtendFollowed ==
  ASSUME NEW q, NEW r, NEW s, NEW sent, NEW at, NEW at2, StaleSent(q, r, s, sent, at, at2), Followed(q, at)
  PROVE  Followed(r, at2)
<1> USE DEF StaleSent
<1>1. SUFFICES ASSUME NEW c \in Chans, NEW k \in 1..Len(r[c]), r[c][k].op = "stale", ~(c \in Sweeps /\ at2[c] = "aborted")
               PROVE  \E l \in 1..Len(r[c]) : l > k /\ r[c][l].op = "cleanup"
  BY Zenon DEF Followed
<1>2. CASE k \in 1..Len(q[c])
  <2>1. r[c][k] = q[c][k]
    BY <1>2 DEF Extended
  <2>2. PICK l \in 1..Len(q[c]) : l > k /\ q[c][l].op = "cleanup"
    BY <1>1, <1>2, <2>1 DEF Followed
  <2>3. l \in 1..Len(r[c]) /\ r[c][l] = q[c][l]
    BY <2>2 DEF Extended
  <2> QED
    BY <2>2, <2>3
<1>3. CASE k \notin 1..Len(q[c])
  <2>1. PICK j \in 1..Len(sent) : c = s /\ k = Len(q[s]) + j /\ r[c][k] = sent[j]
    BY <1>3, Zenon DEF Extended
  <2>2. PICK i \in 1..Len(sent) : i > j /\ sent[i].op = "cleanup"
    BY <1>1, <2>1
  <2>3. Len(q[s]) + i \in 1..Len(r[s]) /\ r[s][Len(q[s]) + i] = sent[i]
    BY <2>2, Zenon DEF Extended
  <2>4. Len(q[s]) \in Nat
    OBVIOUS
  <2>5. Len(q[s]) + i > k
    BY <2>1, <2>2, <2>4
  <2> QED
    BY <2>1, <2>2, <2>3, <2>5
<1> QED
  BY <1>2, <1>3

\* Sending writes disturbs nothing but the channel.
LEMMA Sending ==
  ASSUME MemoryInv, NEW s \in Chans, NEW sent \in Seq(WriteOps), channel' = [channel EXCEPT ![s] = @ \o sent],
         ids' \in {ids, ids + 1}, Sendable(sent, ids, ids'),
         UNCHANGED <<memories, vec, quarantine, reviews, approvals, noted, torn, interrupted, declined>>,
         \A a \in Sweeps : cycle[a] = "aborted" => cycle'[a] = "aborted",
         \A j \in 1..Len(sent) : sent[j].op = "stale" =>
           (s \in Sweeps /\ cycle'[s] = "aborted") \/ \E i \in 1..Len(sent) : i > j /\ sent[i].op = "cleanup"
  PROVE  /\ Extended(channel, channel', s, sent)
         /\ Apart(channel') /\ Unused(channel', ids', Stored', Asked')
         /\ Reviewed' /\ Reviewable(channel', torn', quarantine', reviews')
         /\ Known' /\ Followed(channel', cycle') /\ Orphaned'
<1>1. PICK q, r, at, at2 : q = channel /\ r = channel' /\ at = cycle /\ at2 = cycle'
  OBVIOUS
<1>2. PICK n, m, st, as : n = ids /\ m = ids' /\ st = Stored /\ as = Asked
  OBVIOUS
<1>3. q \in [Chans -> Seq(WriteOps)] /\ n \in Nat /\ m \in {n, n + 1}
  BY <1>1, <1>2 DEF MemoryInv, MemoryTypes
<1>4. r = [q EXCEPT ![s] = @ \o sent]
  BY <1>1
<1>5. Extended(q, r, s, sent)
  BY <1>3, <1>4, ExtendedFacts
<1>6. st \subseteq 1..n /\ as \subseteq 1..n /\ Sendable(sent, n, m)
  BY <1>2 DEF MemoryInv, Reviewed, Stored, Asked
<1>7. Apart(q) /\ Unused(q, n, st, as)
  BY <1>1, <1>2 DEF MemoryInv
<1>a. Grows(q, r, s, sent, n, m, st, as)
  BY <1>3, <1>5, <1>6, <1>7 DEF Grows
<1>8. Apart(r)
  BY <1>a, ExtendApart
<1>9. Unused(r, m, st, as)
  BY <1>a, ExtendUnused
<1>10. Stored' = Stored /\ Asked' = Asked
  BY DEF Stored, Asked, IdsOf
<1>11. \A i \in 1..n : i \in 1..m
  BY <1>3
<1>12. Reviewed'
  BY <1>2, <1>6, <1>10, <1>11 DEF MemoryInv, Reviewed, IdsOf
<1>13. Known'
  BY DEF MemoryInv, Known
<1>14. Reviewable(r, torn, quarantine, reviews)
  <2>1. SUFFICES ASSUME NEW x \in quarantine, x.id \notin torn, ~(x.id \in DOMAIN reviews /\ reviews[x.id] = "pending")
                 PROVE  \E c \in Chans : \E k \in 1..Len(r[c]) : r[c][k].op = "review" /\ r[c][k].id = x.id
    BY Zenon DEF Reviewable
  <2>a. PICK c \in Chans : \E k \in 1..Len(q[c]) : q[c][k].op = "review" /\ q[c][k].id = x.id
    BY <1>1, <2>1 DEF MemoryInv, Reviewable
  <2>2. PICK k \in 1..Len(q[c]) : q[c][k].op = "review" /\ q[c][k].id = x.id
    BY <2>a
  <2>3. k \in 1..Len(r[c]) /\ r[c][k] = q[c][k]
    BY <1>5, <2>2 DEF Extended
  <2> QED
    BY <2>2, <2>3
<1>15. Followed(q, at)
  BY <1>1 DEF MemoryInv
<1>16. Followed(r, at2)
  <2>1. \A a \in Sweeps : at[a] = "aborted" => at2[a] = "aborted"
    BY <1>1
  <2>2. \A j \in 1..Len(sent) : sent[j].op = "stale" =>
          (s \in Sweeps /\ at2[s] = "aborted") \/ \E i \in 1..Len(sent) : i > j /\ sent[i].op = "cleanup"
    BY <1>1
  <2>3. StaleSent(q, r, s, sent, at, at2)
    BY <1>3, <1>5, <2>1, <2>2, Zenon DEF StaleSent
  <2> QED
    BY <1>15, <2>3, ExtendFollowed
<1>17. Orphaned'
  <2>1. CASE vec \subseteq IdsOf(memories) \/ interrupted
    BY <2>1 DEF Orphaned, IdsOf
  <2>2. CASE \E a \in Sweeps : cycle[a] = "aborted"
    BY <2>2 DEF Orphaned
  <2>3. CASE \E c \in Chans : \E k \in 1..Len(channel[c]) : channel[c][k].op = "cleanup"
    <3>a. PICK c \in Chans : \E k \in 1..Len(q[c]) : q[c][k].op = "cleanup"
      BY <1>1, <2>3
    <3>1. PICK k \in 1..Len(q[c]) : q[c][k].op = "cleanup"
      BY <3>a
    <3>2. k \in 1..Len(r[c]) /\ r[c][k] = q[c][k]
      BY <1>5, <3>1 DEF Extended
    <3> QED
      BY <1>1, <3>1, <3>2 DEF Orphaned
  <2> QED
    BY <2>1, <2>2, <2>3 DEF MemoryInv, Orphaned
<1> QED
  BY <1>1, <1>2, <1>5, <1>8, <1>9, <1>10, <1>12, <1>13, <1>14, <1>16, <1>17

LEMMA CarriedKeeps ==
  ASSUME NEW a \in Sweeps, Carried(a), cycle'[a] = cycle[a] \/ cycle'[a] \in {"aborted", "idle", "extracting"},
         facts'[a] = facts[a], owed'[a] = owed[a], noted \subseteq noted',
         \A k \in 1..Len(channel[a]) : k \in 1..Len(channel'[a]) /\ channel'[a][k] = channel[a][k]
  PROVE  Carried(a)'
<1>1. SUFFICES ASSUME cycle'[a] \in {"placing", "pruning", "posted"}, NEW f \in owed'[a], f \notin noted',
                      ~(cycle'[a] = "placing" /\ \E k \in 1..Len(facts'[a]) : facts'[a][k] = f)
               PROVE  \E k \in 1..Len(channel'[a]) : Carries(channel'[a][k], f)
  BY DEF Carried
<1>2. cycle'[a] = cycle[a] /\ f \in owed[a] /\ f \notin noted
  BY <1>1
<1>3. PICK k \in 1..Len(channel[a]) : Carries(channel[a][k], f)
  BY <1>1, <1>2 DEF Carried
<1> QED
  BY <1>3

\* What postWriteOpOrThrow leaves.
PostedAs(s, ops, sent) ==
  /\ sent \in Seq(WriteOps) /\ channel' = [channel EXCEPT ![s] = @ \o sent]
  /\ unacked' \in [Sweeps -> 0..ChannelLimit]
  /\ Len(sent) <= Len(ops) /\ \A j \in 1..Len(sent) : sent[j] = ops[j]
  /\ IF sent = ops THEN cycle' = [cycle EXCEPT ![s] = IF @ = "pruning" THEN "posted" ELSE @]
     ELSE cycle' = [cycle EXCEPT ![s] = "aborted"]

LEMMA Posting ==
  ASSUME MemoryTypes, NEW s \in Sweeps, NEW ops \in Seq(WriteOps), Post(s, ops)
  PROVE  \E sent : PostedAs(s, ops, sent)
<1>1. PICK room, sent : /\ room = ChannelLimit - unacked[s]
                        /\ sent = IF Len(ops) <= room THEN ops ELSE SubSeq(ops, 1, room)
  OBVIOUS
<1>2. /\ channel' = [channel EXCEPT ![s] = @ \o sent]
      /\ unacked' = [unacked EXCEPT ![s] = @ + Len(sent)]
      /\ cycle' = [cycle EXCEPT ![s] = IF sent # ops THEN "aborted" ELSE IF @ = "pruning" THEN "posted" ELSE @]
  BY <1>1 DEF Post
<1>3. ChannelLimit \in Nat /\ unacked \in [Sweeps -> 0..ChannelLimit] /\ room \in Nat /\ Len(ops) \in Nat
  BY <1>1, MemoryAssumption DEF MemoryTypes
<1>4. sent \in Seq(WriteOps) /\ Len(sent) <= Len(ops) /\ Len(sent) <= room /\ \A j \in 1..Len(sent) : sent[j] = ops[j]
  <2>1. CASE Len(ops) <= room
    BY <1>1, <1>3, <2>1
  <2>2. CASE ~(Len(ops) <= room)
    <3>1. sent = SubSeq(ops, 1, room)
      BY <1>1, <2>2
    <3>2. sent \in Seq(WriteOps) /\ Len(sent) = room
      BY <1>3, <2>2, <3>1
    <3>3. ASSUME NEW j \in 1..Len(sent) PROVE sent[j] = ops[j]
      BY <1>3, <2>2, <3>1, <3>2
    <3> QED
      BY <1>3, <2>2, <3>2, <3>3
  <2> QED
    BY <2>1, <2>2
<1>5. Len(sent) \in Nat /\ unacked[s] + Len(sent) \in 0..ChannelLimit
  BY <1>1, <1>3, <1>4
<1>6. unacked' \in [Sweeps -> 0..ChannelLimit]
  BY <1>2, <1>3, <1>5
<1>7. IF sent = ops THEN cycle' = [cycle EXCEPT ![s] = IF @ = "pruning" THEN "posted" ELSE @]
      ELSE cycle' = [cycle EXCEPT ![s] = "aborted"]
  BY <1>2
<1> QED
  BY <1>2, <1>4, <1>6, <1>7 DEF PostedAs

\* The channel and the cycles after a post.
LEMMA PostedTypes ==
  ASSUME MemoryTypes, NEW s \in Sweeps, NEW ops, NEW sent, PostedAs(s, ops, sent)
  PROVE  /\ channel' \in [Chans -> Seq(WriteOps)]
         /\ cycle' \in [Sweeps -> {"idle", "extracting", "placing", "pruning", "posted", "aborted"}]
         /\ \A a \in Sweeps : cycle[a] = "aborted" => cycle'[a] = "aborted"
         /\ \A a \in Sweeps \ {s} : cycle'[a] = cycle[a]
<1>1. PICK o, t : o = channel[s] /\ t = o \o sent
  OBVIOUS
<1>2. s \in Chans /\ o \in Seq(WriteOps) /\ sent \in Seq(WriteOps)
  BY <1>1 DEF MemoryTypes, PostedAs, Chans
<1>3. t \in Seq(WriteOps)
  BY <1>1, <1>2
<1>4. channel' = [channel EXCEPT ![s] = t]
  BY <1>1 DEF PostedAs
<1>5. channel' \in [Chans -> Seq(WriteOps)]
  BY <1>3, <1>4 DEF MemoryTypes
<1>6. PICK y : y \in {"posted", "aborted", cycle[s]} /\ cycle' = [cycle EXCEPT ![s] = y] /\ (cycle[s] = "aborted" => y = "aborted")
  BY DEF PostedAs
<1>7. cycle \in [Sweeps -> {"idle", "extracting", "placing", "pruning", "posted", "aborted"}]
  BY DEF MemoryTypes
<1>8. y \in {"idle", "extracting", "placing", "pruning", "posted", "aborted"}
  BY <1>6, <1>7
<1> QED
  BY <1>5, <1>6, <1>7, <1>8

\* A sweep posts writes that name no document: what remains to show is that its
\* own facts are carried.
LEMMA PostStep ==
  ASSUME MemoryInv, NEW s \in Sweeps, NEW ops \in Seq(WriteOps), Post(s, ops),
         ids' \in {ids, ids + 1}, \A j \in 1..Len(ops) : Inserts(ops[j]) => j = 1 /\ ops[j].op = "insert" /\ ops[j].row.id = ids + 1 /\ ids' = ids + 1,
         \A j \in 1..Len(ops) : ops[j].op # "review",
         \A j \in 1..Len(ops) : ops[j].op = "stale" => \E i \in 1..Len(ops) : i > j /\ ops[i].op = "cleanup",
         facts' \in [Sweeps -> Seq(Facts)], \A a \in Sweeps \ {s} : facts'[a] = facts[a],
         UNCHANGED <<day, memories, vec, quarantine, reviews, approvals, owed, noted, torn, interrupted, declined>>,
         cycle[s] \in {"placing", "pruning"},
         ASSUME cycle[s] = "placing", NEW f \in owed[s]
         PROVE  \/ f \in noted \/ \E k \in 1..Len(facts'[s]) : facts'[s][k] = f
                \/ \E k \in 1..Len(channel[s]) : Carries(channel[s][k], f)
                \/ \E j \in 1..Len(ops) : Carries(ops[j], f),
         cycle[s] = "pruning" => facts'[s] = facts[s]
  PROVE  MemoryInv'
<1>0. s \in Chans /\ MemoryTypes
  BY DEF Chans, MemoryInv
<1>1. PICK sent : PostedAs(s, ops, sent)
  BY <1>0, Posting
<1>2. /\ sent \in Seq(WriteOps) /\ channel' = [channel EXCEPT ![s] = @ \o sent]
      /\ unacked' \in [Sweeps -> 0..ChannelLimit]
      /\ Len(sent) <= Len(ops) /\ \A j \in 1..Len(sent) : sent[j] = ops[j]
      /\ sent # ops => cycle' = [cycle EXCEPT ![s] = "aborted"]
      /\ sent = ops => cycle' = [cycle EXCEPT ![s] = IF @ = "pruning" THEN "posted" ELSE @]
  BY <1>1 DEF PostedAs
<1>3. /\ channel' \in [Chans -> Seq(WriteOps)]
      /\ cycle' \in [Sweeps -> {"idle", "extracting", "placing", "pruning", "posted", "aborted"}]
      /\ \A a \in Sweeps : cycle[a] = "aborted" => cycle'[a] = "aborted"
      /\ \A a \in Sweeps \ {s} : cycle'[a] = cycle[a]
  BY <1>0, <1>1, PostedTypes
<1>4. \A j \in 1..Len(sent) : j \in 1..Len(ops)
  BY <1>2
<1>5. \A j \in 1..Len(sent) : Inserts(sent[j]) => j = 1 /\ sent[j].op = "insert" /\ sent[j].row.id = ids + 1 /\ ids' = ids + 1
  BY <1>2, <1>4
<1>6. \A j \in 1..Len(sent) : sent[j].op \notin {"review", "embed", "quarantine"}
  BY <1>2, <1>4, <1>5 DEF Inserts
<1>7. Sendable(sent, ids, ids')
  BY <1>5, <1>6 DEF Sendable
<1>8. ASSUME NEW j \in 1..Len(sent), sent[j].op = "stale"
      PROVE  (s \in Sweeps /\ cycle'[s] = "aborted") \/ \E i \in 1..Len(sent) : i > j /\ sent[i].op = "cleanup"
  <2>1. CASE sent = ops
    BY <1>8, <2>1
  <2>2. CASE sent # ops
    BY <1>0, <1>2, <2>2 DEF MemoryTypes
  <2> QED
    BY <2>1, <2>2
<1>9. /\ Extended(channel, channel', s, sent)
      /\ Apart(channel') /\ Unused(channel', ids', Stored', Asked')
      /\ Reviewed' /\ Reviewable(channel', torn', quarantine', reviews')
      /\ Known' /\ Followed(channel', cycle') /\ Orphaned'
  BY <1>0, <1>2, <1>3, <1>7, <1>8, Sending
<1>10. \A d \in Chans : \A k \in 1..Len(channel[d]) : k \in 1..Len(channel'[d]) /\ channel'[d][k] = channel[d][k]
  BY <1>9, Zenon DEF Extended
<1>11. ASSUME NEW a \in Sweeps \ {s} PROVE Carried(a)'
  <2>1. a \in Sweeps /\ a \in Chans /\ Carried(a)
    BY DEF MemoryInv, Chans
  <2>2. cycle'[a] = cycle[a] /\ facts'[a] = facts[a] /\ owed'[a] = owed[a] /\ noted \subseteq noted'
    BY <1>3
  <2> QED
    BY <1>10, <2>1, <2>2, CarriedKeeps
<1>12. Carried(s)'
  <2>1. CASE sent # ops
    <3>1. cycle'[s] = "aborted"
      BY <1>0, <1>2, <2>1 DEF MemoryTypes
    <3> QED
      BY <3>1 DEF Carried
  <2>2. CASE sent = ops /\ cycle[s] = "pruning"
    <3>1. Carried(s) /\ cycle[s] # "placing"
      BY <2>2 DEF MemoryInv
    <3>2. cycle'[s] # "placing"
      BY <1>0, <1>2, <2>2 DEF MemoryTypes
    <3>3. ASSUME NEW f \in owed[s], f \notin noted
          PROVE  \E k \in 1..Len(channel'[s]) : Carries(channel'[s][k], f)
      <4>1. PICK k \in 1..Len(channel[s]) : Carries(channel[s][k], f)
        BY <2>2, <3>1, <3>3 DEF Carried
      <4> QED
        BY <1>0, <1>10, <4>1
    <3> QED
      BY <3>3 DEF Carried
  <2>3. CASE sent = ops /\ cycle[s] = "placing"
    <3>1. cycle'[s] = "placing"
      BY <1>0, <1>2, <2>3 DEF MemoryTypes
    <3>2. ASSUME NEW f \in owed[s], f \notin noted, ~ \E k \in 1..Len(facts'[s]) : facts'[s][k] = f
          PROVE  \E k \in 1..Len(channel'[s]) : Carries(channel'[s][k], f)
      <4>1. CASE \E k \in 1..Len(channel[s]) : Carries(channel[s][k], f)
        <5>1. PICK k \in 1..Len(channel[s]) : Carries(channel[s][k], f)
          BY <4>1
        <5> QED
          BY <1>0, <1>10, <5>1
      <4>2. CASE \E j \in 1..Len(ops) : Carries(ops[j], f)
        <5>1. PICK j \in 1..Len(sent) : Carries(sent[j], f)
          BY <2>3, <4>2
        <5>2. Len(channel[s]) + j \in 1..Len(channel'[s]) /\ channel'[s][Len(channel[s]) + j] = sent[j]
          BY <1>9, <5>1, Zenon DEF Extended
        <5> QED
          BY <5>1, <5>2
      <4> QED
        BY <2>3, <3>2, <4>1, <4>2
    <3> QED
      BY <3>1, <3>2 DEF Carried
  <2> QED
    BY <2>1, <2>2, <2>3
<1>13. MemoryTypes'
  <2>1. ids' \in Nat
    BY <1>0 DEF MemoryTypes
  <2> QED
    BY <1>0, <1>2, <1>3, <2>1 DEF MemoryTypes, MemoryRows
<1> QED
  BY <1>9, <1>11, <1>12, <1>13 DEF MemoryInv

LEMMA PlaceFactStep == ASSUME MemoryInv, NEW s \in Sweeps, PlaceFact(s) PROVE MemoryInv'
<1>0. /\ cycle[s] = "placing" /\ facts[s] # <<>> /\ facts' = [facts EXCEPT ![s] = Tail(@)]
      /\ UNCHANGED <<day, memories, vec, quarantine, reviews, approvals, owed, noted, torn, interrupted, declined>>
  BY DEF PlaceFact, database, history
<1>1. PICK f, o, t : f = Head(facts[s]) /\ o = facts[s] /\ t = Tail(o)
  OBVIOUS
<1>2. MemoryTypes /\ Reviewed /\ Known /\ Carried(s)
  BY DEF MemoryInv
<1>3. facts \in [Sweeps -> Seq(Facts)] /\ o \in Seq(Facts) /\ o # <<>>
  BY <1>0, <1>1, <1>2 DEF MemoryTypes
<1>4. f \in Facts /\ f = o[1] /\ t \in Seq(Facts) /\ Len(o) \in Nat /\ Len(t) = Len(o) - 1 /\ \A k \in 1..Len(t) : t[k] = o[k + 1]
  BY <1>1, <1>3
<1>5. facts' = [facts EXCEPT ![s] = t]
  BY <1>0, <1>1
<1>6. facts' \in [Sweeps -> Seq(Facts)] /\ facts'[s] = t /\ \A a \in Sweeps \ {s} : facts'[a] = facts[a]
  BY <1>3, <1>4, <1>5
<1>7. ASSUME NEW g \in owed[s], g # f
      PROVE  \/ g \in noted \/ \E k \in 1..Len(facts'[s]) : facts'[s][k] = g
             \/ \E k \in 1..Len(channel[s]) : Carries(channel[s][k], g)
  <2>1. CASE \E k \in 1..Len(facts[s]) : facts[s][k] = g
    <3>1. PICK k \in 1..Len(o) : o[k] = g
      BY <1>1, <2>1
    <3>2. k # 1
      BY <1>4, <1>7, <3>1
    <3>3. k - 1 \in 1..Len(t) /\ (k - 1) + 1 = k
      BY <1>4, <3>2
    <3>4. t[k - 1] = g
      BY <1>4, <3>1, <3>3
    <3> QED
      BY <1>6, <3>3, <3>4
  <2>2. CASE ~ \E k \in 1..Len(facts[s]) : facts[s][k] = g
    BY <1>0, <1>2, <2>2 DEF Carried
  <2> QED
    BY <2>1, <2>2
<1>8. CASE ids' = ids + 1 /\ Post(s, <<[op |-> "insert", row |-> Row(ids', f)]>>)
  <2>1. PICK w, ops : w = [op |-> "insert", row |-> Row(ids', f)] /\ ops = <<w>>
    OBVIOUS
  <2>2. Row(ids', f) \in MemoryRows /\ Row(ids', f).id = ids'
    BY <1>2, <1>4, <1>8 DEF Row, MemoryRows, MemoryTypes
  <2>3. w \in WriteOps /\ w.op = "insert" /\ w.row.id = ids + 1 /\ Carries(w, f)
    <3>1. Row(ids', f).text = f
      BY DEF Row
    <3> QED
      BY <1>8, <2>1, <2>2, <3>1 DEF WriteOps, Carries
  <2>4. ops \in Seq(WriteOps) /\ Len(ops) = 1 /\ ops[1] = w
    BY <2>1, <2>3
  <2>5. \A j \in 1..Len(ops) : j = 1 /\ ops[j] = w
    BY <2>4
  <2>6. Post(s, ops)
    BY <1>8, <2>1
  <2>7. ASSUME NEW g \in owed[s]
        PROVE  \/ g \in noted \/ \E k \in 1..Len(facts'[s]) : facts'[s][k] = g
               \/ \E k \in 1..Len(channel[s]) : Carries(channel[s][k], g)
               \/ \E j \in 1..Len(ops) : Carries(ops[j], g)
    <3>1. Carries(ops[1], f) /\ 1 \in 1..Len(ops)
      BY <2>3, <2>4
    <3> QED
      BY <1>7, <3>1
  <2> QED
    BY <1>0, <1>6, <1>8, <2>3, <2>4, <2>5, <2>6, <2>7, PostStep
<1>9. ASSUME NEW r \in memories, ids' = ids, ~Duplicate(f, r), Post(s, <<[op |-> "approval", fact |-> f, conflict |-> r.id]>>)
      PROVE  MemoryInv'
  <2>1. PICK w, ops : w = [op |-> "approval", fact |-> f, conflict |-> r.id] /\ ops = <<w>>
    OBVIOUS
  <2>2. r.id \in Nat
    BY <1>2 DEF MemoryTypes, MemoryRows
  <2>3. w \in WriteOps /\ w.op = "approval" /\ Carries(w, f) /\ ~Inserts(w)
    BY <1>4, <2>1, <2>2 DEF WriteOps, Carries, Inserts
  <2>4. ops \in Seq(WriteOps) /\ Len(ops) = 1 /\ ops[1] = w
    BY <2>1, <2>3
  <2>5. \A j \in 1..Len(ops) : j = 1 /\ ops[j] = w
    BY <2>4
  <2>6. Post(s, ops)
    BY <1>9, <2>1
  <2>7. ASSUME NEW g \in owed[s]
        PROVE  \/ g \in noted \/ \E k \in 1..Len(facts'[s]) : facts'[s][k] = g
               \/ \E k \in 1..Len(channel[s]) : Carries(channel[s][k], g)
               \/ \E j \in 1..Len(ops) : Carries(ops[j], g)
    <3>1. Carries(ops[1], f) /\ 1 \in 1..Len(ops)
      BY <2>3, <2>4
    <3> QED
      BY <1>7, <3>1
  <2> QED
    BY <1>0, <1>6, <1>9, <2>3, <2>4, <2>5, <2>6, <2>7, PostStep
<1>10. ASSUME NEW r \in memories, ids' = ids, Duplicate(f, r), UNCHANGED <<channel, unacked, cycle>>
       PROVE  MemoryInv'
  <2>1. f \in noted
    BY <1>2, <1>4, <1>10, MemoryAssumption DEF Duplicate, Known
  <2>2. Stored' = Stored /\ Asked' = Asked /\ IdsOf(memories)' = IdsOf(memories) /\ IdsOf(quarantine)' = IdsOf(quarantine)
    BY <1>0 DEF Stored, Asked, IdsOf
  <2>3. MemoryTypes'
    BY <1>0, <1>2, <1>6, <1>10 DEF MemoryTypes, MemoryRows
  <2>4. Apart(channel') /\ Unused(channel', ids', Stored', Asked') /\ Reviewable(channel', torn', quarantine', reviews')
        /\ Followed(channel', cycle')
    BY <1>0, <1>10, <2>2 DEF MemoryInv
  <2>5. Reviewed' /\ Known' /\ Orphaned'
    BY <1>0, <1>10, <2>2 DEF MemoryInv, Reviewed, Known, Orphaned
  <2>6. ASSUME NEW a \in Sweeps PROVE Carried(a)'
    <3>1. CASE a # s
      BY <1>0, <1>6, <1>10, <3>1 DEF MemoryInv, Carried
    <3>2. CASE a = s
      BY <1>0, <1>7, <1>10, <2>1, <3>2 DEF Carried
    <3> QED
      BY <3>1, <3>2
  <2> QED
    BY <2>3, <2>4, <2>5, <2>6 DEF MemoryInv
<1> QED
  BY <1>1, <1>8, <1>9, <1>10 DEF PlaceFact

\* Steps of a sweep that leave the tables and the channels.
LEMMA Resting ==
  ASSUME MemoryInv, UNCHANGED <<day, memories, vec, quarantine, reviews, approvals, ids, channel, noted, torn, declined>>,
         MemoryTypes', Orphaned', \A a \in Sweeps : Carried(a)',
         \A a \in Sweeps : cycle[a] = "aborted" => cycle'[a] = "aborted" \/ channel[a] = <<>>
  PROVE  MemoryInv'
<1>1. Stored' = Stored /\ Asked' = Asked /\ IdsOf(memories)' = IdsOf(memories) /\ IdsOf(quarantine)' = IdsOf(quarantine)
  BY DEF Stored, Asked, IdsOf
<1>2. Apart(channel') /\ Unused(channel', ids', Stored', Asked') /\ Reviewable(channel', torn', quarantine', reviews')
  BY <1>1 DEF MemoryInv
<1>3. Reviewed' /\ Known'
  BY <1>1 DEF MemoryInv, Reviewed, Known
<1>4. Followed(channel', cycle')
  BY DEF MemoryInv, Followed
<1> QED
  BY <1>2, <1>3, <1>4 DEF MemoryInv

LEMMA CycleStartsStep == ASSUME MemoryInv, NEW s \in Sweeps, CycleStarts(s) PROVE MemoryInv'
<1>1. /\ cycle[s] = "idle" /\ cycle' = [cycle EXCEPT ![s] = "extracting"]
      /\ UNCHANGED <<day, memories, vec, quarantine, reviews, approvals, ids, facts, unacked, channel,
                     owed, noted, torn, interrupted, declined>>
  BY DEF CycleStarts, database, history
<1>2. MemoryTypes
  BY DEF MemoryInv
<1>3. \A a \in Sweeps : cycle'[a] = IF a = s THEN "extracting" ELSE cycle[a]
  BY <1>1, <1>2 DEF MemoryTypes
<1>4. MemoryTypes'
  BY <1>1, <1>2 DEF MemoryTypes, MemoryRows
<1>5. Orphaned'
  BY <1>1, <1>3 DEF MemoryInv, Orphaned, IdsOf
<1>6. ASSUME NEW a \in Sweeps PROVE Carried(a)'
  BY <1>1, <1>3 DEF MemoryInv, Carried
<1> QED
  BY <1>1, <1>3, <1>4, <1>5, <1>6, Resting

\* A list of a finite set.
LEMMA Listed ==
  ASSUME NEW S, IsFiniteSet(S), NEW q \in SetToSeqs(S)
  PROVE  q \in Seq(S)
<1>1. PICK n : n = Cardinality(S)
  OBVIOUS
<1>2. n \in Nat
  BY <1>1, FS_CardinalityType
<1>3. q \in [1..n -> S]
  BY <1>1 DEF SetToSeqs
<1> QED
  BY <1>2, <1>3

LEMMA ExtractedStep == ASSUME MemoryInv, NEW s \in Sweeps, Extracted(s) PROVE MemoryInv'
<1>1. /\ cycle[s] = "extracting" /\ cycle' = [cycle EXCEPT ![s] = "placing"] /\ unacked' = [unacked EXCEPT ![s] = 0]
      /\ UNCHANGED <<day, memories, vec, quarantine, reviews, approvals, ids, channel, noted, torn, interrupted, declined>>
  BY DEF Extracted, database
<1>a. PICK F \in SUBSET Facts : \E q \in SetToSeqs(F) : facts' = [facts EXCEPT ![s] = q] /\ owed' = [owed EXCEPT ![s] = ToSet(q)]
  BY DEF Extracted
<1>2. PICK q \in SetToSeqs(F) : facts' = [facts EXCEPT ![s] = q] /\ owed' = [owed EXCEPT ![s] = ToSet(q)]
  BY <1>a
<1>3. MemoryTypes /\ 0 \in 0..ChannelLimit
  BY MemoryAssumption DEF MemoryInv
<1>4. q \in Seq(Facts)
  <2>1. IsFiniteSet(F)
    BY FS_Subset, MemoryAssumption
  <2>2. q \in Seq(F)
    BY <2>1, Listed
  <2> QED
    BY <2>2
<1>5. ToSet(q) = {q[k] : k \in 1..Len(q)}
  BY <1>4 DEF ToSet
<1>6. ToSet(q) \subseteq Facts
  BY <1>4, <1>5
<1>7. \A a \in Sweeps : cycle'[a] = IF a = s THEN "placing" ELSE cycle[a]
  BY <1>1, <1>3 DEF MemoryTypes
<1>8. MemoryTypes'
  BY <1>1, <1>2, <1>3, <1>4, <1>6 DEF MemoryTypes, MemoryRows
<1>9. Orphaned'
  BY <1>1, <1>7 DEF MemoryInv, Orphaned, IdsOf
<1>10. ASSUME NEW a \in Sweeps PROVE Carried(a)'
  <2>1. CASE a # s
    BY <1>1, <1>2, <1>7, <2>1 DEF MemoryInv, Carried
  <2>2. CASE a = s
    <3>1. facts'[s] = q /\ owed'[s] = ToSet(q)
      BY <1>2, <1>3 DEF MemoryTypes
    <3>2. \A f \in owed'[s] : \E k \in 1..Len(facts'[s]) : facts'[s][k] = f
      BY <1>5, <3>1
    <3> QED
      BY <1>7, <2>2, <3>2 DEF Carried
  <2> QED
    BY <2>1, <2>2
<1> QED
  BY <1>1, <1>7, <1>8, <1>9, <1>10, Resting

LEMMA PruneSweepStep == ASSUME MemoryInv, NEW s \in Sweeps, PruneSweep(s) PROVE MemoryInv'
<1>1. /\ cycle[s] = "placing" /\ facts[s] = <<>> /\ cycle' = [cycle EXCEPT ![s] = "pruning"]
      /\ UNCHANGED <<day, memories, vec, quarantine, reviews, approvals, ids, facts, unacked, channel,
                     owed, noted, torn, interrupted, declined>>
  BY DEF PruneSweep, database, history
<1>2. MemoryTypes
  BY DEF MemoryInv
<1>3. \A a \in Sweeps : cycle'[a] = IF a = s THEN "pruning" ELSE cycle[a]
  BY <1>1, <1>2 DEF MemoryTypes
<1>4. MemoryTypes'
  BY <1>1, <1>2 DEF MemoryTypes, MemoryRows
<1>5. Orphaned'
  BY <1>1, <1>3 DEF MemoryInv, Orphaned, IdsOf
<1>6. ASSUME NEW a \in Sweeps PROVE Carried(a)'
  <2>1. CASE a # s
    BY <1>1, <1>3, <2>1 DEF MemoryInv, Carried
  <2>2. CASE a = s
    <3>1. ~ \E k \in 1..Len(facts[s]) : TRUE
      BY <1>1
    <3>2. \A f \in owed[s] : f \in noted \/ \E k \in 1..Len(channel[s]) : Carries(channel[s][k], f)
      BY <1>1, <3>1 DEF MemoryInv, Carried
    <3> QED
      BY <1>1, <2>2, <3>2 DEF Carried
  <2> QED
    BY <2>1, <2>2
<1> QED
  BY <1>1, <1>3, <1>4, <1>5, <1>6, Resting

LEMMA CycleEndsStep == ASSUME MemoryInv, NEW s \in Sweeps, CycleEnds(s) PROVE MemoryInv'
<1>1. /\ channel[s] = <<>> /\ cycle' = [cycle EXCEPT ![s] = "idle"]
      /\ interrupted' = (interrupted \/ cycle[s] = "aborted")
      /\ UNCHANGED <<day, memories, vec, quarantine, reviews, approvals, ids, facts, unacked, channel,
                     owed, noted, torn, declined>>
  BY DEF CycleEnds, database
<1>2. MemoryTypes
  BY DEF MemoryInv
<1>3. \A a \in Sweeps : cycle'[a] = IF a = s THEN "idle" ELSE cycle[a]
  BY <1>1, <1>2 DEF MemoryTypes
<1>4. MemoryTypes'
  BY <1>1, <1>2 DEF MemoryTypes, MemoryRows
<1>5. Orphaned'
  <2>1. CASE cycle[s] = "aborted"
    BY <1>1, <2>1 DEF Orphaned
  <2>2. CASE cycle[s] # "aborted"
    <3>1. interrupted => interrupted'
      BY <1>1
    <3>2. \A a \in Sweeps : cycle[a] = "aborted" => cycle'[a] = "aborted"
      BY <1>3, <2>2
    <3> QED
      BY <1>1, <3>1, <3>2 DEF MemoryInv, Orphaned, IdsOf
  <2> QED
    BY <2>1, <2>2
<1>6. ASSUME NEW a \in Sweeps PROVE Carried(a)'
  BY <1>1, <1>3 DEF MemoryInv, Carried
<1> QED
  BY <1>1, <1>3, <1>4, <1>5, <1>6, Resting

\* The deletes that a sweep posts name distinct ids of memories.
LEMMA PostPruneStep == ASSUME MemoryInv, NEW s \in Sweeps, PostPrune(s) PROVE MemoryInv'
<1>1. /\ cycle[s] = "pruning"
      /\ UNCHANGED <<day, memories, vec, quarantine, reviews, approvals, ids, facts,
                     owed, noted, torn, interrupted, declined>>
  BY DEF PostPrune, database, history
<1>2. PICK q \in SetToSeqs(IdsOf(Older(FarAge))) :
        Post(s, [i \in 1..Len(q) |-> [op |-> "delete", id |-> q[i]]] \o <<[op |-> "stale"], [op |-> "cleanup"]>>)
  BY DEF PostPrune
<1>3. MemoryTypes
  BY DEF MemoryInv
<1>4. IdsOf(Older(FarAge)) \subseteq Nat
  BY <1>3 DEF IdsOf, Older, MemoryTypes, MemoryRows
<1>5. q \in Seq(Nat) /\ Len(q) \in Nat
  <2>1. PICK S, n : S = IdsOf(Older(FarAge)) /\ n = ids
    OBVIOUS
  <2>2. n \in Nat /\ S \subseteq 1..n
    BY <1>3, <2>1 DEF MemoryInv, MemoryTypes, Reviewed, Stored, IdsOf, Older
  <2>3. IsFiniteSet(1..n)
    BY <2>2, FS_Interval
  <2>4. IsFiniteSet(S)
    BY <2>2, <2>3, FS_Subset
  <2>5. q \in Seq(S)
    BY <2>1, <2>4, Listed
  <2> QED
    BY <1>4, <2>1, <2>5
<1>6. PICK e, st, cl : /\ e = [i \in 1..Len(q) |-> [op |-> "delete", id |-> q[i]]]
                       /\ st = [op |-> "stale"] /\ cl = [op |-> "cleanup"]
  OBVIOUS
<1>7. \A i \in 1..Len(q) : e[i] \in WriteOps /\ e[i].op = "delete"
  BY <1>5, <1>6 DEF WriteOps
<1>8. st \in WriteOps /\ cl \in WriteOps /\ st.op = "stale" /\ cl.op = "cleanup"
  BY <1>6 DEF WriteOps
<1>9. e \in Seq(WriteOps) /\ Len(e) = Len(q)
  BY <1>5, <1>6, <1>7
<1>10. PICK u, ops : u = <<st, cl>> /\ ops = e \o u
  OBVIOUS
<1>11. u \in Seq(WriteOps) /\ Len(u) = 2 /\ u[1] = st /\ u[2] = cl
  BY <1>8, <1>10
<1>12. ops \in Seq(WriteOps) /\ Len(ops) = Len(q) + 2 /\ \A j \in 1..Len(q) : ops[j] = e[j]
  BY <1>5, <1>9, <1>10, <1>11
<1>13. ops[Len(q) + 1] = st /\ ops[Len(q) + 2] = cl
  BY <1>5, <1>9, <1>10, <1>11
<1>14. \A j \in 1..Len(ops) : j \in 1..Len(q) \/ j = Len(q) + 1 \/ j = Len(q) + 2
  BY <1>5, <1>12
<1>15. \A j \in 1..Len(ops) : ops[j].op \in {"delete", "stale", "cleanup"} /\ (ops[j].op = "stale" => j = Len(q) + 1)
  BY <1>7, <1>8, <1>12, <1>13, <1>14
<1>16. \A j \in 1..Len(ops) : ops[j].op # "review" /\ ~Inserts(ops[j])
  BY <1>15 DEF Inserts
<1>17. \A j \in 1..Len(ops) : ops[j].op = "stale" => \E i \in 1..Len(ops) : i > j /\ ops[i].op = "cleanup"
  <2>1. Len(q) + 2 \in 1..Len(ops) /\ Len(q) + 2 > Len(q) + 1 /\ ops[Len(q) + 2].op = "cleanup"
    BY <1>5, <1>8, <1>12, <1>13
  <2> QED
    BY <1>15, <2>1
<1>18. Post(s, ops)
  BY <1>2, <1>6, <1>10
<1>19. facts' \in [Sweeps -> Seq(Facts)] /\ facts' = facts
  BY <1>1, <1>3 DEF MemoryTypes
<1> QED
  BY <1>1, <1>12, <1>16, <1>17, <1>18, <1>19, PostStep

\* A plugin sends what it has for a new document.
LEMMA IngestedStep ==
  ASSUME MemoryInv, NEW t \in Ingests, channel[t] = <<>>, NEW sent \in Seq(WriteOps), channel' = [channel EXCEPT ![t] = sent],
         ids' = ids + 1, Sendable(sent, ids, ids + 1), \A j \in 1..Len(sent) : sent[j].op # "stale",
         UNCHANGED <<day, memories, vec, quarantine, reviews, approvals, cycle, facts, unacked,
                     owed, noted, torn, interrupted, declined>>
  PROVE  MemoryInv'
<1>0. t \in Chans /\ MemoryTypes
  BY DEF Chans, MemoryInv
<1>1. PICK o : o = channel[t]
  OBVIOUS
<1>2. o = <<>> /\ o \o sent = sent
  BY <1>1
<1>3. channel' = [channel EXCEPT ![t] = @ \o sent]
  BY <1>1, <1>2
<1>4. Sendable(sent, ids, ids') /\ ids' \in {ids, ids + 1}
  OBVIOUS
<1>5. /\ Extended(channel, channel', t, sent)
      /\ Apart(channel') /\ Unused(channel', ids', Stored', Asked')
      /\ Reviewed' /\ Reviewable(channel', torn', quarantine', reviews')
      /\ Known' /\ Followed(channel', cycle') /\ Orphaned'
  BY <1>0, <1>3, <1>4, Sending
<1>6. ASSUME NEW a \in Sweeps PROVE Carried(a)'
  <2>1. a \in Chans /\ Carried(a)
    BY DEF MemoryInv, Chans
  <2>2. \A k \in 1..Len(channel[a]) : k \in 1..Len(channel'[a]) /\ channel'[a][k] = channel[a][k]
    BY <1>5, <2>1, Zenon DEF Extended
  <2> QED
    BY <2>1, <2>2, CarriedKeeps
<1>7. channel' \in [Chans -> Seq(WriteOps)]
  BY <1>5 DEF Extended
<1>8. MemoryTypes'
  BY <1>0, <1>7 DEF MemoryTypes, MemoryRows
<1> QED
  BY <1>5, <1>6, <1>8 DEF MemoryInv

LEMMA IngestStep == ASSUME MemoryInv, NEW t \in Ingests, Ingest(t) PROVE MemoryInv'
<1>1. /\ channel[t] = <<>> /\ ids' = ids + 1
      /\ UNCHANGED <<day, memories, vec, quarantine, reviews, approvals, cycle, facts, unacked,
                     owed, noted, torn, interrupted, declined>>
  BY DEF Ingest, database, history
<1>2. PICK d \in Documents : channel' = [channel EXCEPT ![t] = <<[op |-> "quarantine", row |-> Row(ids', d)], [op |-> "review", id |-> ids']>>]
  BY DEF Ingest
<1>3. PICK w, v, sent : w = [op |-> "quarantine", row |-> Row(ids', d)] /\ v = [op |-> "review", id |-> ids'] /\ sent = <<w, v>>
  OBVIOUS
<1>4. ids' \in Nat /\ day \in Nat
  BY <1>1 DEF MemoryInv, MemoryTypes
<1>5. Row(ids', d) \in MemoryRows /\ Row(ids', d).id = ids' /\ Row(ids', d).text = d
  BY <1>4 DEF Row, MemoryRows
<1>6. w \in WriteOps /\ w.op = "quarantine" /\ w.row.id = ids + 1 /\ w.row.text = d
  BY <1>1, <1>3, <1>5 DEF WriteOps
<1>7. v \in WriteOps /\ v.op = "review" /\ v.id = ids + 1 /\ ~Inserts(v)
  BY <1>1, <1>3, <1>4 DEF WriteOps, Inserts
<1>8. sent \in Seq(WriteOps) /\ Len(sent) = 2 /\ sent[1] = w /\ sent[2] = v
  BY <1>3, <1>6, <1>7
<1>9. \A j \in 1..Len(sent) : (j = 1 /\ sent[j] = w) \/ (j = 2 /\ sent[j] = v)
  BY <1>8
<1>10. Sendable(sent, ids, ids + 1) /\ \A j \in 1..Len(sent) : sent[j].op # "stale"
  <2>1. 1 \in 1..Len(sent) /\ 2 \in 1..Len(sent)
    BY <1>8
  <2> QED
    BY <1>6, <1>7, <1>8, <1>9, <2>1 DEF Sendable
<1>11. channel' = [channel EXCEPT ![t] = sent]
  BY <1>2, <1>3
<1> QED
  BY <1>1, <1>8, <1>10, <1>11, IngestedStep

LEMMA StoreAstStep == ASSUME MemoryInv, NEW t \in Ingests, StoreAst(t) PROVE MemoryInv'
<1>1. /\ channel[t] = <<>> /\ ids' = ids + 1
      /\ UNCHANGED <<day, memories, vec, quarantine, reviews, approvals, cycle, facts, unacked,
                     owed, noted, torn, interrupted, declined>>
  BY DEF StoreAst, database, history
<1>2. PICK d \in Documents : channel' = [channel EXCEPT ![t] = <<[op |-> "embed", row |-> Row(ids', d)]>>]
  BY DEF StoreAst
<1>3. PICK w, sent : w = [op |-> "embed", row |-> Row(ids', d)] /\ sent = <<w>>
  OBVIOUS
<1>4. ids' \in Nat /\ day \in Nat
  BY <1>1 DEF MemoryInv, MemoryTypes
<1>5. Row(ids', d) \in MemoryRows /\ Row(ids', d).id = ids' /\ Row(ids', d).text = d
  BY <1>4 DEF Row, MemoryRows
<1>6. w \in WriteOps /\ w.op = "embed" /\ w.row.id = ids + 1 /\ w.row.text = d
  BY <1>1, <1>3, <1>5 DEF WriteOps
<1>8. sent \in Seq(WriteOps) /\ Len(sent) = 1 /\ sent[1] = w
  BY <1>3, <1>6
<1>9. \A j \in 1..Len(sent) : j = 1 /\ sent[j] = w
  BY <1>8
<1>10. Sendable(sent, ids, ids + 1) /\ \A j \in 1..Len(sent) : sent[j].op # "stale"
  BY <1>6, <1>8, <1>9 DEF Sendable
<1>11. channel' = [channel EXCEPT ![t] = sent]
  BY <1>2, <1>3
<1> QED
  BY <1>1, <1>8, <1>10, <1>11, IngestedStep

\* What stays when the write at the head of a channel has left it.
Left(c, w) ==
  /\ w \in WriteOps /\ Shifted(channel, channel', c) /\ Apart(channel') /\ Heads(channel, channel', c, w)
  /\ Inserts(w) => w.row.id \in 1..ids /\ w.row.id \notin Stored
  /\ w.op = "review" => w.id \in 1..ids /\ w.id \notin Asked
  /\ w.op \in {"embed", "quarantine"} => w.row.text \in Documents
  /\ \A x \in quarantine : \/ x.id \in torn \/ (x.id \in DOMAIN reviews /\ reviews[x.id] = "pending")
                           \/ w.op = "review" /\ w.id = x.id
                           \/ \E d \in Chans : \E k \in 1..Len(channel'[d]) : channel'[d][k].op = "review" /\ channel'[d][k].id = x.id
  /\ Followed(channel', cycle)
  /\ w.op # "cleanup" /\ (\E d \in Chans : \E k \in 1..Len(channel[d]) : channel[d][k].op = "cleanup")
       => \E d \in Chans : \E k \in 1..Len(channel'[d]) : channel'[d][k].op = "cleanup"
  /\ w.op = "stale" => \/ \E s \in Sweeps : cycle[s] = "aborted"
                       \/ \E d \in Chans : \E k \in 1..Len(channel'[d]) : channel'[d][k].op = "cleanup"
  /\ \A s \in Sweeps : \A f : (\E k \in 1..Len(channel[s]) : Carries(channel[s][k], f))
       => (s = c /\ Carries(w, f)) \/ \E k \in 1..Len(channel'[s]) : Carries(channel'[s][k], f)

LEMMA Leaving ==
  ASSUME MemoryInv, NEW c \in Chans, channel[c] # <<>>, channel' = [channel EXCEPT ![c] = Tail(@)],
         NEW w, w = Head(channel[c])
  PROVE  Left(c, w)
<1>1. PICK q, r, o : q = channel /\ r = channel' /\ o = channel[c]
  OBVIOUS
<1>2. q \in [Chans -> Seq(WriteOps)] /\ o \in Seq(WriteOps) /\ o # <<>> /\ q[c] = o
  BY <1>1 DEF MemoryInv, MemoryTypes
<1>3. w = o[1] /\ w \in WriteOps /\ Len(o) \in Nat /\ 1 \in 1..Len(o)
  BY <1>1, <1>2
<1>4. r = [q EXCEPT ![c] = Tail(@)]
  BY <1>1
<1>5. Shifted(q, r, c)
  BY <1>2, <1>4, ShiftedFacts
<1>6. Apart(q) /\ 1 \in 1..Len(q[c]) /\ w = q[c][1]
  BY <1>1, <1>2, <1>3 DEF MemoryInv
<1>7. Apart(r)
  BY <1>5, <1>6, ShiftApart
<1>8. Heads(q, r, c, w)
  BY <1>5, <1>6, HeadApart
<1>9. /\ Inserts(w) => w.row.id \in 1..ids /\ w.row.id \notin Stored
      /\ w.op = "review" => w.id \in 1..ids /\ w.id \notin Asked
      /\ w.op \in {"embed", "quarantine"} => w.row.text \in Documents
  BY <1>1, <1>6 DEF MemoryInv, Unused
<1>10. \A d \in Chans : \A k \in 1..Len(q[d]) : (d = c /\ q[d][k] = w) \/ \E l \in 1..Len(r[d]) : r[d][l] = q[d][k] /\ Past(c, d, l) = k
  <2>1. SUFFICES ASSUME NEW d \in Chans, NEW k \in 1..Len(q[d]), ~(d = c /\ k = 1)
                 PROVE  \E l \in 1..Len(r[d]) : r[d][l] = q[d][k] /\ Past(c, d, l) = k
    BY <1>6
  <2>2. PICK l \in 1..Len(r[d]) : Past(c, d, l) = k
    BY <1>5, <2>1, Zenon DEF Shifted
  <2>3. r[d][l] = q[d][Past(c, d, l)]
    BY <1>5, Zenon DEF Shifted
  <2> QED
    BY <2>2, <2>3
<1>11. ASSUME NEW x \in quarantine, x.id \notin torn, ~(x.id \in DOMAIN reviews /\ reviews[x.id] = "pending"), ~(w.op = "review" /\ w.id = x.id)
       PROVE  \E d \in Chans : \E k \in 1..Len(r[d]) : r[d][k].op = "review" /\ r[d][k].id = x.id
  <2>1. PICK d \in Chans : \E k \in 1..Len(q[d]) : q[d][k].op = "review" /\ q[d][k].id = x.id
    BY <1>1, <1>11 DEF MemoryInv, Reviewable
  <2>2. PICK k \in 1..Len(q[d]) : q[d][k].op = "review" /\ q[d][k].id = x.id
    BY <2>1
  <2>3. PICK l \in 1..Len(r[d]) : r[d][l] = q[d][k]
    BY <1>10, <1>11, <2>2
  <2> QED
    BY <2>2, <2>3
<1>12. ASSUME NEW d \in Chans, NEW k \in 1..Len(r[d]), r[d][k].op = "stale", ~(d \in Sweeps /\ cycle[d] = "aborted")
       PROVE  \E l \in 1..Len(r[d]) : l > k /\ r[d][l].op = "cleanup"
  <2>1. PICK p : p = Past(c, d, k)
    OBVIOUS
  <2>2. p \in 1..Len(q[d]) /\ r[d][k] = q[d][p] /\ k \in Nat /\ p \in Nat /\ p >= 1
    BY <1>5, <2>1 DEF Shifted
  <2>3. PICK m \in 1..Len(q[d]) : m > p /\ q[d][m].op = "cleanup"
    BY <1>1, <1>12, <2>2 DEF MemoryInv, Followed
  <2>4. ~(d = c /\ m = 1)
    BY <2>2, <2>3
  <2>5. PICK l \in 1..Len(r[d]) : Past(c, d, l) = m
    BY <1>5, <2>3, <2>4, Zenon DEF Shifted
  <2>6. r[d][l] = q[d][m]
    BY <1>5, <2>5 DEF Shifted
  <2>7. l > k
    BY <2>1, <2>2, <2>3, <2>5 DEF Past
  <2> QED
    BY <2>3, <2>6, <2>7
<1>13. Followed(r, cycle)
  BY <1>12, Zenon DEF Followed
<1>14. ASSUME w.op # "cleanup", NEW d \in Chans, NEW k \in 1..Len(q[d]), q[d][k].op = "cleanup"
       PROVE  \E e \in Chans : \E l \in 1..Len(r[e]) : r[e][l].op = "cleanup"
  BY <1>10, <1>14
<1>15. ASSUME w.op = "stale", ~ \E s \in Sweeps : cycle[s] = "aborted"
       PROVE  \E e \in Chans : \E l \in 1..Len(r[e]) : r[e][l].op = "cleanup"
  <2>1. PICK m \in 1..Len(q[c]) : q[c][m].op = "cleanup"
    BY <1>1, <1>6, <1>15 DEF MemoryInv, Followed
  <2> QED
    BY <1>14, <1>15, <2>1
<1>16. ASSUME NEW s \in Sweeps, NEW f, NEW k \in 1..Len(q[s]), Carries(q[s][k], f), ~(s = c /\ Carries(w, f))
       PROVE  \E l \in 1..Len(r[s]) : Carries(r[s][l], f)
  <2>1. s \in Chans
    BY DEF Chans
  <2>2. PICK l \in 1..Len(r[s]) : r[s][l] = q[s][k]
    BY <1>10, <1>16, <2>1
  <2> QED
    BY <1>16, <2>2
<1>17. \A x \in quarantine : \/ x.id \in torn \/ (x.id \in DOMAIN reviews /\ reviews[x.id] = "pending")
                             \/ w.op = "review" /\ w.id = x.id
                             \/ \E d \in Chans : \E k \in 1..Len(channel'[d]) : channel'[d][k].op = "review" /\ channel'[d][k].id = x.id
  <2>1. SUFFICES ASSUME NEW x \in quarantine, x.id \notin torn,
                        ~(x.id \in DOMAIN reviews /\ reviews[x.id] = "pending"), ~(w.op = "review" /\ w.id = x.id)
                 PROVE  \E d \in Chans : \E k \in 1..Len(r[d]) : r[d][k].op = "review" /\ r[d][k].id = x.id
    BY <1>1
  <2> QED
    BY <1>11, <2>1
<1>18. w.op # "cleanup" /\ (\E d \in Chans : \E k \in 1..Len(channel[d]) : channel[d][k].op = "cleanup")
         => \E d \in Chans : \E k \in 1..Len(channel'[d]) : channel'[d][k].op = "cleanup"
  BY <1>1, <1>14
<1>19. w.op = "stale" => \/ \E s \in Sweeps : cycle[s] = "aborted"
                         \/ \E d \in Chans : \E k \in 1..Len(channel'[d]) : channel'[d][k].op = "cleanup"
  BY <1>1, <1>15
<1>20. \A s \in Sweeps : \A f : (\E k \in 1..Len(channel[s]) : Carries(channel[s][k], f))
         => (s = c /\ Carries(w, f)) \/ \E k \in 1..Len(channel'[s]) : Carries(channel'[s][k], f)
  BY <1>1, <1>16
<1>21. Shifted(channel, channel', c) /\ Apart(channel') /\ Heads(channel, channel', c, w) /\ Followed(channel', cycle)
  BY <1>1, <1>5, <1>7, <1>8, <1>13
<1> QED
  BY <1>3, <1>9, <1>17, <1>18, <1>19, <1>20, <1>21, Zenon DEF Left

\* The ids the tables hold afterwards: those they held, and the one that arrived.
Takes(x) == Gains(channel', Stored, Asked, Stored', Asked', x)

\* Nothing more is owed, and a fact the write carried is noted or owed no more.
Paid(c, w) ==
  /\ \A s \in Sweeps : owed'[s] \subseteq owed[s]
  /\ \A f : Carries(w, f) => f \in noted' \/ (c \in Sweeps => f \notin owed'[c])

LEMMA Settling ==
  ASSUME MemoryInv, NEW c \in Chans, NEW w, Left(c, w), NEW x, Takes(x), noted \subseteq noted',
         UNCHANGED <<ids, cycle, facts, unacked>>, Paid(c, w)
  PROVE  /\ Apart(channel') /\ Unused(channel', ids', Stored', Asked') /\ Followed(channel', cycle')
         /\ \A a \in Sweeps : Carried(a)'
         /\ channel' \in [Chans -> Seq(WriteOps)]
<1>1. Shifted(channel, channel', c) /\ Apart(channel') /\ Followed(channel', cycle') /\ channel' \in [Chans -> Seq(WriteOps)]
  BY DEF Left, Shifted
<1>2. Unused(channel', ids', Stored', Asked')
  <2>1. PICK q, r, n, st, as, st2, as2 : /\ q = channel /\ r = channel' /\ n = ids /\ st = Stored /\ as = Asked
                                         /\ st2 = Stored' /\ as2 = Asked'
    OBVIOUS
  <2>2. Shifted(q, r, c) /\ Unused(q, n, st, as)
    BY <1>1, <2>1 DEF MemoryInv
  <2>3. Gains(r, st, as, st2, as2, x)
    BY <2>1 DEF Takes
  <2>4. Unused(r, n, st2, as2)
    BY <2>2, <2>3, ShiftUnused
  <2> QED
    BY <2>1, <2>4
<1>3. \A s \in Sweeps : \A f : (\E k \in 1..Len(channel[s]) : Carries(channel[s][k], f))
        => (s = c /\ Carries(w, f)) \/ \E k \in 1..Len(channel'[s]) : Carries(channel'[s][k], f)
  BY Zenon DEF Left
<1>4. ASSUME NEW a \in Sweeps PROVE Carried(a)'
  <2>1. SUFFICES ASSUME cycle[a] \in {"placing", "pruning", "posted"}, NEW f \in owed'[a], f \notin noted',
                        ~(cycle[a] = "placing" /\ \E k \in 1..Len(facts[a]) : facts[a][k] = f)
                 PROVE  \E k \in 1..Len(channel'[a]) : Carries(channel'[a][k], f)
    BY DEF Carried
  <2>2. \E k \in 1..Len(channel[a]) : Carries(channel[a][k], f)
    BY <2>1 DEF MemoryInv, Carried, Paid
  <2> QED
    BY <1>3, <2>1, <2>2 DEF Paid
<1> QED
  BY <1>1, <1>2, <1>4

LEMMA IdsGrow ==
  ASSUME NEW R, NEW y
  PROVE  IdsOf(R \cup {y}) = IdsOf(R) \cup {y.id}
BY DEF IdsOf

\* An insert, with or without its embedding.
LEMMA ArrivesStep ==
  ASSUME MemoryInv, NEW c \in Chans, NEW w, Left(c, w), w.op \in {"insert", "embed"}, NEW y \in MemoryRows,
         y.id = w.row.id, y.text = w.row.text, memories' = memories \cup {y}, vec' \in {vec, vec \cup {w.row.id}},
         noted \subseteq noted', w.op = "insert" => w.row.text \in noted',
         UNCHANGED <<quarantine, reviews, approvals, interrupted>>,
         UNCHANGED <<day, ids, cycle, facts, unacked, owed, torn, declined>>
  PROVE  MemoryInv'
<1>1. PICK x : x = w.row.id
  OBVIOUS
<1>2. Inserts(w) /\ w.op # "review" /\ w.op # "approval" /\ w.op # "cleanup" /\ w.op # "quarantine"
  BY DEF Inserts
<1>3. MemoryTypes
  BY DEF MemoryInv
<1>4. y.id = x
  BY <1>1
<1>5. IdsOf(memories') = IdsOf(memories) \cup {x}
  <2>1. PICK R : R = memories
    OBVIOUS
  <2>2. IdsOf(R \cup {y}) = IdsOf(R) \cup {x}
    BY <1>4, IdsGrow
  <2> QED
    BY <2>1, <2>2
<1>6. x \in 1..ids /\ x \notin Stored
  BY <1>1, <1>2 DEF Left
<1>7. Stored' = Stored \cup {x} /\ Asked' = Asked \cup {x} /\ IdsOf(quarantine') = IdsOf(quarantine)
  BY <1>5 DEF Stored, Asked
<1>8. Takes(x)
  <2>1. \A d \in Chans : \A k \in 1..Len(channel'[d]) : Inserts(channel'[d][k]) => channel'[d][k].row.id # x
    BY <1>1, <1>2 DEF Left, Heads
  <2>2. \A d \in Chans : \A k \in 1..Len(channel'[d]) : channel'[d][k].op = "review" => channel'[d][k].id # x
    BY <1>1, <1>2 DEF Left, Heads
  <2> QED
    BY <1>7, <2>1, <2>2 DEF Takes, Gains
<1>9. Paid(c, w)
  BY <1>2 DEF Carries, Paid
<1>10. /\ Apart(channel') /\ Unused(channel', ids', Stored', Asked') /\ Followed(channel', cycle')
       /\ \A a \in Sweeps : Carried(a)'
       /\ channel' \in [Chans -> Seq(WriteOps)]
  <2>1. noted \subseteq noted' /\ UNCHANGED <<ids, cycle, facts, unacked>>
    OBVIOUS
  <2> QED
    BY <1>8, <1>9, <2>1, Settling
<1>11. MemoryTypes'
  <2>1. memories \cup {y} \subseteq MemoryRows
    BY <1>3, <1>4 DEF MemoryTypes
  <2> QED
    BY <1>3, <1>5, <1>10, <2>1 DEF MemoryTypes
<1>12. Reviewed'
  <2>1. /\ Stored \subseteq 1..ids /\ IdsOf(memories) \cap IdsOf(quarantine) = {}
        /\ declined \subseteq DOMAIN reviews /\ declined \cap (IdsOf(memories) \cup IdsOf(quarantine)) = {}
        /\ \A i \in DOMAIN reviews : reviews[i] = "pending" => i \notin IdsOf(memories)
        /\ \A r \in quarantine : r.text \in Documents
    BY DEF MemoryInv, Reviewed
  <2>2. x \notin IdsOf(quarantine) /\ x \notin DOMAIN reviews /\ x \notin declined
    BY <1>6, <2>1 DEF Stored
  <2>3. Stored' \subseteq 1..ids'
    BY <1>6, <1>7, <2>1
  <2>4. IdsOf(memories') \cap IdsOf(quarantine') = {} /\ declined' \cap (IdsOf(memories') \cup IdsOf(quarantine')) = {}
    <3>1. PICK m, m2, o, e : m = IdsOf(memories) /\ m2 = IdsOf(memories') /\ o = IdsOf(quarantine) /\ e = declined
      OBVIOUS
    <3>2. m2 = m \cup {x} /\ m \cap o = {} /\ e \cap (m \cup o) = {} /\ x \notin o /\ x \notin e
      BY <1>5, <2>1, <2>2, <3>1
    <3>3. m2 \cap o = {} /\ e \cap (m2 \cup o) = {}
      BY <3>2
    <3> QED
      BY <1>7, <3>1, <3>3
  <2>5. \A i \in DOMAIN reviews' : reviews'[i] = "pending" => i \notin IdsOf(memories')
    BY <1>5, <2>1, <2>2
  <2> QED
    BY <2>1, <2>3, <2>4, <2>5 DEF Reviewed
<1>13. Reviewable(channel', torn', quarantine', reviews')
  BY <1>2 DEF Left, Reviewable
<1>14. Known'
  <2>1. y.text \in Documents \cup noted'
    BY DEF Left
  <2> QED
    BY <2>1 DEF MemoryInv, Known
<1>15. Orphaned'
  <2>1. vec \subseteq IdsOf(memories) => vec' \subseteq IdsOf(memories')
    BY <1>1, <1>5
  <2>2. (\E d \in Chans : \E k \in 1..Len(channel[d]) : channel[d][k].op = "cleanup")
          => \E d \in Chans : \E k \in 1..Len(channel'[d]) : channel'[d][k].op = "cleanup"
    BY <1>2, Zenon DEF Left
  <2> QED
    BY <2>1, <2>2 DEF MemoryInv, Orphaned
<1> QED
  BY <1>10, <1>11, <1>12, <1>13, <1>14, <1>15 DEF MemoryInv

\* A document enters quarantine: its review is the next write of its task.
LEMMA QuarantinedStep ==
  ASSUME MemoryInv, NEW c \in Chans, NEW w, Left(c, w), w.op = "quarantine", NEW y \in MemoryRows,
         y.id = w.row.id, y.text = w.row.text, quarantine' = quarantine \cup {y},
         UNCHANGED <<memories, vec, reviews, approvals, noted, interrupted>>,
         UNCHANGED <<day, ids, cycle, facts, unacked, owed, torn, declined>>
  PROVE  MemoryInv'
<1>1. PICK x : x = w.row.id
  OBVIOUS
<1>2. Inserts(w) /\ w.op # "review" /\ w.op # "cleanup"
  BY DEF Inserts
<1>3. MemoryTypes
  BY DEF MemoryInv
<1>4. y.id = x
  BY <1>1
<1>5. IdsOf(quarantine') = IdsOf(quarantine) \cup {x}
  <2>1. PICK R : R = quarantine
    OBVIOUS
  <2>2. IdsOf(R \cup {y}) = IdsOf(R) \cup {x}
    BY <1>4, IdsGrow
  <2> QED
    BY <2>1, <2>2
<1>6. x \in 1..ids /\ x \notin Stored
  BY <1>1, <1>2 DEF Left
<1>7. Stored' = Stored \cup {x} /\ Asked' = Asked /\ IdsOf(memories') = IdsOf(memories)
  BY <1>5 DEF Stored, Asked
<1>a. x \notin Asked
  BY <1>6 DEF Asked, Stored
<1>8. Takes(x)
  <2>1. \A d \in Chans : \A k \in 1..Len(channel'[d]) : Inserts(channel'[d][k]) => channel'[d][k].row.id # x
    BY <1>1, <1>2 DEF Left, Heads
  <2> QED
    BY <1>7, <1>a, <2>1 DEF Takes, Gains
<1>9. Paid(c, w)
  BY <1>2 DEF Carries, Paid
<1>10. /\ Apart(channel') /\ Unused(channel', ids', Stored', Asked') /\ Followed(channel', cycle')
       /\ \A a \in Sweeps : Carried(a)'
       /\ channel' \in [Chans -> Seq(WriteOps)]
  BY <1>8, <1>9, Settling
<1>11. MemoryTypes'
  <2>1. quarantine \cup {y} \subseteq MemoryRows
    BY <1>3 DEF MemoryTypes
  <2> QED
    BY <1>3, <1>10, <2>1 DEF MemoryTypes, MemoryRows
<1>12. Reviewed'
  <2>1. /\ Stored \subseteq 1..ids /\ IdsOf(memories) \cap IdsOf(quarantine) = {}
        /\ declined \subseteq DOMAIN reviews /\ declined \cap (IdsOf(memories) \cup IdsOf(quarantine)) = {}
        /\ \A i \in DOMAIN reviews : reviews[i] = "pending" => i \notin IdsOf(memories)
        /\ \A r \in quarantine : r.text \in Documents
    BY DEF MemoryInv, Reviewed
  <2>2. x \notin IdsOf(memories) /\ x \notin DOMAIN reviews /\ x \notin declined
    BY <1>6, <2>1 DEF Stored
  <2>3. Stored' \subseteq 1..ids'
    BY <1>6, <1>7, <2>1
  <2>4. IdsOf(memories') \cap IdsOf(quarantine') = {} /\ declined' \cap (IdsOf(memories') \cup IdsOf(quarantine')) = {}
    BY <1>5, <1>7, <2>1, <2>2
  <2>5. \A i \in DOMAIN reviews' : reviews'[i] = "pending" => i \notin IdsOf(memories')
    BY <1>7, <2>1
  <2>6. \A r \in quarantine' : r.text \in Documents
    BY <2>1 DEF Left
  <2> QED
    BY <2>1, <2>3, <2>4, <2>5, <2>6 DEF Reviewed
<1>13. Reviewable(channel', torn', quarantine', reviews')
  <2>1. 1 \in 1..Len(channel'[c]) /\ channel'[c][1].op = "review" /\ channel'[c][1].id = y.id
    BY DEF Left, Heads
  <2>2. \A r \in quarantine : \/ r.id \in torn \/ (r.id \in DOMAIN reviews /\ reviews[r.id] = "pending")
                           \/ \E d \in Chans : \E k \in 1..Len(channel'[d]) : channel'[d][k].op = "review" /\ channel'[d][k].id = r.id
    BY <1>2 DEF Left
  <2> QED
    BY <2>1, <2>2 DEF Reviewable
<1>14. Known'
  BY DEF MemoryInv, Known
<1>15. Orphaned'
  <2>2. (\E d \in Chans : \E k \in 1..Len(channel[d]) : channel[d][k].op = "cleanup")
          => \E d \in Chans : \E k \in 1..Len(channel'[d]) : channel'[d][k].op = "cleanup"
    BY <1>2, Zenon DEF Left
  <2> QED
    BY <1>7, <2>2 DEF MemoryInv, Orphaned
<1> QED
  BY <1>10, <1>11, <1>12, <1>13, <1>14, <1>15 DEF MemoryInv

\* The review of a document is asked for.
LEMMA AskedStep ==
  ASSUME MemoryInv, NEW c \in Chans, NEW w, Left(c, w), w.op = "review", AskReview(w.id),
         UNCHANGED <<day, ids, cycle, facts, unacked, owed, torn, declined>>
  PROVE  MemoryInv'
<1>1. PICK x, o : x = w.id /\ o = reviews
  OBVIOUS
<1>2. ~Inserts(w) /\ w.op # "cleanup"
  BY DEF Inserts
<1>3. MemoryTypes
  BY DEF MemoryInv
<1>4. /\ reviews' = [j \in DOMAIN o \cup {x} |-> IF j = x THEN "pending" ELSE o[j]]
      /\ UNCHANGED <<memories, vec, quarantine, approvals, noted, interrupted>>
  BY <1>1 DEF AskReview
<1>5. /\ DOMAIN reviews' = DOMAIN o \cup {x} /\ reviews'[x] = "pending"
      /\ \A j \in DOMAIN o : reviews'[j] = IF j = x THEN "pending" ELSE o[j]
      /\ \A j \in DOMAIN reviews' : j = x \/ j \in DOMAIN o
  BY <1>4
<1>6. x \in 1..ids /\ x \notin Asked
  BY <1>1 DEF Left
<1>7. /\ Stored' = Stored \cup {x} /\ Asked' = Asked \cup {x} /\ IdsOf(memories') = IdsOf(memories)
      /\ IdsOf(quarantine') = IdsOf(quarantine)
  BY <1>1, <1>4, <1>5 DEF Stored, Asked
<1>a. x \notin IdsOf(memories) /\ x \notin DOMAIN reviews
  BY <1>6 DEF Asked
<1>8. Takes(x)
  <2>1. \A d \in Chans : \A k \in 1..Len(channel'[d]) : Inserts(channel'[d][k]) => channel'[d][k].row.id # x
    BY <1>1 DEF Left, Heads
  <2>2. \A d \in Chans : \A k \in 1..Len(channel'[d]) : channel'[d][k].op = "review" => channel'[d][k].id # x
    BY <1>1 DEF Left, Heads
  <2> QED
    BY <1>7, <2>1, <2>2 DEF Takes, Gains
<1>9. Paid(c, w)
  BY DEF Carries, Paid
<1>10. /\ Apart(channel') /\ Unused(channel', ids', Stored', Asked') /\ Followed(channel', cycle')
       /\ \A a \in Sweeps : Carried(a)'
       /\ channel' \in [Chans -> Seq(WriteOps)]
  <2>1. noted \subseteq noted' /\ UNCHANGED <<ids, cycle, facts, unacked>>
    BY <1>4
  <2> QED
    BY <1>8, <1>9, <2>1, Settling
<1>11. MemoryTypes'
  <2>1. reviews' \in [DOMAIN reviews' -> {"pending", "resolved", "rejected"}]
    <3>1. \A j \in DOMAIN o : o[j] \in {"pending", "resolved", "rejected"}
      BY <1>1, <1>3 DEF MemoryTypes
    <3> QED
      BY <1>4, <1>5, <3>1
  <2> QED
    BY <1>3, <1>4, <1>10, <2>1 DEF MemoryTypes, MemoryRows
<1>12. Reviewed'
  <2>1. /\ Stored \subseteq 1..ids /\ IdsOf(memories) \cap IdsOf(quarantine) = {}
        /\ declined \subseteq DOMAIN reviews /\ declined \cap (IdsOf(memories) \cup IdsOf(quarantine)) = {}
        /\ \A i \in DOMAIN reviews : reviews[i] = "pending" => i \notin IdsOf(memories)
        /\ \A r \in quarantine : r.text \in Documents
    BY DEF MemoryInv, Reviewed
  <2>3. Stored' \subseteq 1..ids'
    BY <1>6, <1>7, <2>1
  <2>4. declined' \subseteq DOMAIN reviews'
    BY <1>1, <1>5, <2>1
  <2>5. \A i \in DOMAIN reviews' : reviews'[i] = "pending" => i \notin IdsOf(memories')
    BY <1>1, <1>5, <1>7, <1>a, <2>1
  <2> QED
    BY <1>4, <1>7, <2>1, <2>3, <2>4, <2>5 DEF Reviewed
<1>13. Reviewable(channel', torn', quarantine', reviews')
  <2>2. \A r \in quarantine : \/ r.id \in torn \/ (r.id \in DOMAIN reviews /\ reviews[r.id] = "pending")
                              \/ r.id = x
                              \/ \E d \in Chans : \E k \in 1..Len(channel'[d]) : channel'[d][k].op = "review" /\ channel'[d][k].id = r.id
    BY <1>1 DEF Left
  <2>3. \A r \in quarantine : (r.id \in DOMAIN reviews /\ reviews[r.id] = "pending") \/ r.id = x
                                => r.id \in DOMAIN reviews' /\ reviews'[r.id] = "pending"
    BY <1>1, <1>5
  <2> QED
    BY <1>4, <2>2, <2>3 DEF Reviewable
<1>14. Known'
  BY <1>4 DEF MemoryInv, Known
<1>15. Orphaned'
  <2>2. (\E d \in Chans : \E k \in 1..Len(channel[d]) : channel[d][k].op = "cleanup")
          => \E d \in Chans : \E k \in 1..Len(channel'[d]) : channel'[d][k].op = "cleanup"
    BY <1>2, Zenon DEF Left
  <2> QED
    BY <1>4, <1>7, <2>2 DEF MemoryInv, Orphaned
<1> QED
  BY <1>10, <1>11, <1>12, <1>13, <1>14, <1>15 DEF MemoryInv

\* A conflicting fact is proposed.
LEMMA ProposedStep ==
  ASSUME MemoryInv, NEW c \in Chans, NEW w, Left(c, w), w.op = "approval", Propose(w.fact, w.conflict),
         UNCHANGED <<day, ids, cycle, facts, unacked, owed, torn, declined>>
  PROVE  MemoryInv'
<1>1. PICK o, p, e : o = approvals /\ p = approvals' /\ e = [fact |-> w.fact, conflict |-> w.conflict, status |-> "pending"]
  OBVIOUS
<1>2. ~Inserts(w) /\ w.op # "cleanup" /\ w.op # "review" /\ w \in WriteOps
  BY DEF Inserts, Left
<1>3. MemoryTypes
  BY DEF MemoryInv
<1>4. /\ p = Append(o, e) /\ noted' = noted \cup {w.fact}
      /\ UNCHANGED <<memories, vec, quarantine, reviews, interrupted>>
  BY <1>1 DEF Propose
<1>5. w.fact \in Facts /\ w.conflict \in Nat
  BY <1>2, WriteFacts
<1>6. e \in [fact : Facts, conflict : Nat, status : {"pending", "approved", "rejected", "promoted"}] /\ e.fact = w.fact
  BY <1>1, <1>5
<1>7. /\ o \in Seq([fact : Facts, conflict : Nat, status : {"pending", "approved", "rejected", "promoted"}])
      /\ \A i \in 1..Len(o) : o[i].fact \in noted
  BY <1>1, <1>3 DEF MemoryInv, MemoryTypes, Known
<1>8. /\ p \in Seq([fact : Facts, conflict : Nat, status : {"pending", "approved", "rejected", "promoted"}])
      /\ \A i \in 1..Len(p) : (i \in 1..Len(o) /\ p[i] = o[i]) \/ p[i] = e
  BY <1>4, <1>6, <1>7
<1>9. /\ Stored' = Stored /\ Asked' = Asked /\ IdsOf(memories') = IdsOf(memories) /\ IdsOf(quarantine') = IdsOf(quarantine)
  BY <1>4 DEF Stored, Asked
<1>10. PICK x : x \notin Stored /\ x \notin Asked
  <2>1. Stored \subseteq 1..ids /\ Asked \subseteq Stored /\ ids \in Nat
    BY <1>3 DEF MemoryInv, Reviewed, Stored, Asked, MemoryTypes
  <2>2. 0 \notin 1..ids
    BY <2>1
  <2> QED
    BY <2>1, <2>2
<1>11. Takes(x)
  BY <1>9, <1>10 DEF Takes, Gains
<1>12. Paid(c, w)
  BY <1>4 DEF Carries, Paid
<1>13. /\ Apart(channel') /\ Unused(channel', ids', Stored', Asked') /\ Followed(channel', cycle')
       /\ \A a \in Sweeps : Carried(a)'
       /\ channel' \in [Chans -> Seq(WriteOps)]
  <2>1. noted \subseteq noted' /\ UNCHANGED <<ids, cycle, facts, unacked>>
    BY <1>4
  <2> QED
    BY <1>11, <1>12, <2>1, Settling
<1>14. MemoryTypes'
  BY <1>1, <1>3, <1>4, <1>8, <1>13 DEF MemoryTypes, MemoryRows
<1>15. Reviewed'
  BY <1>4, <1>9 DEF MemoryInv, Reviewed
<1>16. Reviewable(channel', torn', quarantine', reviews')
  BY <1>2, <1>4 DEF Left, Reviewable
<1>17. Known'
  <2>1. \A r \in memories' : r.text \in Documents \cup noted'
    BY <1>4 DEF MemoryInv, Known
  <2>2. \A i \in 1..Len(p) : p[i].fact \in noted'
    BY <1>4, <1>6, <1>7, <1>8
  <2> QED
    BY <1>1, <2>1, <2>2 DEF Known
<1>18. Orphaned'
  <2>2. (\E d \in Chans : \E k \in 1..Len(channel[d]) : channel[d][k].op = "cleanup")
          => \E d \in Chans : \E k \in 1..Len(channel'[d]) : channel'[d][k].op = "cleanup"
    BY <1>2, Zenon DEF Left
  <2> QED
    BY <1>4, <1>9, <2>2 DEF MemoryInv, Orphaned
<1> QED
  BY <1>13, <1>14, <1>15, <1>16, <1>17, <1>18 DEF MemoryInv

\* What a deletion leaves of the tables.
LEMMA Fewer ==
  ASSUME MemoryInv, memories' \subseteq memories, UNCHANGED <<quarantine, reviews, ids, approvals, noted, declined>>
  PROVE  /\ Stored' \subseteq Stored /\ Asked' \subseteq Asked /\ IdsOf(memories') \subseteq IdsOf(memories)
         /\ memories' \subseteq MemoryRows /\ Reviewed' /\ Known'
<1>1. /\ IdsOf(memories') \subseteq IdsOf(memories) /\ IdsOf(quarantine') = IdsOf(quarantine)
      /\ Stored' \subseteq Stored /\ Asked' \subseteq Asked /\ memories' \subseteq MemoryRows
  BY DEF Stored, Asked, IdsOf, MemoryInv, MemoryTypes
<1>2. Reviewed'
  BY <1>1 DEF MemoryInv, Reviewed
<1>3. Known'
  BY DEF MemoryInv, Known
<1> QED
  BY <1>1, <1>2, <1>3

\* A deletion, or a cleanup of the vectors.
LEMMA RemovedStep ==
  ASSUME MemoryInv, NEW c \in Chans, NEW w, Left(c, w), w.op \in {"delete", "stale", "cleanup"},
         memories' \subseteq memories, Orphaned',
         UNCHANGED <<quarantine, reviews, approvals, noted>>,
         UNCHANGED <<day, ids, cycle, facts, unacked, owed, torn, declined>>
  PROVE  MemoryInv'
<1>1. ~Inserts(w) /\ w.op # "review" /\ MemoryTypes
  BY DEF Inserts, MemoryInv
<1>2. /\ Stored' \subseteq Stored /\ Asked' \subseteq Asked
      /\ memories' \subseteq MemoryRows /\ Reviewed' /\ Known'
  BY Fewer
<1>3. PICK x : x \notin Stored /\ x \notin Asked
  <2>1. Stored \subseteq 1..ids /\ Asked \subseteq Stored /\ ids \in Nat
    BY <1>1 DEF MemoryInv, Reviewed, Stored, Asked, MemoryTypes
  <2>2. 0 \notin 1..ids
    BY <2>1
  <2> QED
    BY <2>1, <2>2
<1>4. Takes(x)
  BY <1>2, <1>3 DEF Takes, Gains
<1>5. Paid(c, w)
  BY DEF Carries, Paid
<1>6. /\ Apart(channel') /\ Unused(channel', ids', Stored', Asked') /\ Followed(channel', cycle')
      /\ \A a \in Sweeps : Carried(a)'
      /\ channel' \in [Chans -> Seq(WriteOps)]
  <2>1. noted \subseteq noted' /\ UNCHANGED <<ids, cycle, facts, unacked>>
    OBVIOUS
  <2> QED
    BY <1>4, <1>5, <2>1, Settling
<1>7. MemoryTypes'
  BY <1>1, <1>2, <1>6 DEF MemoryTypes, MemoryRows
<1>8. Reviewable(channel', torn', quarantine', reviews')
  BY <1>1 DEF Left, Reviewable
<1> QED
  BY <1>2, <1>6, <1>7, <1>8 DEF MemoryInv

\* Deleting rows takes their vectors along.
LEMMA DeletesBoth ==
  ASSUME NEW I, DeleteRows(I)
  PROVE  /\ memories' \subseteq memories /\ UNCHANGED <<quarantine, reviews, approvals, noted, interrupted>>
         /\ vec \subseteq IdsOf(memories) => vec' \subseteq IdsOf(memories')
<1>1. /\ memories' = {r \in memories : r.id \notin I} /\ vec' = vec \ I
      /\ UNCHANGED <<quarantine, reviews, approvals, noted, interrupted>>
  BY DEF DeleteRows
<1>2. ASSUME vec \subseteq IdsOf(memories), NEW i \in vec' PROVE i \in IdsOf(memories')
  <2>1. PICK r \in memories : r.id = i
    BY <1>1, <1>2 DEF IdsOf
  <2>2. r \in memories'
    BY <1>1, <2>1
  <2> QED
    BY <2>1, <2>2 DEF IdsOf
<1> QED
  BY <1>1, <1>2

(* A failed write leaves its channel: the fact it carried is owed no more,   *)
(* the document of a review is torn, and orphans wait for the next cleanup. *)
LEMMA DropStep == ASSUME MemoryInv, NEW c \in Chans, Drop(c) PROVE MemoryInv'
<1>1. PICK w : w = Head(channel[c])
  OBVIOUS
<1>2. /\ channel[c] # <<>> /\ channel' = [channel EXCEPT ![c] = Tail(@)]
      /\ UNCHANGED <<day, vec, quarantine, reviews, approvals, ids, cycle, facts, unacked, noted, declined>>
      /\ memories' \subseteq memories /\ (w.op # "delete" => memories' = memories)
      /\ owed' = [s \in Sweeps |-> IF s = c THEN owed[s] \ FactOf(w) ELSE owed[s]]
      /\ torn' = (IF w.op = "review" THEN torn \cup {w.id} ELSE torn)
      /\ interrupted' = (interrupted \/ w.op \in {"delete", "cleanup"})
  BY <1>1 DEF Drop
<1>3. Left(c, w)
  BY <1>1, <1>2, Leaving
<1>4. MemoryTypes
  BY DEF MemoryInv
<1>5. /\ Stored' \subseteq Stored /\ Asked' \subseteq Asked /\ IdsOf(memories') \subseteq IdsOf(memories)
      /\ memories' \subseteq MemoryRows /\ Reviewed' /\ Known'
  BY <1>2, Fewer
<1>6. PICK x : x \notin Stored /\ x \notin Asked
  <2>1. Stored \subseteq 1..ids /\ Asked \subseteq Stored /\ ids \in Nat
    BY <1>4 DEF MemoryInv, Reviewed, Stored, Asked, MemoryTypes
  <2>2. 0 \notin 1..ids
    BY <2>1
  <2> QED
    BY <2>1, <2>2
<1>7. Takes(x)
  BY <1>5, <1>6 DEF Takes, Gains
<1>8. Paid(c, w)
  <2>1. \A f : Carries(w, f) => f \in FactOf(w)
    BY DEF Carries, FactOf
  <2> QED
    BY <1>2, <2>1 DEF Paid
<1>9. /\ Apart(channel') /\ Unused(channel', ids', Stored', Asked') /\ Followed(channel', cycle')
      /\ \A a \in Sweeps : Carried(a)'
      /\ channel' \in [Chans -> Seq(WriteOps)]
  <2>1. noted \subseteq noted' /\ UNCHANGED <<ids, cycle, facts, unacked>>
    BY <1>2
  <2> QED
    BY <1>3, <1>7, <1>8, <2>1, Settling
<1>10. MemoryTypes'
  BY <1>2, <1>4, <1>5, <1>9 DEF MemoryTypes, MemoryRows
<1>11. Reviewable(channel', torn', quarantine', reviews')
  BY <1>2, <1>3 DEF Left, Reviewable
<1>12. Orphaned'
  <2>1. CASE w.op \in {"delete", "cleanup"}
    BY <1>2, <2>1 DEF Orphaned
  <2>2. CASE w.op \notin {"delete", "cleanup"}
    <3>1. (\E d \in Chans : \E k \in 1..Len(channel[d]) : channel[d][k].op = "cleanup")
            => \E d \in Chans : \E k \in 1..Len(channel'[d]) : channel'[d][k].op = "cleanup"
      BY <1>3, <2>2, Zenon DEF Left
    <3> QED
      BY <1>2, <2>2, <3>1 DEF MemoryInv, Orphaned, IdsOf
  <2> QED
    BY <2>1, <2>2
<1> QED
  BY <1>5, <1>9, <1>10, <1>11, <1>12 DEF MemoryInv

LEMMA ApplyStep == ASSUME MemoryInv, NEW c \in Chans, Apply(c) PROVE MemoryInv'
<1>1. /\ channel[c] # <<>> /\ channel' = [channel EXCEPT ![c] = Tail(@)]
      /\ UNCHANGED <<day, ids, cycle, facts, unacked, owed, torn, declined>>
  BY DEF Apply
<1>2. PICK w : w = Head(channel[c])
  OBVIOUS
<1>3. Left(c, w) /\ w \in WriteOps
  <2>1. Left(c, w)
    BY <1>1, <1>2, Leaving
  <2> QED
    BY <2>1 DEF Left
<1>4. \/ w.op = "insert" /\ Insert(w.row)
      \/ w.op = "embed" /\ WriteVector(w.row)
      \/ w.op = "quarantine" /\ Quarantine(w.row)
      \/ w.op = "review" /\ AskReview(w.id)
      \/ w.op = "approval" /\ Propose(w.fact, w.conflict)
      \/ w.op = "delete" /\ DeleteRows({w.id})
      \/ w.op = "stale" /\ DeleteStale
      \/ w.op = "cleanup" /\ CleanOrphans
  BY <1>2 DEF Apply
<1>5. w.op # "cleanup" => ((\E d \in Chans : \E k \in 1..Len(channel[d]) : channel[d][k].op = "cleanup")
        => \E d \in Chans : \E k \in 1..Len(channel'[d]) : channel'[d][k].op = "cleanup")
  BY <1>3, Zenon DEF Left
<1>6. ASSUME Inserts(w)
      PROVE  \E y \in MemoryRows : y = [w.row EXCEPT !.born = day] /\ y.id = w.row.id /\ y.text = w.row.text
  <2>1. PICK d, r : d = day /\ r = w.row
    OBVIOUS
  <2>2. d \in Nat /\ r \in MemoryRows
    BY <1>3, <1>6, <2>1, WriteFacts DEF MemoryInv, MemoryTypes
  <2>3. [r EXCEPT !.born = d] \in MemoryRows /\ [r EXCEPT !.born = d].id = r.id /\ [r EXCEPT !.born = d].text = r.text
    BY <2>2 DEF MemoryRows
  <2> QED
    BY <2>1, <2>3
<1>7. CASE w.op = "insert" /\ Insert(w.row)
  <2>1. PICK y \in MemoryRows : y = [w.row EXCEPT !.born = day] /\ y.id = w.row.id /\ y.text = w.row.text
    BY <1>6, <1>7 DEF Inserts
  <2>2. /\ memories' = memories \cup {y} /\ noted' = noted \cup {w.row.text}
        /\ UNCHANGED <<vec, quarantine, reviews, approvals, interrupted>>
    BY <1>7, <2>1 DEF Insert
  <2>3. vec' \in {vec, vec \cup {w.row.id}} /\ noted \subseteq noted' /\ w.row.text \in noted' /\ w.op \in {"insert", "embed"}
    BY <1>7, <2>2
  <2> QED
    BY <1>1, <1>3, <2>1, <2>2, <2>3, ArrivesStep
<1>8. CASE w.op = "embed" /\ WriteVector(w.row)
  <2>1. PICK y \in MemoryRows : y = [w.row EXCEPT !.born = day] /\ y.id = w.row.id /\ y.text = w.row.text
    BY <1>6, <1>8 DEF Inserts
  <2>2. /\ memories' = memories \cup {y} /\ vec' \in {vec, vec \cup {w.row.id}}
        /\ UNCHANGED <<quarantine, reviews, approvals, noted, interrupted>>
    BY <1>8, <2>1 DEF WriteVector
  <2>3. noted \subseteq noted' /\ w.op # "insert" /\ w.op \in {"insert", "embed"}
    BY <1>8, <2>2
  <2> QED
    BY <1>1, <1>3, <2>1, <2>2, <2>3, ArrivesStep
<1>9. CASE w.op = "quarantine" /\ Quarantine(w.row)
  <2>1. PICK y \in MemoryRows : y = [w.row EXCEPT !.born = day] /\ y.id = w.row.id /\ y.text = w.row.text
    BY <1>6, <1>9 DEF Inserts
  <2>2. quarantine' = quarantine \cup {y} /\ UNCHANGED <<memories, vec, reviews, approvals, noted, interrupted>>
    BY <1>9, <2>1 DEF Quarantine
  <2> QED
    BY <1>1, <1>3, <1>9, <2>1, <2>2, QuarantinedStep
<1>10. CASE w.op = "review" /\ AskReview(w.id)
  BY <1>1, <1>3, <1>10, AskedStep
<1>11. CASE w.op = "approval" /\ Propose(w.fact, w.conflict)
  BY <1>1, <1>3, <1>11, ProposedStep
<1>12. CASE w.op = "delete" /\ DeleteRows({w.id})
  <2>1. PICK i : i = w.id
    OBVIOUS
  <2>2. /\ memories' \subseteq memories /\ UNCHANGED <<quarantine, reviews, approvals, noted, interrupted>>
        /\ vec \subseteq IdsOf(memories) => vec' \subseteq IdsOf(memories')
    BY <1>12, <2>1, DeletesBoth
  <2>3. Orphaned'
    BY <1>1, <1>5, <1>12, <2>2 DEF MemoryInv, Orphaned
  <2> QED
    BY <1>1, <1>3, <1>12, <2>2, <2>3, RemovedStep
<1>13. CASE w.op = "stale" /\ DeleteStale
  <2>1. memories' \subseteq memories /\ UNCHANGED <<quarantine, reviews, approvals, noted>>
    BY <1>13 DEF DeleteStale
  <2>2. \/ \E s \in Sweeps : cycle[s] = "aborted"
        \/ \E d \in Chans : \E k \in 1..Len(channel'[d]) : channel'[d][k].op = "cleanup"
    BY <1>3, <1>13, Zenon DEF Left
  <2>3. Orphaned'
    BY <1>1, <2>2 DEF Orphaned
  <2> QED
    BY <1>1, <1>3, <1>13, <2>1, <2>3, RemovedStep
<1>14. CASE w.op = "cleanup" /\ CleanOrphans
  <2>1. memories' = memories /\ vec' = vec \cap IdsOf(memories) /\ UNCHANGED <<quarantine, reviews, approvals, noted>>
    BY <1>14 DEF CleanOrphans
  <2>2. Orphaned'
    BY <2>1 DEF Orphaned, IdsOf
  <2> QED
    BY <1>1, <1>3, <1>14, <2>1, <2>2, RemovedStep
<1> QED
  BY <1>4, <1>7, <1>8, <1>9, <1>10, <1>11, <1>12, <1>13, <1>14

\* The operator's steps leave the channels and the cycles.
LEMMA ClickStep ==
  ASSUME MemoryInv, UNCHANGED <<cycle, facts, unacked, channel, owed, torn, noted>>,
         ids' \in {ids, ids + 1},
         \A i \in Stored' : i \in Stored \/ i = ids + 1, \A i \in Asked' : i \in Asked \/ i = ids + 1,
         MemoryTypes', Reviewed', Reviewable(channel, torn, quarantine', reviews'), Known', Orphaned'
  PROVE  MemoryInv'
<1>1. PICK q, n, m, st, as, st2, as2 : /\ q = channel /\ n = ids /\ m = ids' /\ st = Stored /\ as = Asked
                                       /\ st2 = Stored' /\ as2 = Asked'
  OBVIOUS
<1>2. n \in Nat /\ m \in {n, n + 1} /\ Unused(q, n, st, as)
  BY <1>1 DEF MemoryInv, MemoryTypes
<1>3. \A i \in 1..n : i \in 1..m /\ i # n + 1
  BY <1>2
<1>4. ASSUME NEW c \in Chans, NEW k \in 1..Len(q[c])
      PROVE  /\ Inserts(q[c][k]) => q[c][k].row.id \in 1..m /\ q[c][k].row.id \notin st2
             /\ q[c][k].op = "review" => q[c][k].id \in 1..m /\ q[c][k].id \notin as2
             /\ q[c][k].op \in {"embed", "quarantine"} => q[c][k].row.text \in Documents
  <2>1. /\ Inserts(q[c][k]) => q[c][k].row.id \in 1..n /\ q[c][k].row.id \notin st
        /\ q[c][k].op = "review" => q[c][k].id \in 1..n /\ q[c][k].id \notin as
        /\ q[c][k].op \in {"embed", "quarantine"} => q[c][k].row.text \in Documents
    BY <1>2, Zenon DEF Unused
  <2>2. (\A i \in st2 : i \in st \/ i = n + 1) /\ (\A i \in as2 : i \in as \/ i = n + 1)
    BY <1>1
  <2> QED
    BY <1>3, <2>1, <2>2
<1>5. Unused(q, m, st2, as2)
  BY <1>4, Zenon DEF Unused
<1>6. Unused(channel', ids', Stored', Asked')
  BY <1>1, <1>5
<1>7. Apart(channel') /\ Followed(channel', cycle') /\ \A s \in Sweeps : Carried(s)'
  BY DEF MemoryInv, Carried
<1>8. Reviewable(channel', torn', quarantine', reviews')
  OBVIOUS
<1> QED
  BY <1>6, <1>7, <1>8 DEF MemoryInv

LEMMA Element ==
  ASSUME NEW S, NEW o \in Seq(S), NEW i \in 1..Len(o)
  PROVE  o[i] \in S
OBVIOUS

\* An approval puts the fact in the place of the memory it conflicts with.
LEMMA ApproveStep == ASSUME MemoryInv, NEW i \in DOMAIN approvals, Approve(i) PROVE MemoryInv'
<1>1. PICK o, a, y, x, p : /\ o = approvals /\ a = approvals[i] /\ y = Row(ids', a.fact) /\ x = ids + 1
                           /\ p = [approvals EXCEPT ![i].status = "approved"]
  OBVIOUS
<1>2. /\ ids' = x /\ memories' = {r \in memories : r.id # a.conflict} \cup {y} /\ vec' = vec \ {a.conflict}
      /\ approvals' = p
      /\ UNCHANGED <<day, quarantine, reviews, cycle, facts, unacked, channel, owed, noted, torn, interrupted, declined>>
  BY <1>1 DEF Approve, history
<1>3. MemoryTypes /\ ids \in Nat /\ x \in Nat /\ day \in Nat
  BY <1>1 DEF MemoryInv, MemoryTypes
<1>4. o \in Seq([fact : Facts, conflict : Nat, status : {"pending", "approved", "rejected", "promoted"}]) /\ i \in 1..Len(o) /\ a = o[i]
  BY <1>1, <1>3 DEF MemoryTypes
<1>b. a \in [fact : Facts, conflict : Nat, status : {"pending", "approved", "rejected", "promoted"}]
  BY <1>4, Element
<1>5. a.fact \in Facts /\ a.fact \in noted
  <2>1. a.fact \in noted
    BY <1>1, <1>4 DEF MemoryInv, Known
  <2> QED
    BY <1>b, <2>1
<1>6. y \in MemoryRows /\ y.id = x /\ y.text = a.fact
  BY <1>1, <1>2, <1>3, <1>5 DEF Row, MemoryRows
<1>7. PICK e : e = [a EXCEPT !.status = "approved"]
  OBVIOUS
<1>8. e \in [fact : Facts, conflict : Nat, status : {"pending", "approved", "rejected", "promoted"}] /\ e.fact = a.fact
  BY <1>7, <1>b
<1>9. p = [o EXCEPT ![i] = e]
  BY <1>1, <1>7
<1>10. /\ p \in Seq([fact : Facts, conflict : Nat, status : {"pending", "approved", "rejected", "promoted"}])
       /\ Len(p) = Len(o) /\ \A k \in 1..Len(p) : p[k] = IF k = i THEN e ELSE o[k]
  BY <1>4, <1>8, <1>9, ExceptSeq
<1>11. /\ \A j \in IdsOf(memories') : j \in IdsOf(memories) \/ j = x
       /\ \A j \in IdsOf(memories) : j # a.conflict => j \in IdsOf(memories')
       /\ IdsOf(quarantine') = IdsOf(quarantine)
  BY <1>2, <1>6 DEF IdsOf
<1>12. (\A j \in Stored' : j \in Stored \/ j = x) /\ (\A j \in Asked' : j \in Asked \/ j = x)
  BY <1>2, <1>11 DEF Stored, Asked
<1>13. MemoryTypes'
  <2>1. memories' \subseteq MemoryRows
    BY <1>2, <1>3, <1>6 DEF MemoryTypes
  <2>2. approvals' \in Seq([fact : Facts, conflict : Nat, status : {"pending", "approved", "rejected", "promoted"}]) /\ ids' \in Nat
    BY <1>2, <1>3, <1>10
  <2> QED
    BY <1>2, <1>3, <2>1, <2>2 DEF MemoryTypes, MemoryRows
<1>14. Reviewed'
  <2>1. /\ Stored \subseteq 1..ids /\ IdsOf(memories) \cap IdsOf(quarantine) = {}
        /\ declined \subseteq DOMAIN reviews /\ declined \cap (IdsOf(memories) \cup IdsOf(quarantine)) = {}
        /\ \A j \in DOMAIN reviews : reviews[j] = "pending" => j \notin IdsOf(memories)
        /\ \A r \in quarantine : r.text \in Documents
    BY DEF MemoryInv, Reviewed
  <2>2. x \notin 1..ids /\ x \in 1..ids' /\ \A j \in 1..ids : j \in 1..ids'
    BY <1>1, <1>2, <1>3
  <2>3. Stored' \subseteq 1..ids'
    BY <1>12, <2>1, <2>2
  <2>4. x \notin IdsOf(quarantine) /\ x \notin DOMAIN reviews /\ x \notin declined
    BY <2>1, <2>2 DEF Stored
  <2>5. IdsOf(memories') \cap IdsOf(quarantine') = {} /\ declined' \cap (IdsOf(memories') \cup IdsOf(quarantine')) = {}
    BY <1>2, <1>11, <2>1, <2>4
  <2>6. \A j \in DOMAIN reviews' : reviews'[j] = "pending" => j \notin IdsOf(memories')
    BY <1>2, <1>11, <2>1, <2>4
  <2> QED
    BY <1>2, <2>1, <2>3, <2>5, <2>6 DEF Reviewed
<1>15. Reviewable(channel, torn, quarantine', reviews')
  BY <1>2 DEF MemoryInv
<1>16. Known'
  <2>1. \A r \in memories' : r.text \in Documents \cup noted'
    BY <1>2, <1>5, <1>6 DEF MemoryInv, Known
  <2>2. \A k \in 1..Len(p) : p[k].fact \in noted'
    BY <1>1, <1>2, <1>5, <1>8, <1>10 DEF MemoryInv, Known
  <2> QED
    BY <1>2, <2>1, <2>2 DEF Known
<1>17. Orphaned'
  <2>1. vec \subseteq IdsOf(memories) => vec' \subseteq IdsOf(memories')
    BY <1>2, <1>11
  <2> QED
    BY <1>2, <2>1 DEF MemoryInv, Orphaned
<1> QED
  BY <1>1, <1>2, <1>12, <1>13, <1>14, <1>15, <1>16, <1>17, ClickStep

LEMMA StatusStep ==
  ASSUME MemoryInv, NEW i \in DOMAIN approvals, NEW st \in {"rejected", "promoted"}, Status(i, st)
  PROVE  MemoryInv'
<1>1. PICK o, a, p : /\ o = approvals /\ a = approvals[i] /\ p = [approvals EXCEPT ![i].status = st]
  OBVIOUS
<1>2. /\ approvals' = p
      /\ UNCHANGED <<day, memories, vec, quarantine, reviews, ids, cycle, facts, unacked, channel,
                     owed, noted, torn, interrupted, declined>>
  BY <1>1 DEF Status, history
<1>3. MemoryTypes
  BY DEF MemoryInv
<1>4. o \in Seq([fact : Facts, conflict : Nat, status : {"pending", "approved", "rejected", "promoted"}]) /\ i \in 1..Len(o) /\ a = o[i]
  BY <1>1, <1>3 DEF MemoryTypes
<1>5. a.fact \in noted
  BY <1>1, <1>4 DEF MemoryInv, Known
<1>7. PICK e : e = [a EXCEPT !.status = st]
  OBVIOUS
<1>8. e \in [fact : Facts, conflict : Nat, status : {"pending", "approved", "rejected", "promoted"}] /\ e.fact = a.fact
  <2>1. a \in [fact : Facts, conflict : Nat, status : {"pending", "approved", "rejected", "promoted"}]
    BY <1>4, Element
  <2> QED
    BY <1>7, <2>1
<1>9. p = [o EXCEPT ![i] = e]
  BY <1>1, <1>7
<1>10. /\ p \in Seq([fact : Facts, conflict : Nat, status : {"pending", "approved", "rejected", "promoted"}])
       /\ Len(p) = Len(o) /\ \A k \in 1..Len(p) : p[k] = IF k = i THEN e ELSE o[k]
  BY <1>4, <1>8, <1>9, ExceptSeq
<1>11. Stored' = Stored /\ Asked' = Asked /\ IdsOf(memories)' = IdsOf(memories) /\ IdsOf(quarantine)' = IdsOf(quarantine)
  BY <1>2 DEF Stored, Asked, IdsOf
<1>12. MemoryTypes'
  BY <1>2, <1>3, <1>10 DEF MemoryTypes, MemoryRows
<1>13. Reviewed' /\ Reviewable(channel, torn, quarantine', reviews') /\ Orphaned'
  BY <1>2, <1>11 DEF MemoryInv, Reviewed, Orphaned
<1>14. Known'
  <2>1. \A k \in 1..Len(p) : p[k].fact \in noted'
    BY <1>1, <1>2, <1>5, <1>8, <1>10 DEF MemoryInv, Known
  <2> QED
    BY <1>2, <2>1 DEF MemoryInv, Known
<1> QED
  BY <1>2, <1>11, <1>12, <1>13, <1>14, ClickStep

\* A review that lets a document in, and one that turns it away.
LEMMA ResolveStep == ASSUME MemoryInv, NEW i \in DOMAIN reviews, Resolve(i) PROVE MemoryInv'
<1>1. /\ reviews' = [reviews EXCEPT ![i] = "resolved"]
      /\ memories' = memories \cup {q \in quarantine : q.id = i} /\ quarantine' = {q \in quarantine : q.id # i}
      /\ UNCHANGED <<day, vec, approvals, ids, cycle, facts, unacked, channel, owed, noted, torn, interrupted, declined>>
  BY DEF Resolve, history
<1>2. MemoryTypes
  BY DEF MemoryInv
<1>3. DOMAIN reviews' = DOMAIN reviews /\ \A j \in DOMAIN reviews : reviews'[j] = IF j = i THEN "resolved" ELSE reviews[j]
  BY <1>1
<1>4. /\ \A j \in IdsOf(memories') : j \in IdsOf(memories) \/ (j = i /\ i \in IdsOf(quarantine))
      /\ IdsOf(memories) \subseteq IdsOf(memories')
      /\ \A j \in IdsOf(quarantine') : j \in IdsOf(quarantine) /\ j # i
  BY <1>1 DEF IdsOf
<1>5. (\A j \in Stored' : j \in Stored) /\ (\A j \in Asked' : j \in Asked)
  BY <1>3, <1>4 DEF Stored, Asked
<1>6. MemoryTypes'
  <2>1. reviews' \in [DOMAIN reviews' -> {"pending", "resolved", "rejected"}]
    BY <1>1, <1>2, <1>3 DEF MemoryTypes
  <2>2. memories' \subseteq MemoryRows /\ quarantine' \subseteq MemoryRows
    BY <1>1, <1>2 DEF MemoryTypes
  <2> QED
    BY <1>1, <1>2, <2>1, <2>2 DEF MemoryTypes, MemoryRows
<1>a. /\ Stored \subseteq 1..ids /\ IdsOf(memories) \cap IdsOf(quarantine) = {}
      /\ declined \subseteq DOMAIN reviews /\ declined \cap (IdsOf(memories) \cup IdsOf(quarantine)) = {}
      /\ \A j \in DOMAIN reviews : reviews[j] = "pending" => j \notin IdsOf(memories)
      /\ \A r \in quarantine : r.text \in Documents
  BY DEF MemoryInv, Reviewed
<1>7. Reviewed'
  <2>1. Stored' \subseteq 1..ids'
    BY <1>1, <1>5, <1>a
  <2>2. IdsOf(memories') \cap IdsOf(quarantine') = {} /\ declined' \cap (IdsOf(memories') \cup IdsOf(quarantine')) = {}
    BY <1>1, <1>4, <1>a
  <2>3. \A j \in DOMAIN reviews' : reviews'[j] = "pending" => j \notin IdsOf(memories')
    BY <1>3, <1>4, <1>a
  <2>4. declined' \subseteq DOMAIN reviews' /\ \A r \in quarantine' : r.text \in Documents
    BY <1>1, <1>3, <1>a
  <2> QED
    BY <2>1, <2>2, <2>3, <2>4 DEF Reviewed
<1>8. Reviewable(channel, torn, quarantine', reviews')
  BY <1>1, <1>3 DEF MemoryInv, Reviewable
<1>9. Known'
  BY <1>1, <1>a DEF MemoryInv, Known
<1>10. Orphaned'
  BY <1>1, <1>4 DEF MemoryInv, Orphaned
<1>11. /\ UNCHANGED <<cycle, facts, unacked, channel, owed, torn, noted>> /\ ids' \in {ids, ids + 1}
       /\ (\A j \in Stored' : j \in Stored \/ j = ids + 1) /\ (\A j \in Asked' : j \in Asked \/ j = ids + 1)
  BY <1>1, <1>5
<1> QED
  BY <1>6, <1>7, <1>8, <1>9, <1>10, <1>11, ClickStep

LEMMA RejectStep == ASSUME MemoryInv, NEW i \in DOMAIN reviews, Reject(i) PROVE MemoryInv'
<1>1. /\ reviews' = [reviews EXCEPT ![i] = "rejected"] /\ quarantine' = {q \in quarantine : q.id # i}
      /\ declined' = IF reviews[i] = "pending" THEN declined \cup {i} ELSE declined
      /\ UNCHANGED <<day, memories, vec, approvals, ids, cycle, facts, unacked, channel, owed, noted, torn, interrupted>>
  BY DEF Reject, Discard
<1>2. MemoryTypes
  BY DEF MemoryInv
<1>3. DOMAIN reviews' = DOMAIN reviews /\ \A j \in DOMAIN reviews : reviews'[j] = IF j = i THEN "rejected" ELSE reviews[j]
  BY <1>1
<1>4. IdsOf(memories') = IdsOf(memories) /\ \A j \in IdsOf(quarantine') : j \in IdsOf(quarantine) /\ j # i
  BY <1>1 DEF IdsOf
<1>5. (\A j \in Stored' : j \in Stored) /\ (\A j \in Asked' : j \in Asked)
  BY <1>3, <1>4 DEF Stored, Asked
<1>6. MemoryTypes'
  <2>1. reviews' \in [DOMAIN reviews' -> {"pending", "resolved", "rejected"}]
    BY <1>1, <1>2, <1>3 DEF MemoryTypes
  <2>2. quarantine' \subseteq MemoryRows
    BY <1>1, <1>2 DEF MemoryTypes
  <2> QED
    BY <1>1, <1>2, <2>1, <2>2 DEF MemoryTypes, MemoryRows
<1>a. /\ Stored \subseteq 1..ids /\ IdsOf(memories) \cap IdsOf(quarantine) = {}
      /\ declined \subseteq DOMAIN reviews /\ declined \cap (IdsOf(memories) \cup IdsOf(quarantine)) = {}
      /\ \A j \in DOMAIN reviews : reviews[j] = "pending" => j \notin IdsOf(memories)
      /\ \A r \in quarantine : r.text \in Documents
  BY DEF MemoryInv, Reviewed
<1>b. \A j \in declined' : j \in declined \/ (j = i /\ reviews[i] = "pending")
  BY <1>1
<1>7. Reviewed'
  <2>1. Stored' \subseteq 1..ids'
    BY <1>1, <1>5, <1>a
  <2>2. IdsOf(memories') \cap IdsOf(quarantine') = {}
    BY <1>4, <1>a
  <2>3. declined' \cap (IdsOf(memories') \cup IdsOf(quarantine')) = {} /\ declined' \subseteq DOMAIN reviews'
    BY <1>3, <1>4, <1>a, <1>b
  <2>4. \A j \in DOMAIN reviews' : reviews'[j] = "pending" => j \notin IdsOf(memories')
    BY <1>3, <1>4, <1>a
  <2>5. \A r \in quarantine' : r.text \in Documents
    BY <1>1, <1>a
  <2> QED
    BY <2>1, <2>2, <2>3, <2>4, <2>5 DEF Reviewed
<1>8. Reviewable(channel, torn, quarantine', reviews')
  BY <1>1, <1>3 DEF MemoryInv, Reviewable
<1>9. Known'
  BY <1>1 DEF MemoryInv, Known
<1>10. Orphaned'
  BY <1>1, <1>4 DEF MemoryInv, Orphaned
<1>11. /\ UNCHANGED <<cycle, facts, unacked, channel, owed, torn, noted>> /\ ids' \in {ids, ids + 1}
       /\ (\A j \in Stored' : j \in Stored \/ j = ids + 1) /\ (\A j \in Asked' : j \in Asked \/ j = ids + 1)
  BY <1>1, <1>5
<1> QED
  BY <1>6, <1>7, <1>8, <1>9, <1>10, <1>11, ClickStep

\* Steps that leave the tables alone, whatever the day.
LEMMA StillStep ==
  ASSUME MemoryInv, day' \in Nat,
         UNCHANGED <<memories, vec, quarantine, reviews, approvals, ids, cycle, facts, unacked, channel,
                     owed, noted, torn, interrupted, declined>>
  PROVE  MemoryInv'
<1>1. Stored' = Stored /\ Asked' = Asked /\ IdsOf(memories') = IdsOf(memories) /\ IdsOf(quarantine') = IdsOf(quarantine)
  BY DEF Stored, Asked
<1>2. MemoryTypes'
  BY DEF MemoryInv, MemoryTypes, MemoryRows
<1>3. Reviewed' /\ Known' /\ Reviewable(channel, torn, quarantine', reviews') /\ Orphaned'
  BY <1>1 DEF MemoryInv, Reviewed, Known, Orphaned
<1> QED
  BY <1>1, <1>2, <1>3, ClickStep

LEMMA ConfirmPruneStep == ASSUME MemoryInv, ConfirmPrune PROVE MemoryInv'
<1>1. PICK I : I = Candidates
  OBVIOUS
<1>2. DeleteRows(I) /\ UNCHANGED <<day, ids, cycle, facts, unacked, channel, owed, torn, declined>>
  BY <1>1 DEF ConfirmPrune
<1>3. /\ memories' \subseteq memories /\ UNCHANGED <<quarantine, reviews, approvals, noted, interrupted>>
      /\ vec \subseteq IdsOf(memories) => vec' \subseteq IdsOf(memories')
  BY <1>2, DeletesBoth
<1>4. /\ Stored' \subseteq Stored /\ Asked' \subseteq Asked
      /\ memories' \subseteq MemoryRows /\ Reviewed' /\ Known'
  BY <1>2, <1>3, Fewer
<1>5. MemoryTypes'
  BY <1>2, <1>3, <1>4 DEF MemoryInv, MemoryTypes, MemoryRows
<1>6. Reviewable(channel, torn, quarantine', reviews')
  BY <1>3 DEF MemoryInv
<1>7. Orphaned'
  BY <1>2, <1>3 DEF MemoryInv, Orphaned
<1> QED
  BY <1>2, <1>3, <1>4, <1>5, <1>6, <1>7, ClickStep

\* What is sent is at some place of a channel.
LEMMA SentAt ==
  ASSUME channel \in [Chans -> Seq(WriteOps)], NEW o
  PROVE  \A w : w \in Sent(o) <=> w.op = o /\ \E c \in Chans : \E k \in 1..Len(channel[c]) : channel[c][k] = w
<1>1. PICK q : q = channel
  OBVIOUS
<1>2. DOMAIN q = Chans /\ \A c \in Chans : q[c] \in Seq(WriteOps) /\ ToSet(q[c]) = {q[c][k] : k \in 1..Len(q[c])}
  BY <1>1 DEF ToSet
<1>3. Sent(o) = {w \in UNION {ToSet(q[c]) : c \in Chans} : w.op = o}
  BY <1>1, <1>2 DEF Sent
<1> QED
  BY <1>1, <1>2, <1>3

LEMMA MemoryCrashStep == ASSUME MemoryInv, MemoryCrash PROVE MemoryInv'
<1>1. MemoryTypes /\ channel \in [Chans -> Seq(WriteOps)] /\ DOMAIN channel = Chans
  BY DEF MemoryInv, MemoryTypes
<1>2. /\ channel' = [c \in Chans |-> <<>>] /\ cycle' = [s \in Sweeps |-> "idle"] /\ facts' = [s \in Sweeps |-> <<>>]
      /\ torn' = torn \cup {w.id : w \in Sent("review")}
      /\ interrupted' = (interrupted \/ Sent("cleanup") # {} \/ "aborted" \in Range(cycle))
      /\ owed' = [s \in Sweeps |-> {}]
      /\ UNCHANGED <<day, memories, vec, quarantine, reviews, approvals, ids, unacked, noted, declined>>
  BY <1>1 DEF MemoryCrash, database
<1>3. \A c \in Chans : channel'[c] = <<>> /\ Len(channel'[c]) = 0
  BY <1>2
<1>4. Stored' = Stored /\ Asked' = Asked /\ IdsOf(memories') = IdsOf(memories) /\ IdsOf(quarantine') = IdsOf(quarantine)
  BY <1>2 DEF Stored, Asked
<1>5. MemoryTypes'
  <2>1. channel' \in [Chans -> Seq(WriteOps)]
    BY <1>2
  <2> QED
    BY <1>1, <1>2, <2>1 DEF MemoryTypes, MemoryRows
<1>6. Apart(channel') /\ Unused(channel', ids', Stored', Asked') /\ Followed(channel', cycle')
  BY <1>3 DEF Apart, Unused, Followed
<1>7. Reviewed' /\ Known'
  BY <1>2, <1>4 DEF MemoryInv, Reviewed, Known
<1>8. Reviewable(channel', torn', quarantine', reviews')
  <2>1. SUFFICES ASSUME NEW r \in quarantine, ~(r.id \in DOMAIN reviews /\ reviews[r.id] = "pending"), r.id \notin torn
                 PROVE  r.id \in torn'
    BY <1>2 DEF Reviewable
  <2>2. PICK c \in Chans : \E k \in 1..Len(channel[c]) : channel[c][k].op = "review" /\ channel[c][k].id = r.id
    BY <2>1 DEF MemoryInv, Reviewable
  <2>3. PICK k \in 1..Len(channel[c]) : channel[c][k].op = "review" /\ channel[c][k].id = r.id
    BY <2>2
  <2>4. channel[c][k] \in Sent("review")
    BY <1>1, <2>3, SentAt
  <2> QED
    BY <1>2, <2>3, <2>4
<1>9. Orphaned'
  <2>1. CASE vec \subseteq IdsOf(memories)
    BY <1>2, <1>4, <2>1 DEF Orphaned
  <2>2. CASE interrupted
    BY <1>2, <2>2 DEF Orphaned
  <2>3. CASE \E s \in Sweeps : cycle[s] = "aborted"
    <3>1. "aborted" \in Range(cycle)
      BY <1>1, <2>3 DEF MemoryTypes, Range
    <3> QED
      BY <1>2, <3>1 DEF Orphaned
  <2>4. CASE \E c \in Chans : \E k \in 1..Len(channel[c]) : channel[c][k].op = "cleanup"
    <3>1. Sent("cleanup") # {}
      BY <1>1, <2>4, SentAt
    <3> QED
      BY <1>2, <3>1 DEF Orphaned
  <2> QED
    BY <2>1, <2>2, <2>3, <2>4 DEF MemoryInv, Orphaned
<1>10. \A s \in Sweeps : Carried(s)'
  BY <1>2 DEF Carried
<1> QED
  BY <1>5, <1>6, <1>7, <1>8, <1>9, <1>10 DEF MemoryInv

LEMMA MemorySteps == MemoryInv /\ [MemoryNext]_mvars => MemoryInv'
<1> SUFFICES ASSUME MemoryInv, [MemoryNext]_mvars PROVE MemoryInv'
  OBVIOUS
<1>1. day \in Nat /\ DOMAIN channel = Chans
  BY DEF MemoryInv, MemoryTypes
<1>2. ASSUME NEW s \in Sweeps,
             CycleStarts(s) \/ Extracted(s) \/ PlaceFact(s) \/ PruneSweep(s) \/ PostPrune(s) \/ CycleEnds(s)
      PROVE  MemoryInv'
  BY <1>2, CycleStartsStep, ExtractedStep, PlaceFactStep, PruneSweepStep, PostPruneStep, CycleEndsStep
<1>3. ASSUME NEW t \in Ingests, Ingest(t) \/ StoreAst(t) PROVE MemoryInv'
  BY <1>3, IngestStep, StoreAstStep
<1>4. ASSUME NEW c \in Chans, Apply(c) \/ Drop(c) PROVE MemoryInv'
  BY <1>4, ApplyStep, DropStep
<1>5. ASSUME NEW i \in DOMAIN approvals, Approve(i) \/ RejectFact(i) \/ Promote(i) PROVE MemoryInv'
  <2>1. Approve(i) \/ Status(i, "rejected") \/ Status(i, "promoted")
    BY <1>5 DEF RejectFact, Promote
  <2> QED
    BY <2>1, ApproveStep, StatusStep
<1>6. ASSUME NEW i \in DOMAIN reviews, Resolve(i) \/ Reject(i) PROVE MemoryInv'
  BY <1>6, ResolveStep, RejectStep
<1>7. CASE PreviewPrune \/ DayPasses \/ UNCHANGED mvars
  <2>1. /\ day' \in Nat
        /\ UNCHANGED <<memories, vec, quarantine, reviews, approvals, ids, cycle, facts, unacked, channel,
                       owed, noted, torn, interrupted, declined>>
    BY <1>1, <1>7 DEF PreviewPrune, DayPasses, database, history, mvars
  <2> QED
    BY <2>1, StillStep
<1>8. ConfirmPrune \/ MemoryCrash => MemoryInv'
  BY ConfirmPruneStep, MemoryCrashStep
<1> QED
  BY <1>1, <1>2, <1>3, <1>4, <1>5, <1>6, <1>7, <1>8 DEF MemoryNext

LEMMA MemoryHolds == MemoryInv => MemoryConsistent
<1> SUFFICES ASSUME MemoryInv PROVE MemoryConsistent
  OBVIOUS
<1>1. MemoryTypes /\ channel \in [Chans -> Seq(WriteOps)]
  BY DEF MemoryInv, MemoryTypes
<1>2. FactsNoted
  <2>1. SUFFICES ASSUME NEW s \in Sweeps, cycle[s] = "posted", channel[s] = <<>>, NEW f \in owed[s]
                 PROVE  f \in noted
    BY DEF FactsNoted
  <2>2. Len(channel[s]) = 0
    BY <2>1
  <2> QED
    BY <2>1, <2>2 DEF MemoryInv, Carried
<1>3. ASSUME NEW r \in quarantine, r.id \notin torn, ~(r.id \in DOMAIN reviews /\ reviews[r.id] = "pending")
      PROVE  [op |-> "review", id |-> r.id] \in Sent("review")
  <2>1. PICK c \in Chans : \E k \in 1..Len(channel[c]) : channel[c][k].op = "review" /\ channel[c][k].id = r.id
    BY <1>3 DEF MemoryInv, Reviewable
  <2>2. PICK k \in 1..Len(channel[c]) : channel[c][k].op = "review" /\ channel[c][k].id = r.id
    BY <2>1
  <2>3. PICK w : w = channel[c][k]
    OBVIOUS
  <2>4. w \in WriteOps /\ w.op = "review" /\ w.id = r.id
    <3>1. channel[c] \in Seq(WriteOps)
      BY <1>1
    <3>2. w \in WriteOps
      BY <2>2, <2>3, <3>1, Element
    <3> QED
      BY <2>2, <2>3, <3>2
  <2>5. w = [op |-> "review", id |-> r.id]
    BY <2>4 DEF WriteOps
  <2>6. w \in Sent("review")
    BY <1>1, <2>2, <2>3, <2>4, SentAt
  <2> QED
    BY <2>5, <2>6
<1>4. IdsOf(memories) \cap (IdsOf(quarantine) \cup declined) = {}
  BY DEF MemoryInv, Reviewed
<1>5. ReviewGate
  BY <1>3, <1>4 DEF ReviewGate
<1>6. OrphansGo
  <2>1. CASE \E c \in Chans : \E k \in 1..Len(channel[c]) : channel[c][k].op = "cleanup"
    <3>1. Sent("cleanup") # {}
      BY <1>1, <2>1, SentAt
    <3> QED
      BY <3>1 DEF OrphansGo
  <2> QED
    BY <2>1 DEF MemoryInv, Orphaned, OrphansGo
<1> QED
  BY <1>2, <1>5, <1>6 DEF MemoryConsistent

(* Cerebro's memory keeps its promises (reflection.ts, write-queue.ts,      *)
(* quarantine.ts and the routes of to-dos and of the memory): the facts of  *)
(* a finished cycle were stored or proposed unless their writes failed, a   *)
(* quarantined document has its review, unless that was lost to a crash or  *)
(* a failed write, and reaches the memory by it only, and a vector without  *)
(* its memory waits for a cleanup.                                          *)
THEOREM MemoryIsConsistent == MemorySpec => []MemoryConsistent
<1>1. MemoryInit => MemoryInv
  BY MemoryBegins
<1>2. MemoryInv /\ [MemoryNext]_mvars => MemoryInv'
  BY MemorySteps
<1>3. MemoryInv => MemoryConsistent
  BY MemoryHolds
<1> QED
  BY <1>1, <1>2, <1>3, PTL DEF MemorySpec
=============================================================================
