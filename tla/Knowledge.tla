----------------------------- MODULE Knowledge -----------------------------
(* The curated knowledge graph (core/okf, routes/okf.ts): Markdown files in  *)
(* the directories of the tiers, the nodes and edges indexed from them, the  *)
(* extraction of concepts by a language model under the schema-drift breaker *)
(* (core/coreexec/schema-drift-breaker.ts), and what a prompt of a project   *)
(* is given (graph-query.ts).  A file is known by its name within its        *)
(* directory, which is also the identity of its node.                        *)
EXTENDS Naturals, FiniteSets

CONSTANTS Projects,        \* the projects, each with a root path
          Names,           \* names of files
          Manifest,        \* the name of the manifest every directory gets
          Texts,           \* contents of files
          ManifestText,    \* the content of a new manifest
          Trust,           \* text -> "auto", "review", "low" or "invalid"
          Links,           \* text -> the names it links to
          Extractions,     \* document conversions or chat reflections at a time
          Docs,            \* documents of the projects
          Chat,            \* the transcript a reflection extracts from
          None,
          StrikeLimit,     \* SCHEMA_DRIFT_STRIKE_LIMIT
          MaxEdits,        \* bound: files written or removed by hand
          MaxParked        \* bound: escalations of one run of failures

\* The shared tiers and the directory of each project.
Shared == {"USER", "GLOBAL"}
Dirs   == Projects \cup Shared

\* A row of okf_nodes: the directory it belongs to and the text it was indexed with.
NodeRows == [dir : Dirs, text : Texts]

ASSUME KnowledgeAssumption ==
  /\ Manifest \in Names /\ ManifestText \in Texts
  /\ Trust \in [Texts -> {"auto", "review", "low", "invalid"}]
  /\ Links \in [Texts -> SUBSET Names]
  /\ Trust[ManifestText] = "auto" /\ Links[ManifestText] = {}
  /\ Chat \notin Docs /\ StrikeLimit \in Nat \ {0} /\ None \notin NodeRows

VARIABLES disk,       \* directory -> name -> text
          nodes,      \* okf_nodes: name -> the row
          edges,      \* okf_edges
          processed,  \* okf_processed_docs_<project>
          extraction, \* the extractions in flight
          strikes,    \* the breaker's count for okf-concept-extraction
          parked,     \* history: the to-dos the breaker wrote since the strikes were last forgotten
          swallowed,  \* history: those it failed to write
          rewrites

escalations == <<parked, swallowed>>
kvars == <<disk, nodes, edges, processed, extraction, strikes, escalations, rewrites>>

Empty  == [n \in Names |-> None]
Files(d) == {n \in Names : disk[d][n] # None}
Indexed(G) == {n \in Names : G[n] # None}

\* ensureManifestFiles: a directory without its manifest gets one.
Manifested(D) ==
  IF D[Manifest] = None THEN [D EXCEPT ![Manifest] = ManifestText] ELSE D

-----------------------------------------------------------------------------
(* OKFIndexer.                                                               *)

PassesReview(t) == Trust[t] \in {"auto", "review"}

\* parseFile: a valid file carries a confidence, and only the highest band is
\* indexed without review.
Passes(t) == Trust[t] = "auto"

\* The files that pass the gate and whose text differs from the
\* one their node was indexed with.
Fresh(D, G) ==
  {n \in Names : /\ D[n] # None /\ Passes(D[n])
                 /\ G[n] = None \/ G[n].text # D[n]}

\* The first pass: a new row belongs to the directory, an existing one keeps
\* its tier, project and path and takes the text.
Upserted(d, D, G) ==
  [n \in Names |->
     IF n \notin Fresh(D, G) THEN G[n]
     ELSE IF G[n] = None THEN [dir |-> d, text |-> D[n]]
          ELSE [G[n] EXCEPT !.text = D[n]]]

LinkableAll(n, t, G) == TRUE

\* The second pass skips the links to files that have no node.
Linkable(n, t, G) == t = n \/ G[t] # None

Linked(D, G, G2) ==
  {e \in Fresh(D, G) \X Names :
     e[2] \in Links[D[e[1]]] /\ Linkable(e[1], e[2], G2)}

\* pruneOrphans: rows of the directory whose file is gone.  The edges of a
\* deleted row go with it (ON DELETE CASCADE).
Orphans(d, D, G) == {n \in Indexed(G) : G[n].dir = d /\ D[n] = None}
Without(G, gone) == [n \in Names |-> IF n \in gone THEN None ELSE G[n]]
Anchored(E, gone) == {e \in E : e[1] \notin gone /\ e[2] \notin gone}

\* indexDirectory on the files D of d.
IndexDirectory(d, D) ==
  /\ nodes' = Upserted(d, D, nodes)
  /\ edges' = edges \cup Linked(D, nodes, nodes')

-----------------------------------------------------------------------------
(* OKFGraphQuery.                                                            *)

\* searchNodes with a project: its own rows and those of the shared tiers.
Visible(p) == {n \in Indexed(nodes) : nodes[n].dir \in Shared \cup {p}}

\* getRelated: two hops along the edges, in both directions.
Neighbours(S) == {n \in Names : \E m \in S : <<n, m>> \in edges \/ <<m, n>> \in edges}
Related(n) == LET one == {n} \cup Neighbours({n}) IN one \cup Neighbours(one)

\* resolveContext: the rows a prompt of p may be given; their text is read
\* from the file of the row, whatever it holds by then.
Served(p) ==
  {n \in UNION {Related(m) : m \in Visible(p)} :
     nodes[n] # None /\ disk[nodes[n].dir][n] # None}

\* GET /status: the two lists name the same files.
IsSynced(p) ==
  Files(p) # {} /\ Files(p) = {n \in Indexed(nodes) : nodes[n].dir = p}

-----------------------------------------------------------------------------
(* OKFGenerator under the breaker.                                           *)

ShouldAttempt == strikes < StrikeLimit

\* _writeConcepts never overwrites a file.
Written(D, C) == {n \in Names : C[n] # None /\ D[n] = None}
WithConcepts(D, C) == [n \in Names |-> IF n \in Written(D, C) THEN C[n] ELSE D[n]]

\* The end of an extraction that found the concepts C, which may be none:
\* write, complete the manifest, index, mark the document as processed.
Conclude(x, d, doc, C) ==
  LET D == Manifested(WithConcepts(disk[d], C)) IN
  /\ disk' = [disk EXCEPT ![d] = D]
  /\ IndexDirectory(d, D)
  /\ processed' = IF d \in Projects /\ Written(disk[d], C) # {}
                  THEN [processed EXCEPT ![d] = @ \cup {doc}] ELSE processed
  /\ extraction' = [extraction EXCEPT ![x] = None]

TrippedBeyond(count) == count > StrikeLimit

Tripped(count) == count >= StrikeLimit

\* parkSchemaDriftTask: the to-do is written, or the insert fails, which is
\* logged and swallowed: the strikes have halted the retries by then.
Park ==
  \/ parked' = parked + 1 /\ UNCHANGED swallowed
  \/ swallowed' = swallowed + 1 /\ UNCHANGED parked

\* The breaker counts the failure, and parks the task if it has tripped.
RecordDrift ==
  /\ strikes' = strikes + 1
  /\ IF Tripped(strikes + 1) THEN Park ELSE UNCHANGED escalations

\* recordSuccess, or the restart of the process that holds the count.
Forgive == strikes' = 0 /\ parked' = 0 /\ swallowed' = 0

-----------------------------------------------------------------------------
(* Actions.                                                                  *)

KnowledgeInit ==
  /\ disk = [d \in Dirs |-> Empty]
  /\ nodes = Empty
  /\ edges = {}
  /\ processed = [p \in Projects |-> {}]
  /\ extraction = [x \in Extractions |-> None]
  /\ strikes = 0
  /\ parked = 0
  /\ swallowed = 0
  /\ rewrites = 0

\* A hand, an editor or an agent writes or removes a file.
Edit(d, n, t) ==
  /\ rewrites < MaxEdits
  /\ disk[d][n] # t
  /\ disk' = [disk EXCEPT ![d][n] = t]
  /\ rewrites' = rewrites + 1
  /\ UNCHANGED <<nodes, edges, processed, extraction, strikes, escalations>>

\* POST /convert-document, or the reflection cycle on a transcript: the first
\* attempt, or the end with no concepts when the breaker has tripped.
Extract(x, d, doc) ==
  /\ extraction[x] = None
  /\ IF ShouldAttempt
     THEN /\ extraction' = [extraction EXCEPT ![x] = [dir |-> d, doc |-> doc, attempt |-> 1]]
          /\ UNCHANGED <<disk, nodes, edges, processed>>
     ELSE Conclude(x, d, doc, Empty)
  /\ UNCHANGED <<strikes, escalations, rewrites>>

\* The model answers with an array: the strikes are forgotten.
Answer(x, C) ==
  /\ extraction[x] # None
  /\ Forgive
  /\ Conclude(x, extraction[x].dir, extraction[x].doc, C)
  /\ UNCHANGED rewrites

\* An array whose concepts C are followed by one without a confidence, tags or
\* links, which the filter lets through: C is written, then the writing throws,
\* and nothing completes the manifest, indexes the files or marks the document.
AnswerTorn(x, C) ==
  /\ extraction[x] # None
  /\ Forgive
  /\ disk' = [disk EXCEPT ![extraction[x].dir] = WithConcepts(@, C)]
  /\ extraction' = [extraction EXCEPT ![x] = None]
  /\ UNCHANGED <<nodes, edges, processed, rewrites>>

\* The answer is no array, or the call fails: a strike, then the retry or the end.
Drift(x) ==
  /\ extraction[x] # None
  /\ parked + swallowed < MaxParked
  /\ RecordDrift
  /\ IF extraction[x].attempt = 1 /\ strikes' < StrikeLimit
     THEN /\ extraction' = [extraction EXCEPT ![x].attempt = 2]
          /\ UNCHANGED <<disk, nodes, edges, processed>>
     ELSE Conclude(x, extraction[x].dir, extraction[x].doc, Empty)
  /\ UNCHANGED rewrites

\* POST /sync of a project: manifest, index, prune.
Sync(p) ==
  LET D == Manifested(disk[p])
      G == Upserted(p, D, nodes)
      gone == Orphans(p, D, G)
  IN  /\ disk' = [disk EXCEPT ![p] = D]
      /\ nodes' = Without(G, gone)
      /\ edges' = Anchored(edges \cup Linked(D, nodes, G), gone)
      /\ UNCHANGED <<processed, extraction, strikes, escalations, rewrites>>

\* POST /index: the directory of the project, then the shared tiers.
Index(p) ==
  LET G1 == Upserted(p, disk[p], nodes)
      E1 == edges \cup Linked(disk[p], nodes, G1)
      G2 == Upserted("USER", disk["USER"], G1)
      E2 == E1 \cup Linked(disk["USER"], G1, G2)
      G3 == Upserted("GLOBAL", disk["GLOBAL"], G2)
  IN  /\ nodes' = G3
      /\ edges' = E2 \cup Linked(disk["GLOBAL"], G2, G3)
      /\ UNCHANGED <<disk, processed, extraction, strikes, escalations, rewrites>>

\* A restart forgets the extractions and the strikes, and seeds the global
\* tier if it holds no file.
Restart ==
  LET seed == [Empty EXCEPT ![Manifest] = ManifestText] IN
  /\ IF Files("GLOBAL") = {}
     THEN disk' = [disk EXCEPT !["GLOBAL"] = seed] /\ IndexDirectory("GLOBAL", seed)
     ELSE UNCHANGED <<disk, nodes, edges>>
  /\ extraction' = [x \in Extractions |-> None]
  /\ Forgive
  /\ UNCHANGED <<processed, rewrites>>

\* What one extraction may yield: at most one concept.
Yields == {Empty} \cup {[Empty EXCEPT ![n] = t] : n \in Names \ {Manifest}, t \in Texts \ {ManifestText}}

KnowledgeNext ==
  \/ \E d \in Dirs, n \in Names, t \in Texts \cup {None} : Edit(d, n, t)
  \/ \E x \in Extractions, p \in Projects, doc \in Docs : Extract(x, p, doc)
  \/ \E x \in Extractions : Extract(x, "USER", Chat)
  \/ \E x \in Extractions, C \in Yields : Answer(x, C) \/ AnswerTorn(x, C)
  \/ \E x \in Extractions : Drift(x)
  \/ \E p \in Projects : Sync(p) \/ Index(p)
  \/ Restart

KnowledgeSpec == KnowledgeInit /\ [][KnowledgeNext]_kvars

-----------------------------------------------------------------------------
(* Properties.                                                               *)

\* Both ends of an edge are nodes: an edge without them would be refused by
\* the database and roll back the whole indexing.
EdgesAnchored == \A e \in edges : nodes[e[1]] # None /\ nodes[e[2]] # None

\* Each run of failures that halts extraction is escalated in that run, and no
\* shorter one is: while extraction is refused a to-do of this run was written,
\* unless every insert of it failed; an earlier halt's to-do does not count.
HaltIsReported == strikes >= StrikeLimit <=> parked + swallowed > 0

\* Nothing below the confidence gate gets into the graph.
GraphTrusted == \A n \in Indexed(nodes) : Trust[nodes[n].text] = "auto"

\* The three together: the graph is sound whatever the order of edits,
\* conversions, reflections, syncs and restarts.
KnowledgeSound == EdgesAnchored /\ HaltIsReported /\ GraphTrusted

\* Refuted.  directory-manager.ts calls the project tier "strictly siloed": a prompt of
\* a project is never given a file of another project.
Siloed == \A p \in Projects : \A n \in Served(p) : nodes[n].dir \in Shared \cup {p}

\* Refuted.  recordFailure promises a caller that parks on trip "does it exactly once
\* rather than on every subsequent failure".
ParkedOnce == [][parked' > parked => ~Tripped(strikes)]_kvars
=============================================================================
