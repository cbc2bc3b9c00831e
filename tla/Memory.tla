------------------------------- MODULE Memory -------------------------------
(***************************************************************************)
(* Cerebro's memory (core/memory/cerebro): reflection sweeps on worker     *)
(* threads whose writes reach the database through their channel, the      *)
(* quarantine of ingested documents with its reviews, the learning         *)
(* approvals and the pruning by the operator.                              *)
(***************************************************************************)
EXTENDS Naturals, Sequences, FiniteSets, SequencesExt

CONSTANTS
    Facts, Documents,
    Similar,     \* sets of facts whose similarity exceeds 0.85
    Sweeps,      \* reflection cycles that may run at a time
    Ingests,       \* executions of plugins that ingest
    ChannelLimit,  \* MAX_PENDING_WRITES
    NearAge,     \* days until the operator may prune a memory
    FarAge,      \* days until a sweep deletes it
    StaleAge,    \* days until prune_stale deletes it
    MaxDay, MaxIds, MaxApprovals  \* bounds

ASSUME MemoryAssumption ==
    /\ Facts \cap Documents = {} /\ IsFiniteSet(Facts) /\ Sweeps \cap Ingests = {}
    /\ ChannelLimit \in Nat \ {0}
    /\ {NearAge, FarAge, StaleAge, MaxDay, MaxIds, MaxApprovals} \subseteq Nat

VARIABLES
    day,
    memories,        \* cerebro_memories_meta: [id, text, born]; access_count stays 0
    vec,         \* ids in cerebro_memories_vec
    quarantine,  \* memory_quarantine
    reviews,     \* status of the REVIEW_QUARANTINE to-do of a document, by its id
    approvals,   \* cerebro_learning_approvals: [fact, conflict, status]
    ids,         \* ids minted so far
    cycle,       \* what each cycle is about to do
    facts,       \* the facts it has still to place
    unacked,     \* posts of its sweep, which never lets an acknowledgement in
    channel,     \* writes on their way, of each cycle and task
    preview,       \* the dashboard's preview of a prune
    owed,        \* history: facts of each cycle, less those whose write failed
    noted,       \* history: facts ever stored or proposed
    torn, interrupted,   \* history: documents, sweeps that lost a part of their writes
    declined             \* history: documents rejected while under review

mvars == <<day, memories, vec, quarantine, reviews, approvals, ids, cycle, facts, unacked,
           channel, preview, owed, noted, torn, interrupted, declined>>

MemoryInit ==
    /\ day = 0 /\ memories = {} /\ vec = {} /\ quarantine = {} /\ reviews = <<>>
    /\ approvals = <<>> /\ ids = 0 /\ preview = {}
    /\ cycle = [s \in Sweeps |-> "idle"]
    /\ facts = [s \in Sweeps |-> <<>>] /\ owed = [s \in Sweeps |-> {}]
    /\ unacked = [s \in Sweeps |-> 0]
    /\ channel = [c \in Sweeps \cup Ingests |-> <<>>]
    /\ noted = {} /\ torn = {} /\ interrupted = FALSE /\ declined = {}

database == <<memories, vec, quarantine, reviews, approvals>>
history == <<owed, noted, torn, interrupted, declined>>

Row(i, t) == [id |-> i, text |-> t, born |-> day]
IdsOf(R) == {r.id : r \in R}
Older(age) == {r \in memories : day - r.born >= age}
Alike(f, g) == f = g \/ {f, g} \in Similar
-----------------------------------------------------------------------------
(* runReflectionCycle: the model extracts, then a worker sweeps.  The five-  *)
(* minute timer and the operator start cycles without waiting for others.   *)
CycleStarts(s) ==
    /\ cycle[s] = "idle"
    /\ cycle' = [cycle EXCEPT ![s] = "extracting"]
    /\ UNCHANGED <<day, database, ids, facts, unacked, channel, preview, history>>

Extracted(s) ==
    /\ cycle[s] = "extracting"
    /\ \E F \in SUBSET Facts : \E q \in SetToSeqs(F) :
          facts' = [facts EXCEPT ![s] = q] /\ owed' = [owed EXCEPT ![s] = ToSet(q)]
    /\ cycle' = [cycle EXCEPT ![s] = "placing"]
    /\ unacked' = [unacked EXCEPT ![s] = 0]
    /\ UNCHANGED <<day, database, ids, channel, preview, noted, torn, interrupted, declined>>

\* postWriteOpOrThrow: what the bound admits is sent, then the sweep aborts.
Post(s, ops) ==
    LET room == ChannelLimit - unacked[s]
        sent == IF Len(ops) <= room THEN ops ELSE SubSeq(ops, 1, room)
    IN  /\ channel' = [channel EXCEPT ![s] = @ \o sent]
        /\ unacked' = [unacked EXCEPT ![s] = @ + Len(sent)]
        /\ cycle' = [cycle EXCEPT ![s] =
                        IF sent # ops THEN "aborted" ELSE IF @ = "pruning" THEN "posted" ELSE @]

\* Fault: whatever resembles a memory counts as a duplicate of it.
DuplicateOfAny(f, r) == Alike(f, r.text)

\* Without a classification only the same text is a duplicate.
Duplicate(f, r) == f = r.text

(* One fact: the best match in the table as it is now, not as the posts of   *)
(* this sweep will leave it, makes it a duplicate, a conflict or new.  The   *)
(* search may miss: it asks for preferences (an approved fact is none) and  *)
(* ranks short texts low.                                                   *)
PlaceFact(s) ==
    /\ cycle[s] = "placing" /\ facts[s] # <<>>
    /\ facts' = [facts EXCEPT ![s] = Tail(@)]
    /\ LET f == Head(facts[s])
           matches == {r \in memories : Alike(f, r.text)}
       IN  \/ /\ ids < MaxIds
              /\ ids' = ids + 1
              /\ Post(s, <<[op |-> "insert", row |-> Row(ids', f)]>>)
           \/ \E r \in matches :
                /\ ids' = ids
                /\ IF Duplicate(f, r) THEN UNCHANGED <<channel, unacked, cycle>>
                   ELSE Post(s, <<[op |-> "approval", fact |-> f, conflict |-> r.id]>>)
    /\ UNCHANGED <<day, database, preview, history>>

\* The rows that have decayed are selected once, and deleted when the
\* writes arrive; then prune_stale and vec_cleanup_orphans.
PruneSweep(s) ==
    /\ cycle[s] = "placing" /\ facts[s] = <<>>
    /\ cycle' = [cycle EXCEPT ![s] = "pruning"]
    /\ UNCHANGED <<day, database, ids, facts, unacked, channel, preview, history>>

PostPrune(s) ==
    /\ cycle[s] = "pruning"
    /\ \E q \in SetToSeqs(IdsOf(Older(FarAge))) :
          Post(s, [i \in 1..Len(q) |-> [op |-> "delete", id |-> q[i]]]
                     \o <<[op |-> "stale"], [op |-> "cleanup"]>>)
    /\ UNCHANGED <<day, database, ids, facts, preview, history>>

\* finishAndDrain, then pingActivity.  A sweep that threw is logged.
CycleEnds(s) ==
    /\ cycle[s] \in {"posted", "aborted"} /\ channel[s] = <<>>
    /\ cycle' = [cycle EXCEPT ![s] = "idle"]
    /\ interrupted' = (interrupted \/ cycle[s] = "aborted")
    /\ UNCHANGED <<day, database, ids, facts, unacked, channel, preview, owed, noted, torn, declined>>
-----------------------------------------------------------------------------
(* okf_indexer quarantines a document and asks for its review: two writes.   *)
Ingest(t) ==
    /\ ids < MaxIds /\ channel[t] = <<>>
    /\ ids' = ids + 1
    /\ \E d \in Documents :
          channel' = [channel EXCEPT ![t] = <<[op |-> "quarantine", row |-> Row(ids', d)],
                                               [op |-> "review", id |-> ids']>>]
    /\ UNCHANGED <<day, database, cycle, facts, unacked, preview, history>>

\* gitnexus_mapper stores a map of the code with its embedding.
StoreAst(t) ==
    /\ ids < MaxIds /\ channel[t] = <<>>
    /\ ids' = ids + 1
    /\ \E d \in Documents : channel' = [channel EXCEPT ![t] = <<[op |-> "embed", row |-> Row(ids', d)]>>]
    /\ UNCHANGED <<day, database, cycle, facts, unacked, preview, history>>

(* applyWriteOp.  No transaction: the second statement of an insert with an  *)
(* embedding may fail after the first.                                      *)
Insert(r) ==
    /\ memories' = memories \cup {[r EXCEPT !.born = day]} /\ noted' = noted \cup {r.text}
    /\ UNCHANGED <<vec, quarantine, reviews, approvals, interrupted>>

WriteVector(r) ==
    /\ memories' = memories \cup {[r EXCEPT !.born = day]} /\ vec' \in {vec, vec \cup {r.id}}
    /\ UNCHANGED <<quarantine, reviews, approvals, noted, interrupted>>

Quarantine(r) ==
    /\ quarantine' = quarantine \cup {[r EXCEPT !.born = day]}
    /\ UNCHANGED <<memories, vec, reviews, approvals, noted, interrupted>>

AskReview(i) ==
    /\ reviews' = [j \in DOMAIN reviews \cup {i} |-> IF j = i THEN "pending" ELSE reviews[j]]
    /\ UNCHANGED <<memories, vec, quarantine, approvals, noted, interrupted>>

Propose(f, i) ==
    /\ approvals' = Append(approvals, [fact |-> f, conflict |-> i, status |-> "pending"])
    /\ noted' = noted \cup {f}
    /\ UNCHANGED <<memories, vec, quarantine, reviews, interrupted>>

DeleteRows(I) ==
    /\ memories' = {r \in memories : r.id \notin I} /\ vec' = vec \ I
    /\ UNCHANGED <<quarantine, reviews, approvals, noted, interrupted>>

DeleteStale ==
    /\ memories' = memories \ Older(StaleAge)
    /\ UNCHANGED <<vec, quarantine, reviews, approvals, noted, interrupted>>

\* Fault: the cleanup trusts the deletes of the sweep.
CleanNothing == interrupted' = FALSE /\ UNCHANGED <<database, noted>>

CleanOrphans ==
    /\ vec' = vec \cap IdsOf(memories) /\ interrupted' = FALSE
    /\ UNCHANGED <<memories, quarantine, reviews, approvals, noted>>

Apply(c) ==
    /\ channel[c] # <<>>
    /\ channel' = [channel EXCEPT ![c] = Tail(@)]
    /\ LET w == Head(channel[c])
       IN  \/ w.op = "insert" /\ Insert(w.row)
           \/ w.op = "embed" /\ WriteVector(w.row)
           \/ w.op = "quarantine" /\ Quarantine(w.row)
           \/ w.op = "review" /\ AskReview(w.id)
           \/ w.op = "approval" /\ Len(approvals) < MaxApprovals /\ Propose(w.fact, w.conflict)
           \/ w.op = "delete" /\ DeleteRows({w.id})
           \/ w.op = "stale" /\ DeleteStale
           \/ w.op = "cleanup" /\ CleanOrphans
    /\ UNCHANGED <<day, ids, cycle, facts, unacked, preview, owed, torn, declined>>

\* The fact a write stores or proposes.
FactOf(w) == IF w.op = "insert" THEN {w.row.text} ELSE IF w.op = "approval" THEN {w.fact} ELSE {}

(* applyOne: an op that fails (SQLITE_BUSY, an error) is logged, acknowledged *)
(* and gone; of a deletion the first statement may have run.                *)
Drop(c) ==
    /\ channel[c] # <<>>
    /\ channel' = [channel EXCEPT ![c] = Tail(@)]
    /\ LET w == Head(channel[c])
       IN  /\ \/ memories' = memories
              \/ w.op = "delete" /\ memories' = {r \in memories : r.id # w.id}
           /\ owed' = [s \in Sweeps |-> IF s = c THEN owed[s] \ FactOf(w) ELSE owed[s]]
           /\ torn' = IF w.op = "review" THEN torn \cup {w.id} ELSE torn
           /\ interrupted' = (interrupted \/ w.op \in {"delete", "cleanup"})
    /\ UNCHANGED <<day, vec, quarantine, reviews, approvals, ids, cycle, facts, unacked, preview, noted, declined>>
-----------------------------------------------------------------------------
(* The operator.  Approving and rejecting look at no status.                *)
Approve(i) ==
    /\ ids < MaxIds
    /\ ids' = ids + 1
    /\ LET a == approvals[i]
       IN  /\ memories' = {r \in memories : r.id # a.conflict} \cup {Row(ids', a.fact)}
           /\ vec' = vec \ {a.conflict}
    /\ approvals' = [approvals EXCEPT ![i].status = "approved"]
    /\ UNCHANGED <<day, quarantine, reviews, cycle, facts, unacked, channel, preview, history>>

Status(i, st) ==
    /\ approvals[i].status # st
    /\ approvals' = [approvals EXCEPT ![i].status = st]
    /\ UNCHANGED <<day, memories, vec, quarantine, reviews, ids, cycle, facts, unacked, channel, preview, history>>

RejectFact(i) == Status(i, "rejected")

\* POST /api/todos/promote: the fact becomes a to-do of its own.
Promote(i) == Status(i, "promoted")

\* POST /api/todos/:id/resolve: a row still in quarantine is released.
Resolve(i) ==
    /\ reviews[i] # "resolved" \/ i \in IdsOf(quarantine)
    /\ reviews' = [reviews EXCEPT ![i] = "resolved"]
    /\ memories' = memories \cup {q \in quarantine : q.id = i}
    /\ quarantine' = {q \in quarantine : q.id # i}
    /\ UNCHANGED <<day, vec, approvals, ids, cycle, facts, unacked, channel, preview, history>>

\* Fault: a rejection leaves the document where it is.
DiscardNothing(i) == UNCHANGED quarantine

\* POST /api/todos/reject deletes the document.
Discard(i) == quarantine' = {q \in quarantine : q.id # i}

Reject(i) ==
    /\ reviews[i] # "rejected"
    /\ reviews' = [reviews EXCEPT ![i] = "rejected"]
    /\ Discard(i)
    /\ declined' = IF reviews[i] = "pending" THEN declined \cup {i} ELSE declined
    /\ UNCHANGED <<day, memories, vec, approvals, ids, cycle, facts, unacked, channel, preview>>
    /\ UNCHANGED <<owed, noted, torn, interrupted>>

\* selectPruneCandidates, for GET /prune-preview and POST /prune-confirm anew.
Candidates == IdsOf(Older(NearAge))

PreviewPrune ==
    /\ preview' = Candidates /\ preview' # preview
    /\ UNCHANGED <<day, database, ids, cycle, facts, unacked, channel, history>>

ConfirmPrune ==
    /\ preview # {} /\ preview' = {}
    /\ DeleteRows(Candidates)
    /\ UNCHANGED <<day, ids, cycle, facts, unacked, channel, owed, torn, declined>>

DayPasses ==
    /\ day < MaxDay /\ day' = day + 1
    /\ UNCHANGED <<database, ids, cycle, facts, unacked, channel, preview, history>>

\* Channels and cycles are memory.
Sent(op) == {w \in UNION {ToSet(channel[c]) : c \in DOMAIN channel} : w.op = op}
MemoryCrash ==
    /\ \E c \in DOMAIN channel : channel[c] # <<>>
    /\ channel' = [c \in DOMAIN channel |-> <<>>]
    /\ cycle' = [s \in Sweeps |-> "idle"] /\ facts' = [s \in Sweeps |-> <<>>]
    /\ torn' = torn \cup {w.id : w \in Sent("review")}
    /\ interrupted' = (interrupted \/ Sent("cleanup") # {} \/ "aborted" \in Range(cycle))
    /\ owed' = [s \in Sweeps |-> {}]
    /\ UNCHANGED <<day, database, ids, unacked, preview, noted, declined>>

MemoryNext ==
    \/ \E s \in Sweeps :
         CycleStarts(s) \/ Extracted(s) \/ PlaceFact(s) \/ PruneSweep(s) \/ PostPrune(s) \/ CycleEnds(s)
    \/ \E t \in Ingests : Ingest(t) \/ StoreAst(t)
    \/ \E c \in DOMAIN channel : Apply(c) \/ Drop(c)
    \/ \E i \in DOMAIN approvals : Approve(i) \/ RejectFact(i) \/ Promote(i)
    \/ \E i \in DOMAIN reviews : Resolve(i) \/ Reject(i)
    \/ PreviewPrune \/ ConfirmPrune \/ DayPasses \/ MemoryCrash

MemorySpec == MemoryInit /\ [][MemoryNext]_mvars
-----------------------------------------------------------------------------
(* No fact of a finished cycle is lost: it was stored or proposed, unless    *)
(* its write failed or the sweep was cut short by backpressure; resembling  *)
(* something is no reason to drop it ("never silently discard non-identical *)
(* text").                                                                  *)
FactsNoted ==
    \A s \in Sweeps :
        cycle[s] = "posted" /\ channel[s] = <<>> => owed[s] \subseteq noted

(* A quarantined document can be reviewed, unless a crash or a failed write *)
(* cut its ingestion in two; it reaches the memory by a review only, and    *)
(* never once it was declined, whatever is clicked afterwards.              *)
ReviewGate ==
    /\ \A q \in quarantine :
          \/ q.id \in torn \/ [op |-> "review", id |-> q.id] \in Sent("review")
          \/ q.id \in DOMAIN reviews /\ reviews[q.id] = "pending"
    /\ IdsOf(memories) \cap (IdsOf(quarantine) \cup declined) = {}

(* A vector without its memory is one a cleanup under way will remove, or    *)
(* one that a crash, a failed write or an aborted sweep left for the next.  *)
OrphansGo == vec \subseteq IdsOf(memories) \/ Sent("cleanup") # {} \/ interrupted
                 \/ \E s \in Sweeps : cycle[s] = "aborted"

MemoryConsistent == FactsNoted /\ ReviewGate /\ OrphansGo

(* "The UI can never show one set and delete a different one" (cerebro.ts): *)
(* what a confirmation deletes was shown.  Refuted.                         *)
PreviewIsDeleted ==
    [][ConfirmPrune => IdsOf(memories) \ IdsOf(memories') \subseteq preview]_mvars

(* "Apply one op on the single writer's connection, in its own transaction"  *)
(* (write-queue.ts): a memory and its vector come together or not at all.   *)
(* Refuted: applyWriteOp runs its statements one by one, and no caller has  *)
(* opened a transaction.                                                    *)
InOneTransaction ==
    [][\A c \in DOMAIN channel :
         channel[c] # <<>> /\ Head(channel[c]).op = "embed" =>
            LET r == Head(channel[c]).row.id
            IN  r \in IdsOf(memories') \ IdsOf(memories) => r \in vec']_mvars
=============================================================================
