------------------------------- MODULE Console -------------------------------
(***************************************************************************)
(* The review queue: browsers that show the to-dos and the staged proposal *)
(* (ui/views/PortGridDashboard), the routes their buttons post to          *)
(* (server/routes/todos, system, coreexec-router) and the autonomy dial    *)
(* that sets the bar of a bulk approval.                                   *)
(***************************************************************************)
EXTENDS Naturals, Sequences, FiniteSets, SequencesExt

CONSTANTS
    Consoles, Todos, Proposals,
    Reviews,     \* to-dos that review a quarantined memory: inserted as 'pending'
    Confidence,  \* [Todos \cup Proposals -> Levels]
    Levels,      \* confidences and bars, ordered
    Nodes,       \* [Proposals -> Seq of task ids], none empty: interview, validateDAG
    Unsafe,      \* proposals enforceCategoryASafety refuses to stage
    Refusable,   \* proposals validateDAGProposal or the governor may refuse to launch
    BarTTL,      \* AUTONOMY_CACHE_TTL_MS, in ticks
    MaxHandlers, MaxRuns  \* bounds

ASSUME ConsoleAssumption ==
    /\ Levels \subseteq Nat /\ (\E l \in Levels : \A k \in Levels : k <= l)
    /\ Reviews \subseteq Todos
    /\ Confidence \in [Todos \cup Proposals -> Levels]
    /\ \A p \in Proposals : Nodes[p] \in Seq(STRING) \ {<<>>}
    /\ BarTTL \in Nat /\ MaxHandlers \in Nat /\ MaxRuns \in Nat

NoDraft == "none"

VARIABLES
    todos,       \* os_todos: status of each, "absent" before it is inserted
    table,       \* dag_proposals: status of each, "unstaged" before it is
    tasks,       \* ids in the tasks table
    runs,        \* workflow_runs launched from proposals: [of, started]
    bar,         \* the confidence the saved autonomy asks for
    cachedBar, cacheAge,  \* cachedDeferenceThreshold, ticks since cachedAutonomyAt
    queue, draft, dial,   \* what each console shows: approvalQueue, pendingProposal, autonomy
    handlers,    \* click handlers under way: [by, calls, todoIds, drafts, id]
    inForce,     \* history: ticks since each level was the saved bar
    judged,      \* history: <<to-do approved in bulk, bars saved of late>>
    answered,    \* history: to-dos a console dropped because the operator approved them
    verdict      \* history: how each proposal first left 'pending'

cvars == <<todos, table, tasks, runs, bar, cachedBar, cacheAge, queue, draft, dial,
           handlers, inForce, judged, answered, verdict>>
serverSide == <<todos, table, tasks, runs, bar, cachedBar, cacheAge, inForce, judged, verdict>>

DefaultBar == CHOOSE l \in Levels : \A k \in Levels : k <= l

ConsoleInit ==
    /\ todos = [t \in Todos |-> "absent"] /\ table = [p \in Proposals |-> "unstaged"]
    /\ tasks = {} /\ runs = <<>>
    /\ bar = DefaultBar /\ cachedBar = DefaultBar /\ cacheAge = BarTTL + 1
    /\ inForce = [l \in Levels |-> IF l = DefaultBar THEN 0 ELSE BarTTL + 1]
    /\ queue = [c \in Consoles |-> {}] /\ draft = [c \in Consoles |-> NoDraft]
    /\ dial = [c \in Consoles |-> DefaultBar]
    /\ handlers = {}
    /\ judged = {} /\ answered = {} /\ verdict = [p \in Proposals |-> "none"]

Pending == {p \in Proposals : table[p] = "pending"}
Listed == {t \in Todos : todos[t] \in {"open", "pending"}}
-----------------------------------------------------------------------------
(* The engine, the scheduler and the daemons insert to-dos; ScopeLogic       *)
(* stages a proposal, superseding the one that is pending, and its reset    *)
(* clears it.                                                               *)
Escalate(t) ==
    /\ todos[t] = "absent"
    /\ todos' = [todos EXCEPT ![t] = IF t \in Reviews THEN "pending" ELSE "open"]
    /\ UNCHANGED <<table, tasks, runs, bar, cachedBar, cacheAge, queue, draft, dial,
                   handlers, inForce, judged, answered, verdict>>

\* The rows of P leave 'pending' as status s.
Leave(P, s) == [p \in Proposals |-> IF p \in P THEN s ELSE table[p]]
Noted(P, s) == [p \in Proposals |-> IF p \in P /\ verdict[p] = "none" THEN s ELSE verdict[p]]

Stage(p) ==
    /\ table[p] = "unstaged" /\ p \notin Unsafe
    /\ table' = [Leave(Pending, "superseded") EXCEPT ![p] = "pending"]
    /\ verdict' = Noted(Pending, "superseded")
    /\ UNCHANGED <<todos, tasks, runs, bar, cachedBar, cacheAge, queue, draft, dial,
                   handlers, inForce, judged, answered>>

ClearPending ==
    /\ Pending # {}
    /\ table' = Leave(Pending, "rejected") /\ verdict' = Noted(Pending, "rejected")
    /\ UNCHANGED <<todos, tasks, runs, bar, cachedBar, cacheAge, queue, draft, dial,
                   handlers, inForce, judged, answered>>

\* The dial is saved half a second after it rests.
SaveDial(l) ==
    /\ l # bar /\ bar' = l /\ inForce' = [inForce EXCEPT ![l] = 0]
    /\ UNCHANGED <<todos, table, tasks, runs, cachedBar, cacheAge, queue, draft, dial,
                   handlers, judged, answered, verdict>>

TickBar ==
    /\ \/ cacheAge <= BarTTL
       \/ \E l \in Levels \ {bar} : inForce[l] <= BarTTL
    /\ cacheAge' = IF cacheAge <= BarTTL THEN cacheAge + 1 ELSE cacheAge
    /\ inForce' = [l \in Levels |->
                      IF l # bar /\ inForce[l] <= BarTTL THEN inForce[l] + 1 ELSE inForce[l]]
    /\ UNCHANGED <<todos, table, tasks, runs, bar, cachedBar, queue, draft, dial,
                   handlers, judged, answered, verdict>>
-----------------------------------------------------------------------------
(* A console fetches the to-dos, the proposal and the dial when it mounts or *)
(* changes project, and shows them until it does so again.                  *)
Load(c) ==
    /\ \/ queue' = [queue EXCEPT ![c] = Listed] /\ UNCHANGED <<draft, dial>>
       \/ \E p \in Pending : draft' = [draft EXCEPT ![c] = p] /\ UNCHANGED <<queue, dial>>
       \/ dial' = [dial EXCEPT ![c] = bar] /\ UNCHANGED <<queue, draft>>
    /\ UNCHANGED <<serverSide, handlers, answered>>

\* buildApprovalItems, partitionByConfidence: the pill bar and the list.
Items(c) == queue[c] \cup ({draft[c]} \ {NoDraft})
High(c) == {i \in Items(c) : Confidence[i] >= dial[c]}
Low(c) == Items(c) \ High(c)

Call(op, arg) == [op |-> op, arg |-> arg]
Begin(c, calls, dropped, approves) ==
    /\ Cardinality(handlers) < MaxHandlers
    /\ handlers' = handlers \cup {[by |-> c, calls |-> calls, dropped |-> dropped,
                                   approves |-> approves]}
    /\ UNCHANGED <<serverSide, queue, draft, dial, answered>>

(* The approval of one to-do posts to /api/todos/resolve, which no route     *)
(* serves: the answer is a 404, and authFetch does not throw on one.        *)
ApproveTodo(c, t) == t \in Low(c) \cap Todos /\ Begin(c, <<>>, {t}, TRUE)
DeclineTodo(c, t) == t \in Low(c) \cap Todos /\ Begin(c, <<Call("reject", {t})>>, {t}, FALSE)

\* A console shows at most one proposal: its launch, then its verdict.
LaunchCalls(P) == IF P = {} THEN <<>> ELSE <<Call("launch", P), Call("settle", P)>>

ApproveProposal(c) ==
    /\ draft[c] # NoDraft
    /\ Begin(c, LaunchCalls({draft[c]}), {draft[c]}, TRUE)
RejectProposal(c) ==
    /\ draft[c] # NoDraft
    /\ Begin(c, <<Call("rejectDraft", {draft[c]})>>, {draft[c]}, FALSE)

\* partitionByKind: the to-dos in one call, then each proposal.
ApproveAll(c) ==
    LET T == High(c) \cap Todos
    IN  /\ High(c) # {}
        /\ Begin(c, (IF T = {} THEN <<>> ELSE <<Call("resolveBulk", T)>>)
                       \o LaunchCalls(High(c) \ T), High(c), TRUE)
RejectAll(c) ==
    LET T == High(c) \cap Todos
    IN  /\ High(c) # {}
        /\ Begin(c, (IF T = {} THEN <<>> ELSE <<Call("reject", T)>>)
                       \o (IF T = High(c) THEN <<>> ELSE <<Call("rejectDraft", High(c) \ T)>>),
                 High(c), FALSE)
-----------------------------------------------------------------------------
(* The routes.                                                               *)

\* getDeferenceThreshold: the bar it answers and the age of the cache after.
Bar == IF cacheAge > BarTTL THEN <<bar, 0>> ELSE <<cachedBar, cacheAge>>

ResolveBulk(T) ==
    LET passed == {t \in T : todos[t] = "open" /\ Confidence[t] >= Bar[1]}
    IN  /\ todos' = [t \in Todos |-> IF t \in passed THEN "resolved" ELSE todos[t]]
        /\ cachedBar' = Bar[1] /\ cacheAge' = Bar[2]
        /\ judged' = judged \cup (passed \X {{l \in Levels : inForce[l] <= BarTTL}})
        /\ UNCHANGED <<table, tasks, runs, bar, inForce, verdict>>

\* Whatever their status.
RejectTodos(T) ==
    /\ todos' = [t \in Todos |-> IF t \in T THEN "rejected" ELSE todos[t]]
    /\ UNCHANGED <<table, tasks, runs, bar, cachedBar, cacheAge, inForce, judged, verdict>>

\* Fault: tasks that exist already are skipped and the run starts.
InsertedOrIgnored(q) == <<Range(q), TRUE>>

(* The tasks of a run are inserted one by one: an id that is taken, by any   *)
(* run, throws and leaves the run without the rest.                         *)
Inserted(q) ==
    LET clash == {i \in 1..Len(q) : q[i] \in tasks \/ \E j \in 1..(i-1) : q[j] = q[i]}
        upTo == IF clash = {} THEN Len(q) ELSE (CHOOSE i \in clash : \A j \in clash : i <= j) - 1
    IN  <<{q[i] : i \in 1..upTo}, clash = {}>>

\* escalateBlockedDAGToOsTodos: a to-do more, if the instance has one left.
Escalated ==
    LET unused == {t \in Todos \ Reviews : todos[t] = "absent"}
    IN  IF unused = {} THEN {todos} ELSE {[todos EXCEPT ![t] = "open"] : t \in unused}

(* POST /api/coreexec/approve: a refusal leaves a to-do, and its answer is    *)
(* ignored by the view; a launch inserts the run and its tasks.             *)
Launch(p) ==
    /\ \/ /\ p \in Refusable
          /\ todos' \in Escalated
          /\ UNCHANGED <<tasks, runs>>
       \/ /\ Len(runs) < MaxRuns
          /\ tasks' = tasks \cup Inserted(Nodes[p])[1]
          /\ runs' = Append(runs, [of |-> p, started |-> Inserted(Nodes[p])[2]])
          /\ UNCHANGED todos
    /\ UNCHANGED <<table, bar, cachedBar, cacheAge, inForce, judged, verdict>>

\* Fault: the verdict is recorded whatever the row says.
DecidedAnyway(P) == P

\* Only a row that is still pending takes the verdict.
Decided(P) == P \cap Pending

Settle(P, s) ==
    /\ table' = Leave(Decided(P), s) /\ verdict' = Noted(Decided(P), s)
    /\ UNCHANGED <<todos, tasks, runs, bar, cachedBar, cacheAge, inForce, judged>>

\* One call of a handler reaches its route, and the answer the handler.
Serve(h) ==
    /\ h.calls # <<>>
    /\ LET call == Head(h.calls)
       IN  CASE call.op = "resolveBulk" -> ResolveBulk(call.arg)
             [] call.op = "reject" -> RejectTodos(call.arg)
             [] call.op = "launch" -> \E p \in call.arg : Launch(p)
             [] call.op = "settle" -> Settle(call.arg, "approved")
             [] call.op = "rejectDraft" -> Settle(call.arg, "rejected")
    /\ handlers' = (handlers \ {h}) \cup {[h EXCEPT !.calls = Tail(@)]}
    /\ UNCHANGED <<queue, draft, dial, answered>>

\* The network fails: the handler's catch leaves the console as it is.
Fail(h) == /\ handlers' = handlers \ {h}
           /\ UNCHANGED <<serverSide, queue, draft, dial, answered>>

\* All answered, refusals included: the items leave the console.
HandlerEnds(h) ==
    /\ h.calls = <<>>
    /\ handlers' = handlers \ {h}
    /\ queue' = [queue EXCEPT ![h.by] = @ \ h.dropped]
    /\ draft' = [draft EXCEPT ![h.by] = IF @ \in h.dropped THEN NoDraft ELSE @]
    /\ answered' = IF h.approves THEN answered \cup (h.dropped \cap Todos) ELSE answered
    /\ UNCHANGED <<serverSide, dial>>

ConsoleNext ==
    \/ \E t \in Todos : Escalate(t)
    \/ \E p \in Proposals : Stage(p)
    \/ ClearPending
    \/ \E l \in Levels : SaveDial(l)
    \/ TickBar
    \/ \E c \in Consoles : Load(c)
    \/ \E c \in Consoles, t \in Todos : ApproveTodo(c, t) \/ DeclineTodo(c, t)
    \/ \E c \in Consoles : ApproveProposal(c) \/ RejectProposal(c) \/ ApproveAll(c) \/ RejectAll(c)
    \/ \E h \in handlers : Serve(h) \/ Fail(h) \/ HandlerEnds(h)

ConsoleSpec == ConsoleInit /\ [][ConsoleNext]_cvars
-----------------------------------------------------------------------------
(* A bulk approval never passes a to-do under every bar the operator had     *)
(* saved within the life of the cached bar: getDeferenceThreshold.          *)
BulkWithinDial ==
    \A j \in judged : \E l \in j[2] : Confidence[j[1]] >= l

(* Two consoles, a lost answer or a late click may launch a proposal again,  *)
(* but its steps run once: the ids of the tasks are taken.                  *)
StepsRunOnce ==
    \A i, j \in 1..Len(runs) :
        runs[i].started /\ runs[j].started /\ runs[i].of = runs[j].of => i = j

(* What became of a proposal is settled by the first verdict that reaches    *)
(* it, whatever a console that shows an old state posts later.              *)
VerdictsStand ==
    \A p \in Proposals : table[p] \in {"unstaged", "pending", verdict[p]}

(* The review: routes that judge on a bar of the moment, launch a proposal   *)
(* once and record the first verdict.                                       *)
ReviewSound == BulkWithinDial /\ StepsRunOnce /\ VerdictsStand

(* The queue "is honest about everything pending" (ui/lib/approvalQueue.ts): *)
(* a to-do that left it because the operator approved it is not pending.    *)
QueueIsHonest == \A t \in answered : todos[t] \notin {"open", "pending"}
=============================================================================
