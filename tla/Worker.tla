------------------------------- MODULE Worker -------------------------------
(* What a worker thread does with one task (core/coreexec/worker.ts): the    *)
(* permission gate (gate-order.ts, permission-gate.ts), the plugins, the     *)
(* governed fetch (routeswitch/egress.ts), the command sandbox and the       *)
(* verification of an earlier output.  The settings may change while the     *)
(* task awaits anything, and other tasks of its run complete meanwhile.      *)
EXTENDS Naturals, Sequences, FiniteSets, SequencesExt

CONSTANTS Tasks,        \* the tasks under execution
          Inputs,       \* what a task may be given
          Hosts,        \* hosts
          Reach,        \* host -> the kinds of address its name may resolve to
          Loopback,     \* the hosts that are a literal of the machine itself
          Siblings,     \* the other tasks of the run, in the order of their rows
          MaxFiles,     \* MAX_OKF_FILES_PER_TASK
          MaxPending,   \* MAX_PENDING_WRITES
          MaxRedirects, \* MAX_REDIRECTS of the governed fetch
          MaxChanges    \* bound: changes of the settings

ASSUME WorkerAssumption ==
  /\ Inputs \subseteq [plugin : {"none", "index", "fetch", "draft", "map", "unknown"},
                        directive : {"verify", "shell", "scrape", "generic"},
                        files : Nat, target : Hosts]
  /\ Reach \in [Hosts -> SUBSET {"loopback", "private", "public"} \ {{}}]
  /\ Loopback \subseteq Hosts
  /\ MaxFiles \in Nat /\ MaxPending \in Nat /\ 2 * MaxFiles <= MaxPending
  /\ Siblings \in Seq(STRING) /\ MaxRedirects \in Nat /\ MaxChanges \in Nat

VARIABLES input,     \* task -> its plugin, its directive, files and target
          policy,    \* the settings the gates read
          step,      \* task -> where its execution stands
          gates,     \* task -> the actions still to be gated
          permitted, \* task -> the actions a gate has let through
          fetch,     \* task -> the governed fetch under way
          acts,      \* task -> what it has done to the world
          indexing,  \* task -> the count of the files batch
          pending,   \* task -> its writes not yet acknowledged
          completed, \* the siblings in the order they completed
          verdict,   \* task -> the sibling its verification read
          changes

wvars == <<input, policy, step, gates, permitted, fetch, acts, indexing, pending,
           completed, verdict, changes>>

Plugin(t)    == input[t].plugin
Directive(t) == input[t].directive
Target(t)    == input[t].target
Untaken      == [plugin |-> "none", directive |-> "generic", files |-> 0, target |-> ""]

Policies == [opted : BOOLEAN, exec : BOOLEAN, network : BOOLEAN, external : BOOLEAN, browser : BOOLEAN]
\* In place of a host or an address.
Nowhere  == ""

NoFetch  == [host |-> Nowhere, found |-> Nowhere, hops |-> 0, internal |-> FALSE, stage |-> "none"]
NoBatch  == [left |-> 0, rows |-> 0, todos |-> 0, processed |-> 0, skipped |-> 0, deferred |-> 0]

-----------------------------------------------------------------------------
(* The gate.                                                                 *)

\* pluginNeedsNetwork follows the condition under which the plugin fetches,
\* for any name of a plugin that comes with an address.
NeedsNetwork(in) == in.plugin \in {"fetch", "unknown"}

ResolvedFirst(in) ==
  IF NeedsNetwork(in) THEN <<"fetch">>
  ELSE IF in.directive \in {"shell", "scrape"} THEN <<in.directive>> ELSE <<>>

\* resolveGateActions: a network plugin and a directive both count.
Resolved(in) ==
  IF NeedsNetwork(in) /\ in.directive \in {"shell", "scrape"}
  THEN <<"fetch", in.directive>> ELSE ResolvedFirst(in)

\* checkActionPermission: a project without an archetype is not restricted.
Allowed(action) ==
  ~policy.opted \/ (IF action = "shell" THEN policy.exec ELSE policy.network)

-----------------------------------------------------------------------------
(* Actions.                                                                  *)

WorkerInit ==
  /\ input = [t \in Tasks |-> Untaken]
  /\ policy = [opted |-> TRUE, exec |-> TRUE, network |-> TRUE, external |-> TRUE, browser |-> FALSE]
  /\ step = [t \in Tasks |-> "queued"]
  /\ gates = [t \in Tasks |-> <<>>]
  /\ permitted = [t \in Tasks |-> {}]
  /\ fetch = [t \in Tasks |-> NoFetch]
  /\ acts = [t \in Tasks |-> {}]
  /\ indexing = [t \in Tasks |-> NoBatch]
  /\ pending = [t \in Tasks |-> 0]
  /\ completed = <<>>
  /\ verdict = [t \in Tasks |-> ""]
  /\ changes = 0

\* The operator changes the tool registry, an archetype, the kill switch or the
\* backend that scrapes.
ChangePolicy(p) ==
  /\ changes < MaxChanges
  /\ policy' = p
  /\ changes' = changes + 1
  /\ UNCHANGED <<input, step, gates, permitted, fetch, acts, indexing, pending, completed, verdict>>

\* Another task of the run completes.
Complete(s) ==
  /\ ~\E i \in DOMAIN completed : completed[i] = s
  /\ completed' = Append(completed, s)
  /\ UNCHANGED <<input, policy, step, gates, permitted, fetch, acts, indexing, pending, verdict, changes>>

\* The main thread acknowledges a write, once the thread's event loop runs.
Acknowledge(t) ==
  /\ step[t] # "batch" /\ pending[t] > 0
  /\ pending' = [pending EXCEPT ![t] = @ - 1]
  /\ UNCHANGED <<input, policy, step, gates, permitted, fetch, acts, indexing, completed, verdict, changes>>

At(t, s) == step' = [step EXCEPT ![t] = s]

\* The payload is read, the project resolved and the actions to gate collected.
Receive(t, in) ==
  /\ step[t] = "queued"
  /\ input' = [input EXCEPT ![t] = in]
  /\ At(t, "gating")
  /\ gates' = [gates EXCEPT ![t] = Resolved(in)]
  /\ UNCHANGED <<policy, permitted, fetch, acts, indexing, pending, completed, verdict, changes>>

\* gateAndDispatch: one awaited check at a time, and the dispatch after the last.
Gate(t) ==
  /\ step[t] = "gating"
  /\ IF gates[t] = <<>> THEN At(t, "plugin") /\ UNCHANGED <<gates, permitted>>
     ELSE IF Allowed(Head(gates[t]))
     THEN /\ permitted' = [permitted EXCEPT ![t] = @ \cup {Head(gates[t])}]
          /\ gates' = [gates EXCEPT ![t] = Tail(@)]
          /\ UNCHANGED step
     ELSE At(t, "failed") /\ UNCHANGED <<gates, permitted>>
  /\ UNCHANGED <<input, policy, fetch, acts, indexing, pending, completed, verdict, changes>>

BeginFetch(t, host, internal) ==
  fetch' = [fetch EXCEPT ![t] =
              [host |-> host, found |-> Nowhere, hops |-> 0, internal |-> internal, stage |-> "host"]]

MinOf(a, b) == IF a < b THEN a ELSE b

BatchUncapped(n) == [NoBatch EXCEPT !.left = n]

\* The files over the cap are deferred and counted.
Batch(n) == [NoBatch EXCEPT !.left = MinOf(n, MaxFiles), !.deferred = n - MinOf(n, MaxFiles)]

\* executePlugin, or the directive when there is no plugin of that name.
Dispatch(t) ==
  /\ step[t] = "plugin"
  /\ CASE Plugin(t) = "index" ->
            At(t, "batch") /\ indexing' = [indexing EXCEPT ![t] = Batch(input[t].files)] /\ UNCHANGED fetch
       [] Plugin(t) = "fetch" ->
            At(t, "fetching") /\ BeginFetch(t, Target(t), FALSE) /\ UNCHANGED indexing
       [] Plugin(t) = "draft" ->
            At(t, "drafting") /\ UNCHANGED <<fetch, indexing>>
       [] Plugin(t) = "map" ->
            At(t, "mapping") /\ UNCHANGED <<fetch, indexing>>
       [] OTHER ->
            At(t, "directive") /\ UNCHANGED <<fetch, indexing>>
  /\ UNCHANGED <<input, policy, gates, permitted, acts, pending, completed, verdict, changes>>

\* postWriteOpOrThrow fits n writes in the channel or throws at the first too many.
Fits(t, n) == pending[t] + n <= MaxPending

\* One file of the batch, in one piece: unreadable or oversize, or its row and
\* then the to-do that has it reviewed; the count follows the second write.
IndexFile(t, readable) ==
  /\ step[t] = "batch" /\ indexing[t].left > 0
  /\ LET b == [indexing[t] EXCEPT !.left = @ - 1] IN
     IF ~readable \/ ~Fits(t, 1)
     THEN /\ indexing' = [indexing EXCEPT ![t] = [b EXCEPT !.skipped = @ + 1]]
          /\ UNCHANGED pending
     ELSE IF ~Fits(t, 2)
     THEN /\ indexing' = [indexing EXCEPT ![t] = [b EXCEPT !.rows = @ + 1, !.skipped = @ + 1]]
          /\ pending' = [pending EXCEPT ![t] = @ + 1]
     ELSE /\ indexing' = [indexing EXCEPT ![t] =
               [b EXCEPT !.rows = @ + 1, !.todos = @ + 1, !.processed = @ + 1]]
          /\ pending' = [pending EXCEPT ![t] = @ + 2]
  /\ UNCHANGED <<input, policy, step, gates, permitted, fetch, acts, completed, verdict, changes>>

EndBatch(t) ==
  /\ step[t] = "batch" /\ indexing[t].left = 0
  /\ At(t, "succeeded")
  /\ UNCHANGED <<input, policy, gates, permitted, fetch, acts, indexing, pending, completed, verdict, changes>>

\* What a task does to the world, other than a request.
Did(kinds) == {[kind |-> k, host |-> Nowhere, found |-> Nowhere, reached |-> Nowhere] : k \in kinds}
Does(t, kinds) == acts' = [acts EXCEPT ![t] = @ \cup Did(kinds)]

\* The end of a plugin that posts one write.
PostAndEnd(t, good) ==
  IF good /\ Fits(t, 1)
  THEN At(t, "succeeded") /\ pending' = [pending EXCEPT ![t] = @ + 1]
  ELSE At(t, "failed") /\ UNCHANGED pending

\* schema_patcher: without a trace it ends, the model it calls may fail, the
\* answer goes to a file and a to-do.  No permission is asked for any of it.
Draft(t, done) ==
  /\ step[t] = "drafting"
  /\ Does(t, done)
  /\ PostAndEnd(t, "file" \in done)
  /\ UNCHANGED <<input, policy, gates, permitted, fetch, indexing, completed, verdict, changes>>

\* gitnexus_mapper runs the CLI as a child process, and has its output embedded
\* by a model; no permission is asked for either.
MapCode(t, ran) ==
  /\ step[t] = "mapping"
  /\ Does(t, {"child"})
  /\ At(t, IF ran THEN "embedding" ELSE "failed")
  /\ UNCHANGED <<input, policy, gates, permitted, fetch, indexing, pending, completed, verdict, changes>>

EmbedMap(t, embedded) ==
  /\ step[t] = "embedding"
  /\ Does(t, {"model"})
  /\ PostAndEnd(t, embedded)
  /\ UNCHANGED <<input, policy, gates, permitted, fetch, indexing, completed, verdict, changes>>

-----------------------------------------------------------------------------
(* egressFetch: gates in a fixed order, each awaiting a setting or the DNS.  *)

\* A failure ends the task, except that a scrape turns from its loopback-only
\* attempt to the external one.
Blocked(t, reason) ==
  IF step[t] = "scraping" /\ fetch[t].internal /\ reason = "internal-not-loopback"
  THEN BeginFetch(t, Target(t), FALSE) /\ UNCHANGED step
  ELSE fetch' = [fetch EXCEPT ![t].stage = "none"] /\ At(t, "failed")

Advance(t, stage) == fetch' = [fetch EXCEPT ![t].stage = stage] /\ UNCHANGED step

Fetching(t, stage) == step[t] \in {"fetching", "scraping"} /\ fetch[t].stage = stage

Unfetched == UNCHANGED <<input, policy, gates, permitted, acts, indexing, pending, completed, verdict, changes>>

HostGate(t) ==
  /\ Fetching(t, "host")
  /\ IF fetch[t].internal /\ fetch[t].host \notin Loopback
     THEN Blocked(t, "internal-not-loopback") ELSE Advance(t, "switch")
  /\ Unfetched

KillSwitch(t) ==
  /\ Fetching(t, "switch")
  /\ IF ~fetch[t].internal /\ ~policy.external
     THEN Blocked(t, "kill-switch") ELSE Advance(t, "address")
  /\ Unfetched

Addresses == {"loopback", "private", "public", "unresolved"}

\* One lookup of a name; each may find another address.
Lookup(host) == Reach[host] \cup {"unresolved"}

\* validateAddress: a name that does not resolve or resolves inside is refused;
\* a loopback literal is not looked up.
Reachable(address, internal) == internal \/ address = "public"

AddressGate(t, address) ==
  /\ Fetching(t, "address") /\ address \in Lookup(fetch[t].host)
  /\ IF Reachable(address, fetch[t].internal)
     THEN fetch' = [fetch EXCEPT ![t].stage = "policy", ![t].found = address] /\ UNCHANGED step
     ELSE Blocked(t, "address")
  /\ Unfetched

PolicyGate(t) ==
  /\ Fetching(t, "policy")
  /\ IF Allowed("fetch") THEN Advance(t, "request") ELSE Blocked(t, "policy")
  /\ Unfetched

\* The request leaves for the address that a lookup of its own finds.
Sends(t, address) ==
  /\ address \in Reach[fetch[t].host]
  /\ acts' = [acts EXCEPT ![t] = @ \cup
                {[kind |-> "request", host |-> fetch[t].host, found |-> fetch[t].found, reached |-> address]}]

\* It fails, times out, is refused, or delivers a body.
Request(t, address, delivered) ==
  /\ Fetching(t, "request")
  /\ Sends(t, address)
  /\ IF delivered /\ (step[t] = "scraping" \/ Fits(t, 2))
     THEN /\ fetch' = [fetch EXCEPT ![t].stage = "none"]
          /\ At(t, "succeeded")
          /\ pending' = IF step[t] = "fetching" THEN [pending EXCEPT ![t] = @ + 2] ELSE pending
     ELSE Blocked(t, "response") /\ UNCHANGED pending
  /\ UNCHANGED <<input, policy, gates, permitted, indexing, completed, verdict, changes>>

VettedAlways(host, address, internal) == TRUE

\* A redirect within the budget: the next host passes the host and address gates.
Vetted(host, address, internal) ==
  /\ internal => host \in Loopback
  /\ Reachable(address, internal)

Redirect(t, address, host, found) ==
  /\ Fetching(t, "request") /\ found \in Lookup(host)
  /\ Sends(t, address)
  /\ IF fetch[t].hops < MaxRedirects /\ Vetted(host, found, fetch[t].internal)
     THEN /\ fetch' = [fetch EXCEPT ![t].host = host, ![t].found = found, ![t].hops = @ + 1]
          /\ UNCHANGED step
     ELSE fetch' = [fetch EXCEPT ![t].stage = "none"] /\ At(t, "failed")
  /\ UNCHANGED <<input, policy, gates, permitted, indexing, pending, completed, verdict, changes>>

-----------------------------------------------------------------------------
(* The directive.                                                            *)

\* The completed sibling with the latest row: the output a verification reads.
LatestRow(done) == SelectLastInSeq(Siblings, LAMBDA s : \E i \in DOMAIN done : done[i] = s)

\* A verification judges the output it finds, or an empty one.
Verify(t, holds) ==
  /\ step[t] = "directive" /\ Directive(t) = "verify"
  /\ At(t, IF holds THEN "succeeded" ELSE "failed")
  /\ verdict' = [verdict EXCEPT ![t] = IF completed = <<>> THEN "none" ELSE Siblings[LatestRow(completed)]]
  /\ UNCHANGED <<input, policy, gates, permitted, fetch, acts, indexing, pending, completed, changes>>

\* A sandboxed command ends, fails or is killed after its time.
Shell(t, ended) ==
  /\ step[t] = "directive" /\ Directive(t) = "shell"
  /\ Does(t, {"shell"})
  /\ At(t, IF ended THEN "succeeded" ELSE "failed")
  /\ UNCHANGED <<input, policy, gates, permitted, fetch, indexing, pending, completed, verdict, changes>>

\* The browser backend runs its script in the command sandbox.
ScrapeByBrowser(t, ended) ==
  /\ step[t] = "directive" /\ Directive(t) = "scrape" /\ policy.browser
  /\ Does(t, {"shell"})
  /\ At(t, IF ended THEN "succeeded" ELSE "failed")
  /\ UNCHANGED <<input, policy, gates, permitted, fetch, indexing, pending, completed, verdict, changes>>

\* Any other scrape begins with the loopback-only attempt.
Scrape(t) ==
  /\ step[t] = "directive" /\ Directive(t) = "scrape" /\ ~policy.browser
  /\ At(t, "scraping")
  /\ BeginFetch(t, Target(t), TRUE)
  /\ UNCHANGED <<input, policy, gates, permitted, acts, indexing, pending, completed, verdict, changes>>

Echo(t) ==
  /\ step[t] = "directive" /\ Directive(t) = "generic"
  /\ At(t, "succeeded")
  /\ UNCHANGED <<input, policy, gates, permitted, fetch, acts, indexing, pending, completed, verdict, changes>>

WorkerNext ==
  \/ \E p \in Policies : ChangePolicy(p)
  \/ \E s \in Range(Siblings) : Complete(s)
  \/ \E t \in Tasks :
       \/ Acknowledge(t) \/ Gate(t) \/ Dispatch(t) \/ EndBatch(t)
       \/ HostGate(t) \/ KillSwitch(t) \/ PolicyGate(t) \/ Scrape(t) \/ Echo(t)
       \/ \E in \in Inputs : Receive(t, in)
       \/ \E done \in {{}, {"model"}, {"model", "file"}} : Draft(t, done)
       \/ \E b \in BOOLEAN : \/ IndexFile(t, b) \/ MapCode(t, b) \/ EmbedMap(t, b)
                             \/ Verify(t, b) \/ Shell(t, b) \/ ScrapeByBrowser(t, b)
       \/ \E a \in Addresses :
            \/ AddressGate(t, a)
            \/ \E b \in BOOLEAN : Request(t, a, b)
            \/ \E h \in Hosts, f \in Addresses : Redirect(t, a, h, f)

WorkerSpec == WorkerInit /\ [][WorkerNext]_wvars

-----------------------------------------------------------------------------
(* Properties.                                                               *)

Ended(t) == step[t] \in {"succeeded", "failed"}

\* The permission an act stands under.  A script that scrapes in the sandbox
\* stands under that of the scrape; the child process, the model call and the
\* file of the two plugins without a gate stand under none.
Licensed(t, a) ==
  \/ a.kind = "request" /\ permitted[t] \cap {"fetch", "scrape"} # {}
  \/ a.kind = "shell" /\ ("shell" \in permitted[t] \/ (Directive(t) = "scrape" /\ "scrape" \in permitted[t]))
  \/ a.kind \in {"model", "file"} /\ Plugin(t) = "draft"
  \/ a.kind \in {"child", "model"} /\ Plugin(t) = "map"

\* Nothing reaches a shell or makes a request of its own before the gate has
\* let that action through, for tasks that need several and whatever changes
\* meanwhile; what is done without a gate is done by the two plugins.
GatedBeforeAct == \A t \in Tasks : \A a \in acts[t] : Licensed(t, a)
PluginGated == \A t \in Tasks : step[t] = "fetching" => "fetch" \in permitted[t]

\* No request leaves for a host whose own check, of this hop, did not find it
\* outside the network, except to the machine itself by the loopback-only
\* attempt, redirects included.
OnlyVettedHosts == \A t \in Tasks : \A a \in acts[t] :
  a.kind = "request" => a.found = "public" \/ (Directive(t) = "scrape" /\ a.host \in Loopback)

\* The cap on files keeps a batch within the channel: every row it quarantines
\* has its to-do, and every file is processed, skipped or deferred.
BatchReviewed == \A t \in Tasks :
  LET b == indexing[t] IN
  /\ b.rows = b.todos
  /\ step[t] = "succeeded" /\ Plugin(t) = "index" =>
       b.processed + b.skipped + b.deferred = input[t].files

\* The four together.
TaskSound == GatedBeforeAct /\ PluginGated /\ OnlyVettedHosts /\ BatchReviewed

\* Refuted, and not claimed: the request resolves the name anew, so what was
\* checked need not be what is reached.
ReachesVetted == \A t \in Tasks : \A a \in acts[t] :
  a.kind = "request" /\ a.host \notin Loopback => a.reached = "public"

\* Refuted.  The comment on the verification gate says it "Reads the immediately prior
\* completed task's output_data".
VerifiesPrior ==
  [][\A t \in Tasks : verdict'[t] # verdict[t] /\ completed # <<>> => verdict'[t] = Last(completed)]_wvars
=============================================================================
