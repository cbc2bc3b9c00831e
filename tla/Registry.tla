------------------------------ MODULE Registry ------------------------------
(* The provider registry: the rows of llm_providers and llm_routing_rules    *)
(* (server/routes/llm.ts), the instances the engine routes to (engine.ts,    *)
(* provider-factory.ts), the boot that rebuilds them (server-main.ts) and    *)
(* the setup view that edits them from lists it fetched earlier              *)
(* (RouteSwitchDashboard.tsx).  A call is handled some time after the click: *)
(* its handler reads the body and then runs to its end without an await.     *)
(* How a chain is used once it is resolved is RouteSwitch.                   *)
EXTENDS Naturals, Sequences, FiniteSets

CONSTANTS Ids,         \* provider ids, never used twice
          Types,       \* "http", "mock" and "opencode", the retired one
          Scopes, Global,
          MaxVersion,  \* bound: configurations saved
          MaxCalls,    \* bound: calls in flight from the view
          MaxBoots,    \* bound: starts of the server
          NoProvider

ASSUME RegistryAssumption ==
  /\ Types \subseteq {"http", "mock", "opencode"}
  /\ Global \in Scopes /\ NoProvider \notin Ids
  /\ MaxVersion \in Nat \ {0} /\ MaxCalls \in Nat \ {0} /\ MaxBoots \in Nat \ {0}

VARIABLES rows,      \* llm_providers: id -> [state, type, ver]
          rules,     \* llm_routing_rules: scope -> chain, <<>> without a rule
          zen,       \* opencode_zen_enabled
          instances, \* providerRegistry
          primary,   \* the engine's active provider
          edits,     \* configurations saved so far
          calls,     \* requests in flight
          shown,     \* the providers the view shows
          locked,    \* rows whose key the present master key does not decrypt
          skipped,   \* history: rows such a key kept from being registered
          starts

rvars == <<rows, rules, zen, instances, primary, edits, calls, shown, locked, skipped, starts>>
keys == <<locked, skipped>>
db == <<rows, rules, zen>>

Absent == [state |-> "absent", type |-> "http", ver |-> 0]
Rows == {i \in Ids : rows[i].state \in {"on", "off"}}
Enabled == {i \in Ids : rows[i].state = "on"}
Elements(c) == {c[k] : k \in DOMAIN c}

-----------------------------------------------------------------------------
(* Instances.  The mock provider ignores the id it is built for: of a row of *)
(* its type there is the same instance as of no row, like those of the       *)
(* environment and of POST /config.                                          *)

Instantiable(type) == type = "opencode" => zen
Rowless == [id |-> NoProvider, type |-> "mock", ver |-> 0]
Instance(i, type, ver) ==
  IF type = "mock" THEN Rowless ELSE [id |-> i, type |-> type, ver |-> ver]
RowInstance(i) == Instance(i, rows[i].type, rows[i].ver)

Register(set, p) == {q \in set : q.id # p.id} \cup {p}
Registered(i) == \E p \in instances : p.id = i

SetProvider(p) == primary' = p /\ instances' = Register(instances, p)

(* The instance a request of a scope goes to: the first of its chain that is *)
(* registered, of the global chain otherwise, and the active one at last.    *)
Usable(s) == SelectSeq(rules[s], Registered)
Routed(s) ==
  LET c == IF Usable(s) # <<>> THEN Usable(s) ELSE Usable(Global)
  IN  IF c = <<>> THEN primary ELSE CHOOSE p \in instances : p.id = Head(c)

-----------------------------------------------------------------------------
(* Boot.  The loop over the enabled rows skips those of a retired type; a    *)
(* key it cannot decrypt ends it, and the boot, with the rows before        *)
(* registered, whichever these are.                                         *)

Loads(done) == IF Enabled \cap locked' = {} THEN done = Enabled ELSE done \cap locked' = {}

BootSet(done) == {RowInstance(i) : i \in {j \in done : Instantiable(rows[j].type)}}
BootPrimary(done) ==
  LET head == IF rules[Global] = <<>> THEN NoProvider ELSE Head(rules[Global])
  IN  IF done # Enabled \/ BootSet(done) = {} THEN {Rowless}
      ELSE IF \E p \in BootSet(done) : p.id = head THEN {p \in BootSet(done) : p.id = head}
      ELSE BootSet(done)

RegistryInit ==
  /\ rows = [i \in Ids |-> Absent] /\ rules = [s \in Scopes |-> <<>>] /\ zen = FALSE
  /\ instances = {Rowless} /\ primary = Rowless
  /\ edits = 0 /\ calls = {} /\ locked = {} /\ skipped = {}
  /\ shown = {} /\ starts = 1

\* The process starts again: calls in flight fail, the view stays.  A master
\* key that is missing or damaged is replaced by a new one.
Boot ==
  /\ starts < MaxBoots /\ starts' = starts + 1
  /\ calls' = {}
  /\ \E lost \in SUBSET Rows : locked' = locked \cup lost
  /\ \E done \in SUBSET Enabled :
        /\ Loads(done) /\ skipped' = Enabled \ done
        /\ \E p \in BootPrimary(done) : primary' = p /\ instances' = Register(BootSet(done), p)
  /\ UNCHANGED <<db, edits, shown>>

-----------------------------------------------------------------------------
(* The handlers.                                                             *)

Reply(c, next) == calls' = (calls \ {c}) \cup next
Refresh == {[op |-> "refresh"]}

\* Fault: a registered provider is not replaced.
SyncEngineNew(i, type, ver, on) ==
  IF on /\ Instantiable(type) /\ ~Registered(i)
  THEN instances' = Register(instances, Instance(i, type, ver))
  ELSE UNCHANGED instances

\* syncProviderToEngine: a row that is off changes nothing in the registry.
SyncEngine(i, type, ver, on) ==
  IF on /\ Instantiable(type) THEN instances' = Register(instances, Instance(i, type, ver))
  ELSE UNCHANGED instances

(* POST /providers: the first enabled provider is also made the active one   *)
(* while there is no global rule.                                            *)
Create(c) ==
  /\ c.op = "create" /\ Reply(c, Refresh)
  /\ IF Instantiable(c.type)
     THEN /\ rows' = [rows EXCEPT ![c.id] = [state |-> "on", type |-> c.type, ver |-> c.ver]]
          /\ SyncEngine(c.id, c.type, c.ver, TRUE)
          /\ primary' = IF Enabled = {} /\ rules[Global] = <<>>
                        THEN Instance(c.id, c.type, c.ver) ELSE primary
     ELSE UNCHANGED <<rows, instances, primary>>
  /\ UNCHANGED <<rules, zen, edits, shown, keys, starts>>

(* PUT /providers/:id: the row, then the registry; the active one is kept.  A *)
(* body without a type and a configuration leaves both; one without a key   *)
(* leaves the key, and the handler throws on a locked one, the row written. *)
Update(c) ==
  /\ c.op = "update" /\ Reply(c, Refresh)
  /\ IF c.id \in Rows /\ Instantiable(c.type)
     THEN /\ rows' = [rows EXCEPT ![c.id] = [state |-> "on", type |-> c.type, ver |-> c.ver]]
          /\ locked' \in {locked, locked \ {c.id}}
          /\ IF c.id \in locked'
             THEN skipped' = skipped \cup {c.id} /\ UNCHANGED instances
             ELSE skipped' = skipped \ {c.id} /\ SyncEngine(c.id, c.type, c.ver, TRUE)
     ELSE UNCHANGED <<rows, instances, keys>>
  /\ UNCHANGED <<rules, zen, primary, edits, shown, starts>>

SwitchOff(c) ==
  /\ c.op = "disable" /\ Reply(c, {})
  /\ IF c.id \in Rows
     THEN /\ rows' = [rows EXCEPT ![c.id].state = "off"]
          /\ SyncEngine(c.id, rows[c.id].type, rows[c.id].ver, FALSE)
     ELSE UNCHANGED <<rows, instances>>
  /\ UNCHANGED <<rules, zen, primary, edits, shown, keys, starts>>

\* Fault: a delete looks at the first provider of each chain only.
ReferencedFirst(i) == \E s \in Scopes : rules[s] # <<>> /\ Head(rules[s]) = i

\* DELETE /providers/:id: refused while a rule names it; the instance stays.
Referenced(i) == \E s \in Scopes : i \in Elements(rules[s])

Delete(c) ==
  /\ c.op = "delete"
  /\ IF Referenced(c.id) \/ c.id \notin Rows
     THEN Reply(c, {}) /\ UNCHANGED rows
     ELSE /\ Reply(c, {[op |-> "deleted", id |-> c.id]})
          /\ rows' = [rows EXCEPT ![c.id].state = "gone"]
  /\ UNCHANGED <<rules, zen, instances, primary, edits, shown, keys, starts>>

\* Fault: only the first id of a chain is looked up.
ResolvableHead(ids) == ids # <<>> /\ Head(ids) \in Rows

\* PUT /routing-rules: every id has to be a row.
Resolvable(ids) == ids # <<>> /\ Elements(ids) \subseteq Rows

SaveRule(c) ==
  /\ c.op = "rule" /\ Reply(c, Refresh)
  /\ rules' = IF Resolvable(c.chain) THEN [rules EXCEPT ![c.scope] = c.chain] ELSE rules
  /\ UNCHANGED <<rows, zen, instances, primary, edits, shown, keys, starts>>

DeleteRule(c) ==
  /\ c.op = "unrule" /\ Reply(c, Refresh)
  /\ rules' = [rules EXCEPT ![c.scope] = <<>>]
  /\ UNCHANGED <<rows, zen, instances, primary, edits, shown, keys, starts>>

\* POST /config and /routeswitch/provider: an instance without a row.
Switch(c) ==
  /\ c.op = "switch" /\ Reply(c, {})
  /\ SetProvider(Rowless)
  /\ UNCHANGED <<db, edits, shown, keys, starts>>

ToggleZen(c) ==
  /\ c.op = "zen" /\ Reply(c, {}) /\ zen' = ~zen
  /\ UNCHANGED <<rows, rules, instances, primary, edits, shown, keys, starts>>

-----------------------------------------------------------------------------
(* The setup view.                                                           *)

Submit(c) == Cardinality(calls) < MaxCalls /\ calls' = calls \cup {c}
Server == <<db, instances, primary, keys>>

\* The lists are fetched again, with the rules the view takes its chain from.
ShowRefreshed(c) ==
  /\ c.op = "refresh" /\ Reply(c, {})
  /\ shown' = Rows
  /\ UNCHANGED <<Server, edits, starts>>

ShowDeleted(c) ==
  /\ c.op = "deleted" /\ Reply(c, {})
  /\ shown' = shown \ {c.id}
  /\ UNCHANGED <<Server, edits, starts>>

(* handleSaveProvider: a new row, or the one under edit, which it always     *)
(* enables; the form closes whatever the answer.                             *)
SaveProvider(edited, type) ==
  /\ edits < MaxVersion /\ edits' = edits + 1
  /\ IF edited = NoProvider
     THEN \E i \in Ids : /\ rows[i] = Absent /\ \A c \in calls : c.op = "create" => c.id # i
                         /\ Submit([op |-> "create", id |-> i, type |-> type, ver |-> edits'])
     ELSE Submit([op |-> "update", id |-> edited, type |-> type, ver |-> edits'])
  /\ UNCHANGED <<Server, shown, starts>>

\* The same call from another client may switch the row off.
Disable(i) ==
  /\ rows[i].state = "on" /\ Submit([op |-> "disable", id |-> i])
  /\ UNCHANGED <<Server, edits, shown, starts>>

DeleteProvider(i) ==
  /\ i \in shown /\ Submit([op |-> "delete", id |-> i])
  /\ UNCHANGED <<Server, edits, shown, starts>>

(* The chain under edit is a rule fetched with the providers, or what the    *)
(* adds, removals and moves make of it: ids the view shows, each once.       *)
Chains == UNION {{c \in [1..n -> shown] : \A j, k \in 1..n : c[j] = c[k] => j = k} :
                   n \in 1..Cardinality(shown)}
SaveChain(s, c) ==
  /\ Submit([op |-> "rule", scope |-> s, chain |-> c])
  /\ UNCHANGED <<Server, edits, shown, starts>>

ForgetRule(s) ==
  /\ rules[s] # <<>> /\ Submit([op |-> "unrule", scope |-> s])
  /\ UNCHANGED <<Server, edits, shown, starts>>

Command(c) == Submit(c) /\ UNCHANGED <<Server, edits, shown, starts>>

RegistryNext ==
  \/ Boot
  \/ \E c \in calls : \/ Create(c) \/ Update(c) \/ SwitchOff(c) \/ Delete(c)
                      \/ SaveRule(c) \/ DeleteRule(c) \/ Switch(c) \/ ToggleZen(c)
                      \/ ShowRefreshed(c) \/ ShowDeleted(c)
  \/ \E i \in shown \cup {NoProvider}, t \in Types : SaveProvider(i, t)
  \/ \E i \in Ids : Disable(i) \/ DeleteProvider(i)
  \/ \E s \in Scopes, c \in Chains : SaveChain(s, c)
  \/ \E s \in Scopes : ForgetRule(s)
  \/ Command([op |-> "switch"])
  \/ "opencode" \in Types /\ Command([op |-> "zen"])

RegistrySpec == RegistryInit /\ [][RegistryNext]_rvars

-----------------------------------------------------------------------------

(* The rules name rows: whatever the view's lists were when it sent a chain  *)
(* or a delete, in whichever order the two are handled, no rule names a      *)
(* provider that has gone (llm.ts, the checks of both handlers).             *)
RulesResolve == \A s \in Scopes : Elements(rules[s]) \subseteq Rows

(* An enabled row of a type that is never retired is registered with its     *)
(* current configuration, across edits, switches and restarts, unless a key *)
(* that does not decrypt stopped the boot or the edit.  A row of the mock   *)
(* type is registered under another id.                                     *)
RowsAreLive == \A i \in Enabled \ skipped : rows[i].type = "http" => RowInstance(i) \in instances

RegistrySound == RulesResolve /\ RowsAreLive

(* Refuted.  "Called after create/update so runtime routing immediately uses *)
(* the new config." (llm.ts:87): the instance a request goes to carries the  *)
(* configuration of its row.                                                 *)
RoutesAreCurrent ==
  \A s \in Scopes : Routed(s).id \in Enabled => Routed(s) = RowInstance(Routed(s).id)
=============================================================================
