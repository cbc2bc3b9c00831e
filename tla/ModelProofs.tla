---------------------------- MODULE ModelProofs -----------------------------
(***************************************************************************)
(* The models behind the chat: the registry of providers, for any number   *)
(* of providers, scopes, saved configurations, calls in flight and         *)
(* restarts; local inference, for any number of generations and any budget;*)
(* the adapters of the providers, for any limits and any answers.          *)
(***************************************************************************)
EXTENDS Models, TLAPS

-----------------------------------------------------------------------------
(* The inductive invariant.                                                 *)

RegistryTypes ==
  /\ DOMAIN rows = Ids /\ DOMAIN rules = Scopes
  /\ \A i \in Ids : rows[i] = [state |-> rows[i].state, type |-> rows[i].type, ver |-> rows[i].ver]

RegistryInv == RegistryTypes /\ RegistrySound

LEMMA RegistryBegins == RegistryInit => RegistryInv
BY DEF RegistryInit, RegistryInv, RegistryTypes, RegistrySound, RulesResolve, RowsAreLive,
       Elements, Rows, Enabled, Absent

-----------------------------------------------------------------------------
(* What the steps of the handlers do to the two halves.                     *)

\* The rules go on naming rows as long as no row they name goes.
LEMMA StillResolve ==
  ASSUME RegistryInv, UNCHANGED rules,
         \A s \in Scopes : Elements(rules[s]) \subseteq Rows'
  PROVE  RulesResolve'
BY DEF RulesResolve, Elements

\* An instance that is registered drops only the one it replaces.
LEMMA Registering ==
  ASSUME NEW S, NEW p, NEW q
  PROVE  /\ p \in Register(S, p)
         /\ q \in S /\ q.id # p.id => q \in Register(S, p)
BY DEF Register

LEMMA InstanceIds ==
  ASSUME NEW i, NEW type, NEW ver
  PROVE  /\ Instance(i, type, ver).id \in {i, NoProvider}
         /\ type = "http" => Instance(i, type, ver) = [id |-> i, type |-> type, ver |-> ver]
BY DEF Instance, Rowless

\* Writing a row keeps every other row live, and this one too if it is
\* registered.
LEMMA Writing ==
  ASSUME RegistryInv, NEW i \in Ids, NEW type, NEW ver, Instantiable(type),
         rows' = [rows EXCEPT ![i] = [state |-> "on", type |-> type, ver |-> ver]],
         \/ SyncEngine(i, type, ver, TRUE) /\ skipped \ {i} \subseteq skipped'
         \/ UNCHANGED instances /\ skipped \cup {i} \subseteq skipped',
         UNCHANGED rules
  PROVE  RegistryInv'
<1>1. \/ instances' = Register(instances, Instance(i, type, ver)) /\ skipped \ {i} \subseteq skipped'
      \/ instances' = instances /\ skipped \cup {i} \subseteq skipped'
  BY DEF SyncEngine
<1>2. /\ rows'[i] = [state |-> "on", type |-> type, ver |-> ver]
      /\ \A j \in Ids \ {i} : rows'[j] = rows[j]
  BY DEF RegistryInv, RegistryTypes
<1>3. RegistryTypes'
  <2>1. DOMAIN rows' = Ids /\ DOMAIN rules' = Scopes
    BY DEF RegistryInv, RegistryTypes
  <2>2. \A j \in Ids : rows'[j] = [state |-> rows'[j].state, type |-> rows'[j].type, ver |-> rows'[j].ver]
    BY <1>2 DEF RegistryInv, RegistryTypes
  <2> QED
    BY <2>1, <2>2 DEF RegistryTypes
<1>4. RulesResolve'
  <2>1. Rows \subseteq Rows'
    BY <1>2 DEF Rows
  <2> QED
    BY <2>1, StillResolve DEF RegistryInv, RegistrySound, RulesResolve
<1>5. RowsAreLive'
  <2> SUFFICES ASSUME NEW j \in Ids \ skipped', rows'[j].state = "on", rows'[j].type = "http"
               PROVE  Instance(j, rows'[j].type, rows'[j].ver) \in instances'
    BY DEF RowsAreLive, Enabled, RowInstance
  <2>1. CASE j = i
    BY <1>1, <1>2, <2>1, Registering
  <2>2. CASE j # i
    <3>1. Instance(j, rows[j].type, rows[j].ver) \in instances
      BY <1>1, <1>2, <2>2 DEF RegistryInv, RegistrySound, RowsAreLive, Enabled, RowInstance
    <3>2. /\ Instance(j, rows[j].type, rows[j].ver).id = j
          /\ Instance(i, type, ver).id \in {i, NoProvider}
      BY <1>2, <2>2, InstanceIds
    <3> QED
      BY <1>1, <1>2, <2>2, <3>1, <3>2, Registering, RegistryAssumption
  <2> QED
    BY <2>1, <2>2
<1> QED
  BY <1>3, <1>4, <1>5 DEF RegistryInv, RegistrySound

\* A step that leaves the rows, the rules and the instances.
LEMMA Elsewhere == RegistryInv /\ UNCHANGED <<rows, rules, instances, skipped>> => RegistryInv'
BY DEF RegistryInv, RegistryTypes, RegistrySound, RulesResolve, RowsAreLive,
       Rows, Enabled, RowInstance, Elements

\* Registering an instance without a row.
LEMMA RowlessStays ==
  ASSUME RegistryInv, UNCHANGED <<rows, rules, skipped>>,
         instances' = Register(instances, Rowless)
  PROVE  RegistryInv'
<1>1. RegistryTypes' /\ RulesResolve'
  BY DEF RegistryInv, RegistryTypes, RegistrySound, RulesResolve, Rows, Elements
<1>2. RowsAreLive'
  <2> SUFFICES ASSUME NEW j \in Ids \ skipped, rows[j].state = "on", rows[j].type = "http"
               PROVE  RowInstance(j) \in instances'
    BY DEF RowsAreLive, Enabled, RowInstance
  <2>1. RowInstance(j) \in instances /\ RowInstance(j).id = j
    BY InstanceIds DEF RegistryInv, RegistrySound, RowsAreLive, Enabled, RowInstance
  <2>2. j # Rowless.id
    BY RegistryAssumption DEF Rowless
  <2> QED
    BY <2>1, <2>2, Registering
<1> QED
  BY <1>1, <1>2 DEF RegistryInv, RegistrySound

-----------------------------------------------------------------------------
(* The steps.                                                               *)

\* What the boot rebuilds holds every usable row it reached; the primary it
\* registers is one of these, or has no row.
LEMMA Booting ==
  ASSUME RegistryInv, Boot
  PROVE  RegistryInv'
<1>0. PICK done \in SUBSET Enabled : /\ skipped' = Enabled \ done
                                     /\ \E p \in BootPrimary(done) : instances' = Register(BootSet(done), p)
  BY DEF Boot
<1>1. PICK p \in BootPrimary(done) : instances' = Register(BootSet(done), p)
  BY <1>0
<1>2. UNCHANGED <<rows, rules>>
  BY DEF Boot, db
<1>3. p \in BootSet(done) \/ p = Rowless
  BY DEF BootPrimary
<1>4. RegistryTypes' /\ RulesResolve'
  BY <1>2 DEF RegistryInv, RegistryTypes, RegistrySound, RulesResolve, Rows, Elements
<1>5. RowsAreLive'
  <2> SUFFICES ASSUME NEW j \in done, rows[j].state = "on", rows[j].type = "http"
               PROVE  RowInstance(j) \in instances'
    BY <1>0, <1>2 DEF RowsAreLive, Enabled, RowInstance
  <2>0. j \in Ids /\ done \subseteq Ids
    BY <1>0 DEF Enabled
  <2>1. RowInstance(j) \in BootSet(done) /\ RowInstance(j).id = j
    BY InstanceIds DEF BootSet, Enabled, Instantiable, RowInstance
  <2>2. CASE p.id # j
    BY <1>1, <2>1, <2>2, Registering
  <2>3. CASE p.id = j
    <3>1. p # Rowless
      BY <2>0, <2>3, RegistryAssumption DEF Rowless
    <3>2. PICK i \in done : p = RowInstance(i)
      BY <1>3, <3>1 DEF BootSet, Enabled
    <3>3. i = j
      BY <2>0, <2>3, <3>2, InstanceIds, RegistryAssumption DEF RowInstance
    <3> QED
      BY <1>1, <3>2, <3>3, Registering
  <2> QED
    BY <2>2, <2>3
<1> QED
  BY <1>4, <1>5 DEF RegistryInv, RegistrySound

LEMMA Leaving ==
  ASSUME RegistryInv, NEW t \in {"off", "gone"}, NEW i \in Ids,
         rows' = [rows EXCEPT ![i].state = t], UNCHANGED <<rules, instances, skipped>>,
         t = "gone" => ~Referenced(i), i \in Rows
  PROVE  RegistryInv'
<1>1. /\ rows'[i] = [rows[i] EXCEPT !.state = t]
      /\ \A j \in Ids \ {i} : rows'[j] = rows[j]
  BY DEF RegistryInv, RegistryTypes
<1>2. rows'[i] = [state |-> t, type |-> rows[i].type, ver |-> rows[i].ver]
  BY <1>1 DEF RegistryInv, RegistryTypes
<1>3. RegistryTypes'
  <2>1. DOMAIN rows' = Ids /\ DOMAIN rules' = Scopes
    BY DEF RegistryInv, RegistryTypes
  <2>2. \A j \in Ids : rows'[j] = [state |-> rows'[j].state, type |-> rows'[j].type, ver |-> rows'[j].ver]
    BY <1>1, <1>2 DEF RegistryInv, RegistryTypes
  <2> QED
    BY <2>1, <2>2 DEF RegistryTypes
<1>4. RulesResolve'
  <2>1. CASE t = "off"
    <3>1. Rows \subseteq Rows'
      BY <1>1, <1>2, <2>1 DEF Rows
    <3> QED
      BY <3>1, StillResolve DEF RegistryInv, RegistrySound, RulesResolve
  <2>2. CASE t = "gone"
    <3>1. Rows \ {i} \subseteq Rows'
      BY <1>1 DEF Rows
    <3>2. \A s \in Scopes : i \notin Elements(rules[s])
      BY <2>2 DEF Referenced
    <3> QED
      BY <3>1, <3>2, StillResolve DEF RegistryInv, RegistrySound, RulesResolve
  <2> QED
    BY <2>1, <2>2
<1>5. RowsAreLive'
  BY <1>1, <1>2 DEF RegistryInv, RegistrySound, RowsAreLive, Enabled, RowInstance
<1> QED
  BY <1>3, <1>4, <1>5 DEF RegistryInv, RegistrySound

LEMMA Ruling ==
  ASSUME RegistryInv, NEW s, NEW chain, Elements(chain) \subseteq Rows,
         rules' = [rules EXCEPT ![s] = chain], UNCHANGED <<rows, instances, skipped>>
  PROVE  RegistryInv'
<1>1. DOMAIN rules' = Scopes /\ \A u \in Scopes : rules'[u] \in {rules[u], chain}
  BY DEF RegistryInv, RegistryTypes
<1>2. RegistryTypes'
  BY <1>1 DEF RegistryInv, RegistryTypes
<1>3. RulesResolve'
  BY <1>1 DEF RegistryInv, RegistrySound, RulesResolve, Rows, Elements
<1>4. RowsAreLive'
  BY DEF RegistryInv, RegistrySound, RowsAreLive, Enabled, RowInstance
<1> QED
  BY <1>2, <1>3, <1>4 DEF RegistryInv, RegistrySound

-----------------------------------------------------------------------------
(* The calls in flight name ids the registry could have.                    *)

IdCalls == {"create", "update", "disable", "delete"}
Called == shown \subseteq Ids /\ \A c \in calls : c.op \in IdCalls => c.id \in Ids

LEMMA CalledHolds == Called /\ [RegistryNext]_rvars => Called'
<1> SUFFICES ASSUME Called, [RegistryNext]_rvars PROVE Called'
  OBVIOUS
<1>1. ASSUME shown' \subseteq Ids, calls' \subseteq calls PROVE Called'
  BY <1>1 DEF Called
<1>2. ASSUME NEW c \in calls, UNCHANGED shown \/ shown' = Rows \/ shown' = shown \ {c.id},
             \/ Reply(c, {}) \/ Reply(c, Refresh) \/ Reply(c, {[op |-> "deleted", id |-> c.id]})
      PROVE  Called'
  <2>1. shown' \subseteq Ids
    BY <1>2 DEF Called, Rows
  <2>2. \A d \in calls' : d \in calls \/ d.op \in {"refresh", "deleted"}
    BY <1>2 DEF Reply, Refresh
  <2> QED
    BY <2>1, <2>2 DEF Called, IdCalls
<1>3. ASSUME NEW c, Submit(c), c.op \in IdCalls => c.id \in Ids, UNCHANGED shown PROVE Called'
  BY <1>3 DEF Submit, Called
<1>4. CASE Boot \/ UNCHANGED rvars
  BY <1>1, <1>4 DEF Boot, rvars, Called
<1>5. ASSUME NEW c \in calls,
             \/ Create(c) \/ Update(c) \/ SwitchOff(c) \/ Delete(c) \/ SaveRule(c) \/ DeleteRule(c)
             \/ Switch(c) \/ ToggleZen(c) \/ ShowRefreshed(c) \/ ShowDeleted(c)
      PROVE  Called'
  BY <1>2, <1>5 DEF Create, Update, SwitchOff, Delete, SaveRule, DeleteRule, Switch, ToggleZen,
                    ShowRefreshed, ShowDeleted
<1>6. ASSUME NEW i \in shown \cup {NoProvider}, NEW t \in Types, SaveProvider(i, t) PROVE Called'
  <2>1. PICK c : Submit(c) /\ c.id \in Ids
    <3>1. CASE i = NoProvider
      <4>1. PICK j \in Ids : Submit([op |-> "create", id |-> j, type |-> t, ver |-> edits'])
        BY <1>6, <3>1 DEF SaveProvider
      <4>2. [op |-> "create", id |-> j, type |-> t, ver |-> edits'].id \in Ids
        OBVIOUS
      <4> QED
        BY <4>1, <4>2
    <3>2. CASE i # NoProvider
      BY <1>6, <3>2 DEF SaveProvider, Called
    <3> QED
      BY <3>1, <3>2
  <2> QED
    BY <1>3, <1>6, <2>1 DEF SaveProvider
<1>7. ASSUME NEW i \in Ids, Disable(i) \/ DeleteProvider(i) PROVE Called'
  BY <1>3, <1>7 DEF Disable, DeleteProvider
<1>8. ASSUME NEW s \in Scopes, ForgetRule(s) \/ \E c \in Chains : SaveChain(s, c) PROVE Called'
  BY <1>3, <1>8 DEF ForgetRule, SaveChain, IdCalls
<1>9. CASE Command([op |-> "switch"]) \/ Command([op |-> "zen"])
  BY <1>3, <1>9 DEF Command, IdCalls
<1> QED
  BY <1>4, <1>5, <1>6, <1>7, <1>8, <1>9 DEF RegistryNext

LEMMA RegistryHolds == RegistryInv /\ Called /\ [RegistryNext]_rvars => RegistryInv'
<1> SUFFICES ASSUME RegistryInv, Called, [RegistryNext]_rvars PROVE RegistryInv'
  OBVIOUS
<1>1. ASSUME NEW c \in calls, Create(c) PROVE RegistryInv'
  <2>1. c.id \in Ids /\ UNCHANGED rules
    BY <1>1 DEF Create, Called, IdCalls
  <2>2. CASE Instantiable(c.type)
    BY <1>1, <2>1, <2>2, Writing DEF Create, keys
  <2>3. CASE ~Instantiable(c.type)
    BY <1>1, <2>1, <2>3, Elsewhere DEF Create, keys
  <2> QED
    BY <2>2, <2>3
<1>2. ASSUME NEW c \in calls, Update(c) PROVE RegistryInv'
  <2>1. c.id \in Ids /\ UNCHANGED rules
    BY <1>2 DEF Update, Called, IdCalls
  <2>2. CASE c.id \in Rows /\ Instantiable(c.type)
    BY <1>2, <2>1, <2>2, Writing DEF Update
  <2>3. CASE ~(c.id \in Rows /\ Instantiable(c.type))
    BY <1>2, <2>1, <2>3, Elsewhere DEF Update, keys
  <2> QED
    BY <2>2, <2>3
<1>3. ASSUME NEW c \in calls, SwitchOff(c) PROVE RegistryInv'
  <2>1. CASE c.id \in Rows
    <3>1. c.id \in Ids /\ UNCHANGED <<rules, instances, skipped>> /\ rows' = [rows EXCEPT ![c.id].state = "off"]
      BY <1>3, <2>1 DEF SwitchOff, SyncEngine, Rows, keys
    <3> QED
      BY <2>1, <3>1, Leaving
  <2>2. CASE c.id \notin Rows
    BY <1>3, <2>2, Elsewhere DEF SwitchOff, keys
  <2> QED
    BY <2>1, <2>2
<1>4. ASSUME NEW c \in calls, Delete(c) PROVE RegistryInv'
  <2>1. CASE Referenced(c.id) \/ c.id \notin Rows
    BY <1>4, <2>1, Elsewhere DEF Delete, keys
  <2>2. CASE ~Referenced(c.id) /\ c.id \in Rows
    <3>1. c.id \in Ids /\ UNCHANGED <<rules, instances, skipped>> /\ rows' = [rows EXCEPT ![c.id].state = "gone"]
      BY <1>4, <2>2 DEF Delete, Rows, keys
    <3> QED
      BY <2>2, <3>1, Leaving
  <2> QED
    BY <2>1, <2>2
<1>5. ASSUME NEW c \in calls, SaveRule(c) PROVE RegistryInv'
  <2>1. UNCHANGED <<rows, instances, skipped>>
    BY <1>5 DEF SaveRule, keys
  <2>2. CASE Resolvable(c.chain)
    BY <1>5, <2>1, <2>2, Ruling DEF SaveRule, Resolvable
  <2>3. CASE ~Resolvable(c.chain)
    BY <1>5, <2>1, <2>3, Elsewhere DEF SaveRule
  <2> QED
    BY <2>2, <2>3
<1>6. ASSUME NEW c \in calls, DeleteRule(c) PROVE RegistryInv'
  <2>1. Elements(<<>>) \subseteq Rows
    BY DEF Elements
  <2> QED
    BY <1>6, <2>1, Ruling DEF DeleteRule, keys
<1>7. ASSUME NEW c \in calls, Switch(c) PROVE RegistryInv'
  BY <1>7, RowlessStays DEF Switch, SetProvider, db, keys
<1>8. ASSUME NEW c \in calls, ToggleZen(c) \/ ShowRefreshed(c) \/ ShowDeleted(c) PROVE RegistryInv'
  BY <1>8, Elsewhere DEF ToggleZen, ShowRefreshed, ShowDeleted, Server, db, keys
<1>9. CASE UNCHANGED Server \/ UNCHANGED rvars
  BY <1>9, Elsewhere DEF Server, db, keys, rvars
<1>10. ASSUME NEW i, NEW t, SaveProvider(i, t) PROVE RegistryInv'
  BY <1>9, <1>10 DEF SaveProvider
<1>11. ASSUME NEW i, Disable(i) \/ DeleteProvider(i) PROVE RegistryInv'
  BY <1>9, <1>11 DEF Disable, DeleteProvider
<1>12. ASSUME NEW s, ForgetRule(s) \/ \E c \in Chains : SaveChain(s, c) PROVE RegistryInv'
  BY <1>9, <1>12 DEF ForgetRule, SaveChain
<1>13. ASSUME NEW c, Command(c) PROVE RegistryInv'
  BY <1>9, <1>13 DEF Command
<1> QED
  BY <1>1, <1>2, <1>3, <1>4, <1>5, <1>6, <1>7, <1>8, <1>9, <1>10, <1>11, <1>12, <1>13, Booting
     DEF RegistryNext

-----------------------------------------------------------------------------
(* No rule names a provider that has gone, and an enabled row of a type that *)
(* is never retired is registered with its current configuration (llm.ts,   *)
(* server-main.ts), in whatever order the calls of the views are handled.   *)
THEOREM RegistryIsSound == RegistrySpec => []RegistrySound
<1>1. RegistryInit => Called
  BY DEF RegistryInit, Called
<1>2. RegistryInv => RegistrySound
  BY DEF RegistryInv
<1> QED
  BY <1>1, <1>2, RegistryBegins, CalledHolds, RegistryHolds, PTL DEF RegistrySpec

Generation == [stage : {"idle", "waiting", "refused", "failed", "done", "cleared", "evaluating"},
               path : Paths, tokens : Nat, aborted : BOOLEAN, read : SUBSET Gens,
               torn : BOOLEAN, shared : BOOLEAN]

-----------------------------------------------------------------------------
(* The inductive invariant.                                                 *)

LocalTypes == gen \in [Gens -> Generation] /\ sequence \subseteq Gens

\* There is a promise exactly when the model was loaded.
Promised == IF model = "none" THEN loads = 0 ELSE loads = 1

\* A generation that has not begun has read nothing.
Fresh == \A g \in Gens : gen[g].stage \in {"idle", "waiting", "cleared"} =>
                           gen[g].read = {} /\ gen[g].tokens = 0 /\ ~gen[g].torn

\* Whoever uses the sequence alone finds on it its own prompt, and finds that
\* once it has begun; two that use it at a time know of each other.
Alone ==
  \A g \in Using : ~gen[g].shared =>
    /\ Using = {g}
    /\ sequence \subseteq {g}
    /\ gen[g].tokens > 0 => g \in sequence

LocalInv == LocalTypes /\ Promised /\ Fresh /\ Alone /\ AnswersAlone

LEMMA LocalBegins == LocalInit => LocalInv
BY DEF LocalInit, LocalInv, LocalTypes, Promised, Fresh, Alone, AnswersAlone, Generation, Paths, Using

-----------------------------------------------------------------------------
(* The steps.                                                               *)

\* A generation that learns it shares the sequence is otherwise as it was.
LEMMA Shares ==
  ASSUME NEW x \in Generation, NEW b \in BOOLEAN, NEW y, y = [x EXCEPT !.shared = b]
  PROVE  /\ y \in Generation /\ y.read = x.read /\ y.tokens = x.tokens /\ y.torn = x.torn
         /\ y.stage = x.stage /\ y.shared = b
BY DEF Generation

\* A step to another stage, within the use of the sequence, before it, or out
\* of it.
LEMMA StageStep ==
  ASSUME LocalInv, NEW g \in Gens, UNCHANGED sequence,
         NEW r \in Generation, gen' = [gen EXCEPT ![g] = r],
         r.read = gen[g].read, r.tokens = gen[g].tokens, r.torn = gen[g].torn,
         r.shared = gen[g].shared,
         \/ gen[g].stage \in {"idle", "waiting"} /\ r.stage \in {"waiting", "refused", "failed", "done"}
         \/ r.stage = gen[g].stage
         \/ gen[g].stage = "cleared" /\ r.stage \in {"done", "evaluating"}
  PROVE  LocalTypes' /\ Fresh' /\ Alone' /\ AnswersAlone'
<1>1. /\ gen' \in [Gens -> Generation]
      /\ gen'[g] = r /\ \A h \in Gens \ {g} : gen'[h] = gen[h]
  BY DEF LocalInv, LocalTypes
<1>2. Using' \subseteq Using
  BY <1>1 DEF Using
<1>3. \A h \in Gens : /\ gen'[h].read = gen[h].read /\ gen'[h].tokens = gen[h].tokens
                      /\ gen'[h].torn = gen[h].torn /\ gen'[h].shared = gen[h].shared
                      /\ gen'[h].stage \in {"idle", "waiting", "cleared"}
                           => gen[h].stage \in {"idle", "waiting", "cleared"}
  BY <1>1
<1>4. Alone'
  BY <1>2, <1>3 DEF LocalInv, Alone, Using
<1> QED
  BY <1>1, <1>3, <1>4 DEF LocalInv, LocalTypes, Fresh, AnswersAlone

LEMMA Asking ==
  ASSUME LocalInv, NEW g \in Gens, NEW p \in Paths, Ask(g, p)
  PROVE  LocalInv'
<1>1. Promised'
  BY DEF Ask, GetModel, LocalInv, Promised
<1>2. gen[g] \in Generation /\ UNCHANGED sequence /\ gen[g].stage = "idle"
  BY DEF Ask, LocalInv, LocalTypes
<1>3. CASE enabled
  <2> DEFINE r == [[gen[g] EXCEPT !.stage = "waiting"] EXCEPT !.path = p]
  <2>1. gen' = [gen EXCEPT ![g] = r]
    BY <1>2, <1>3 DEF Ask, LocalInv, LocalTypes
  <2>2. r \in Generation /\ r.read = gen[g].read /\ r.tokens = gen[g].tokens
        /\ r.torn = gen[g].torn /\ r.shared = gen[g].shared /\ r.stage = "waiting"
    BY <1>2 DEF Generation
  <2> QED
    BY <1>1, <1>2, <2>1, <2>2, StageStep DEF LocalInv
<1>4. CASE ~enabled
  <2> DEFINE r == [gen[g] EXCEPT !.stage = "refused"]
  <2>1. gen' = [gen EXCEPT ![g] = r]
    BY <1>4 DEF Ask
  <2>2. r \in Generation /\ r.read = gen[g].read /\ r.tokens = gen[g].tokens
        /\ r.torn = gen[g].torn /\ r.shared = gen[g].shared /\ r.stage = "refused"
    BY <1>2 DEF Generation
  <2> QED
    BY <1>1, <1>2, <2>1, <2>2, StageStep DEF LocalInv
<1> QED
  BY <1>3, <1>4

LEMMA Moving ==
  ASSUME LocalInv, NEW g \in Gens,
         Fails(g) \/ Prompt(g) \/ Begin(g) \/ CallerAborts(g)
  PROVE  LocalInv'
<1>1. gen[g] \in Generation /\ UNCHANGED <<model, loads, sequence>>
  BY DEF Fails, Prompt, Begin, CallerAborts, LocalInv, LocalTypes
<1>2. Promised'
  BY <1>1 DEF LocalInv, Promised
<1>3. ASSUME NEW t \in {"failed", "done", "evaluating"},
             gen' = [gen EXCEPT ![g].stage = t],
             \/ gen[g].stage = "waiting" /\ t # "evaluating"
             \/ gen[g].stage = "cleared" /\ t # "failed"
      PROVE  LocalInv'
  <2> DEFINE r == [gen[g] EXCEPT !.stage = t]
  <2>1. gen' = [gen EXCEPT ![g] = r]
    BY <1>3
  <2>2. r \in Generation /\ r.read = gen[g].read /\ r.tokens = gen[g].tokens
        /\ r.torn = gen[g].torn /\ r.shared = gen[g].shared /\ r.stage = t
    BY <1>1 DEF Generation
  <2>3. LocalTypes' /\ Fresh' /\ Alone' /\ AnswersAlone'
    BY <1>1, <1>3, <2>1, <2>2, StageStep
  <2> QED
    BY <1>2, <2>3 DEF LocalInv
<1>4. CASE CallerAborts(g)
  <2> DEFINE r == [gen[g] EXCEPT !.aborted = TRUE]
  <2>1. gen' = [gen EXCEPT ![g] = r]
    BY <1>4 DEF CallerAborts
  <2>2. r \in Generation /\ r.read = gen[g].read /\ r.tokens = gen[g].tokens
        /\ r.torn = gen[g].torn /\ r.shared = gen[g].shared /\ r.stage = gen[g].stage
    BY <1>1 DEF Generation
  <2>3. LocalTypes' /\ Fresh' /\ Alone' /\ AnswersAlone'
    BY <1>1, <2>1, <2>2, StageStep
  <2> QED
    BY <1>2, <2>3 DEF LocalInv
<1>5. CASE Fails(g)
  BY <1>3, <1>5 DEF Fails
<1>6. CASE Prompt(g)
  BY <1>3, <1>6 DEF Prompt
<1>7. CASE Begin(g)
  <2>1. CASE gen[g].aborted
    BY <1>3, <1>7, <2>1 DEF Begin
  <2>2. CASE ~gen[g].aborted
    BY <1>3, <1>7, <2>2 DEF Begin
  <2> QED
    BY <2>1, <2>2
<1> QED
  BY <1>4, <1>5, <1>6, <1>7

LEMMA Clearing ==
  ASSUME LocalInv, NEW g \in Gens, Clear(g)
  PROVE  LocalInv'
<1>1. gen[g].stage = "waiting" /\ sequence' = {} /\ UNCHANGED <<model, loads>> /\ g \notin Using
  BY DEF Clear, Cleared, Using
<1>2. /\ \A h \in Gens : gen[h] \in Generation
      /\ gen'[g] = [gen[g] EXCEPT !.stage = "cleared", !.shared = (Using # {})]
      /\ \A h \in Gens \ {g} : gen'[h] = IF h \in Using THEN [gen[h] EXCEPT !.shared = TRUE] ELSE gen[h]
      /\ gen' = [h \in Gens |-> gen'[h]]
  BY DEF Clear, LocalInv, LocalTypes
<1>3. \A h \in Gens :
        /\ gen'[h] \in Generation
        /\ gen'[h].read = gen[h].read /\ gen'[h].tokens = gen[h].tokens /\ gen'[h].torn = gen[h].torn
        /\ gen'[h].stage = IF h = g THEN "cleared" ELSE gen[h].stage
        /\ h = g => (gen'[h].shared <=> Using # {})
        /\ h # g => (gen'[h].shared <=> h \in Using \/ gen[h].shared)
  <2> SUFFICES ASSUME NEW h \in Gens
               PROVE  /\ gen'[h] \in Generation
                      /\ gen'[h].read = gen[h].read /\ gen'[h].tokens = gen[h].tokens /\ gen'[h].torn = gen[h].torn
                      /\ gen'[h].stage = IF h = g THEN "cleared" ELSE gen[h].stage
                      /\ h = g => (gen'[h].shared <=> Using # {})
                      /\ h # g => (gen'[h].shared <=> h \in Using \/ gen[h].shared)
    OBVIOUS
  <2>3. CASE h = g
    <3> DEFINE b == Using # {}
    <3>1. gen'[g] = [gen[g] EXCEPT !.stage = "cleared", !.shared = b] /\ gen[g] \in Generation /\ b \in BOOLEAN
      BY <1>2
    <3> HIDE DEF b
    <3>2. gen'[g] \in Generation /\ gen'[g].read = gen[g].read /\ gen'[g].tokens = gen[g].tokens
          /\ gen'[g].torn = gen[g].torn /\ gen'[g].stage = "cleared" /\ gen'[g].shared = b
      BY <3>1 DEF Generation
    <3> QED
      BY <2>3, <3>2 DEF b
  <2>5. CASE h # g /\ h \in Using
    <3>1. gen'[h] = [gen[h] EXCEPT !.shared = TRUE] /\ gen[h] \in Generation
      BY <1>2, <2>5
    <3>2. gen'[h] \in Generation /\ gen'[h].read = gen[h].read /\ gen'[h].tokens = gen[h].tokens
          /\ gen'[h].torn = gen[h].torn /\ gen'[h].stage = gen[h].stage /\ gen'[h].shared = TRUE
      BY <3>1, Shares
    <3> QED
      BY <2>5, <3>2
  <2>6. CASE h # g /\ h \notin Using
    BY <1>2, <2>6
  <2> QED
    BY <2>3, <2>5, <2>6
<1>4. Using' = Using \cup {g}
  BY <1>3 DEF Using
<1>5. LocalTypes' /\ Promised' /\ Fresh'
  <2>1. gen' \in [Gens -> Generation]
    BY <1>2, <1>3
  <2>2. Fresh'
    BY <1>1, <1>3 DEF LocalInv, Fresh
  <2> QED
    BY <1>1, <2>1, <2>2 DEF LocalInv, LocalTypes, Promised
<1>6. Alone'
  <2> SUFFICES ASSUME NEW h \in Using', ~gen'[h].shared
               PROVE  Using' = {h} /\ sequence' \subseteq {h} /\ (gen'[h].tokens > 0 => h \in sequence')
    BY DEF Alone
  <2>1. h = g /\ Using = {}
    BY <1>3, <1>4 DEF Using
  <2> QED
    BY <1>1, <1>3, <1>4, <2>1 DEF LocalInv, Fresh
<1>7. AnswersAlone'
  BY <1>1, <1>3 DEF LocalInv, Fresh, AnswersAlone
<1> QED
  BY <1>5, <1>6, <1>7 DEF LocalInv

LEMMA Evaluating ==
  ASSUME LocalInv, NEW g \in Gens, Evaluate(g)
  PROVE  LocalInv'
<1> DEFINE torn == gen[g].torn \/ (gen[g].tokens > 0 /\ g \notin sequence)
           r == [gen[g] EXCEPT !.tokens = gen[g].tokens + 1,
                               !.read = gen[g].read \cup sequence \cup {g}, !.torn = torn]
<1>1. /\ gen[g].stage = "evaluating" /\ sequence' = sequence \cup {g} /\ UNCHANGED <<model, loads>>
      /\ gen' = [gen EXCEPT ![g] = r] \/ gen' = [gen EXCEPT ![g] = [r EXCEPT !.stage = "done"]]
  BY DEF Evaluate
<1>2. gen[g] \in Generation /\ g \in Using
  BY <1>1 DEF LocalInv, LocalTypes, Using
<1>3. /\ gen'[g] \in Generation
      /\ gen'[g].stage \in {"evaluating", "done"}
      /\ gen'[g].tokens = gen[g].tokens + 1 /\ gen'[g].read = gen[g].read \cup sequence \cup {g}
      /\ gen'[g].torn = torn /\ gen'[g].shared = gen[g].shared
      /\ \A h \in Gens \ {g} : gen'[h] = gen[h]
      /\ gen' \in [Gens -> Generation]
  <2>1. /\ r \in Generation
        /\ r.stage = "evaluating" /\ r.tokens = gen[g].tokens + 1
        /\ r.read = gen[g].read \cup sequence \cup {g} /\ r.torn = torn /\ r.shared = gen[g].shared
    <3>1. /\ gen[g].tokens + 1 \in Nat /\ torn \in BOOLEAN
          /\ gen[g].read \cup sequence \cup {g} \in SUBSET Gens
      BY <1>2 DEF LocalInv, LocalTypes, Generation
    <3> HIDE DEF torn
    <3> QED
      BY <1>1, <1>2, <3>1 DEF Generation
  <2>2. ASSUME NEW x \in Generation, gen' = [gen EXCEPT ![g] = x]
        PROVE  gen'[g] = x /\ gen' \in [Gens -> Generation] /\ \A h \in Gens \ {g} : gen'[h] = gen[h]
    BY <2>2 DEF LocalInv, LocalTypes
  <2>3. ASSUME NEW x \in Generation
        PROVE  LET y == [x EXCEPT !.stage = "done"]
               IN  /\ y \in Generation /\ y.stage = "done" /\ y.tokens = x.tokens
                   /\ y.read = x.read /\ y.torn = x.torn /\ y.shared = x.shared
    BY DEF Generation
  <2> HIDE DEF r
  <2>4. CASE gen' = [gen EXCEPT ![g] = r]
    BY <2>1, <2>2, <2>4
  <2>5. CASE gen' = [gen EXCEPT ![g] = [r EXCEPT !.stage = "done"]]
    BY <2>1, <2>2, <2>3, <2>5
  <2> QED
    BY <1>1, <2>4, <2>5
<1> HIDE DEF r
<1>4. Using' \subseteq Using /\ \A h \in Gens \ {g} : h \in Using' <=> h \in Using
  BY <1>2, <1>3 DEF Using
<1>5. Alone'
  <2> SUFFICES ASSUME NEW h \in Using', ~gen'[h].shared
               PROVE  Using' = {h} /\ sequence' \subseteq {h} /\ (gen'[h].tokens > 0 => h \in sequence')
    BY DEF Alone
  <2>1. h \in Using /\ h \in Gens /\ ~gen[h].shared
    BY <1>3, <1>4 DEF Using
  <2>2. Using = {h} /\ h = g /\ sequence \subseteq {g}
    BY <1>2, <2>1 DEF LocalInv, Alone
  <2> QED
    BY <1>1, <1>4, <2>2
<1>6. AnswersAlone'
  BY <1>2, <1>3 DEF LocalInv, Alone, AnswersAlone
<1>7. LocalTypes' /\ Promised' /\ Fresh'
  BY <1>1, <1>3 DEF LocalInv, LocalTypes, Promised, Fresh
<1> QED
  BY <1>5, <1>6, <1>7 DEF LocalInv

LEMMA LocalHolds == LocalInv /\ [LocalNext]_lvars => LocalInv'
<1> SUFFICES ASSUME LocalInv, [LocalNext]_lvars PROVE LocalInv'
  OBVIOUS
<1>1. ASSUME UNCHANGED <<gen, sequence>>, Promised' PROVE LocalInv'
  BY <1>1 DEF LocalInv, LocalTypes, Fresh, Alone, AnswersAlone, Using
<1>2. CASE SwitchRule \/ UNCHANGED lvars
  BY <1>1, <1>2 DEF SwitchRule, lvars, LocalInv, Promised
<1>3. CASE ModelSettles
  BY <1>1, <1>3 DEF ModelSettles, LocalInv, Promised
<1>4. ASSUME NEW p \in Paths, ContextSettles(p) PROVE LocalInv'
  BY <1>1, <1>4 DEF ContextSettles, LocalInv, Promised
<1> QED
  BY <1>2, <1>3, <1>4, Asking, Moving, Clearing, Evaluating DEF LocalNext

-----------------------------------------------------------------------------
(* One model is loaded however many first calls race, and a generation that *)
(* had the sequence to itself is sampled from its own prompt alone          *)
(* (llama-cpp.ts, _getModel and the streaming loop).                        *)
THEOREM LocalIsSound == LocalSpec => []LocalSound
<1>1. LocalInv => LocalSound
  BY DEF LocalInv, Promised, LocalSound, LoadedOnce
<1> QED
  BY <1>1, LocalBegins, LocalHolds, PTL DEF LocalSpec

-----------------------------------------------------------------------------
(* The adapters: the inductive invariant, of each call's record.            *)

CallRecord ==
  [kind : Kinds \cup {"embed"}, stage : {"idle", "listing", "asked", "reading", "done", "failed"},
   reply : {"none", "ok", "empty", "429", "error", "exhausted", "schema"},
   structured : BOOLEAN, schema : BOOLEAN, retry : BOOLEAN, cand : Nat \ {0}, list : Nat \ {0},
   sent : Nat, hint : Nat, aborted : BOOLEAN, late : BOOLEAN,
   why : {"none", "aborted", "429", "empty", "timeout", "error", "exhausted"}]

\* What an attempt may still send, counted from the first request of its
\* candidate: two requests in each of two attempts.
Used(r) == (IF r.retry THEN 2 ELSE 0) + (IF r.schema THEN 1 ELSE 2)

\* No hint is there before an answer is read, only a request that carries the
\* schema is refused for it, and a candidate has sent no more than Used.
CallInv(r) ==
  /\ r.cand <= r.list
  /\ Hooked(r) => ~r.late
  /\ r.stage \in {"idle", "listing"} => r.sent = 0 /\ r.hint = 0 /\ r.cand = 1 /\ ~r.retry
  /\ r.stage \in {"asked", "reading"} => r.hint = 0 /\ r.sent <= 4 * (r.cand - 1) + Used(r)
  /\ r.stage = "listing" => r.kind \in Platforms
  /\ r.stage = "reading" <=> r.reply # "none"
  /\ r.reply = "schema" => r.schema
  /\ r.stage = "done" => r.hint \in {0, r.sent}
  /\ r.stage = "failed" /\ r.why \in Retriable(r.kind) => r.cand = r.list
  /\ r.sent <= 4 * r.cand

AdapterInv ==
  /\ DOMAIN call = Calls /\ \A c \in Calls : call[c] \in CallRecord /\ CallInv(call[c])
  /\ models \in [Platforms -> Nat]

LEMMA IdleFacts ==
  /\ Idle \in CallRecord /\ CallInv(Idle)
  /\ Idle.stage = "idle" /\ Idle.reply = "none" /\ Idle.schema = FALSE /\ Idle.retry = FALSE
  /\ Idle.cand = 1 /\ Idle.list = 1 /\ Idle.sent = 0 /\ Idle.hint = 0
  /\ Idle.late = FALSE /\ Idle.why = "none"
<1>1. Idle \in CallRecord
  BY DEF Idle, CallRecord, Kinds
<1>2. CallInv(Idle)
  BY DEF Idle, CallInv, Hooked, Used
<1> QED
  BY <1>1, <1>2 DEF Idle

LEMMA AdapterBegins == AdapterInit => AdapterInv
BY IdleFacts DEF AdapterInit, AdapterInv

-----------------------------------------------------------------------------
(* Sending and failing.                                                     *)

\* A request that its candidate may still send is sent, or the call fails
\* because the engine has stopped it.
LEMMA Sending ==
  ASSUME NEW r \in CallRecord,
         r.cand <= r.list, Hooked(r) => ~r.late, r.reply = "none", r.hint = 0,
         r.sent + 1 <= 4 * (r.cand - 1) + Used(r)
  PROVE  Send(r) \in CallRecord /\ CallInv(Send(r))
<1>1. /\ r.sent \in Nat /\ r.sent + 1 \in Nat /\ r.cand \in Nat \ {0} /\ r.list \in Nat \ {0}
      /\ r.aborted \in BOOLEAN /\ r.late \in BOOLEAN /\ r.kind \in Kinds \cup {"embed"}
      /\ r.retry \in BOOLEAN /\ r.schema \in BOOLEAN
  BY DEF CallRecord
<1>2. CASE r.aborted /\ Hooked(r)
  <2> DEFINE y == [r EXCEPT !.stage = "failed", !.why = "aborted"]
  <2>1. y \in CallRecord
    BY DEF CallRecord
  <2>2. /\ y.stage = "failed" /\ y.why = "aborted" /\ y.kind = r.kind /\ y.late = r.late
        /\ y.cand = r.cand /\ y.list = r.list /\ y.reply = r.reply /\ y.sent = r.sent
        /\ y.retry = r.retry /\ y.schema = r.schema
    BY DEF CallRecord
  <2>3. r.sent <= 4 * r.cand
    BY <1>1 DEF Used
  <2> HIDE DEF y
  <2>4. "aborted" \notin Retriable(y.kind)
    BY DEF Retriable
  <2>5. CallInv(y)
    BY <2>2, <2>3, <2>4 DEF CallInv, Hooked
  <2> QED
    BY <1>2, <2>1, <2>5 DEF Send, y
<1>3. CASE ~(r.aborted /\ Hooked(r))
  <2> DEFINE late == r.late \/ r.aborted
             y == [r EXCEPT !.stage = "asked", !.sent = r.sent + 1, !.late = late]
  <2>0. late \in BOOLEAN /\ (Hooked(r) => ~late)
    BY <1>1, <1>3
  <2>a. y = Send(r)
    BY <1>3 DEF Send
  <2> HIDE DEF late
  <2>1. y \in CallRecord
    BY <1>1, <2>0 DEF CallRecord
  <2>2. /\ y.stage = "asked" /\ y.kind = r.kind /\ y.late = late /\ y.hint = r.hint
        /\ y.cand = r.cand /\ y.list = r.list /\ y.reply = r.reply /\ y.sent = r.sent + 1
        /\ y.retry = r.retry /\ y.schema = r.schema
    BY DEF CallRecord
  <2>3. r.sent + 1 <= 4 * r.cand
    BY <1>1 DEF Used
  <2> HIDE DEF y
  <2>4. Used(y) = Used(r)
    BY <2>2 DEF Used
  <2>5. CallInv(y)
    BY <2>0, <2>2, <2>3, <2>4 DEF CallInv, Hooked
  <2> QED
    BY <2>1, <2>5, <2>a
<1> QED
  BY <1>2, <1>3

\* A fresh attempt of a candidate: the first one, or the one retry.
LEMMA Attempting ==
  ASSUME NEW r \in CallRecord,
         r.cand <= r.list, Hooked(r) => ~r.late, r.reply = "none", r.hint = 0,
         r.sent <= 4 * (r.cand - 1) + (IF r.retry THEN 2 ELSE 0)
  PROVE  Attempt(r) \in CallRecord /\ CallInv(Attempt(r))
<1> DEFINE q == [r EXCEPT !.schema = r.structured]
<1>1. q \in CallRecord
  BY DEF CallRecord
<1>2. /\ q.cand = r.cand /\ q.list = r.list /\ q.late = r.late /\ q.kind = r.kind /\ q.reply = r.reply
      /\ q.hint = r.hint /\ q.sent = r.sent /\ q.retry = r.retry /\ q.schema \in BOOLEAN
      /\ r.sent \in Nat /\ r.cand \in Nat
  BY DEF CallRecord
<1> HIDE DEF q
<1>3. Hooked(q) = Hooked(r)
  BY <1>2 DEF Hooked
<1>4. q.sent + 1 <= 4 * (q.cand - 1) + Used(q)
  BY <1>2 DEF Used
<1>5. Send(q) \in CallRecord /\ CallInv(Send(q))
  BY <1>1, <1>2, <1>3, <1>4, Sending
<1> QED
  BY <1>5 DEF Attempt, q

Whys == {"429", "empty", "timeout", "error", "exhausted", "aborted"}

\* The next candidate, or the end of the call.
LEMMA Rotating ==
  ASSUME NEW r \in CallRecord, NEW why \in Whys,
         r.cand <= r.list, Hooked(r) => ~r.late, r.reply = "none", r.sent <= 4 * r.cand,
         why \in Retriable(r.kind) => r.hint = 0
  PROVE  Rotate(r, why) \in CallRecord /\ CallInv(Rotate(r, why))
<1>1. r.cand \in Nat \ {0} /\ r.list \in Nat \ {0} /\ r.sent \in Nat
  BY DEF CallRecord
<1>2. CASE why \in Retriable(r.kind) /\ r.cand < r.list
  <2> DEFINE q == [r EXCEPT !.cand = r.cand + 1, !.retry = FALSE]
  <2>0. r.cand + 1 \in Nat \ {0}
    BY <1>1
  <2>1. q \in CallRecord
    BY <2>0 DEF CallRecord
  <2>2. /\ q.cand = r.cand + 1 /\ q.list = r.list /\ q.late = r.late /\ q.kind = r.kind
        /\ q.reply = r.reply /\ q.hint = r.hint /\ q.sent = r.sent /\ q.retry = FALSE
    BY DEF CallRecord
  <2>3. Rotate(r, why) = Attempt(q)
    BY <1>2 DEF Rotate
  <2> HIDE DEF q
  <2>4. Hooked(q) = Hooked(r)
    BY <2>2 DEF Hooked
  <2> QED
    BY <1>1, <1>2, <2>1, <2>2, <2>3, <2>4, Attempting
<1>3. CASE ~(why \in Retriable(r.kind) /\ r.cand < r.list)
  <2> DEFINE y == [r EXCEPT !.stage = "failed", !.why = why]
  <2>1. y \in CallRecord
    BY DEF CallRecord, Whys
  <2>2. /\ y.stage = "failed" /\ y.why = why /\ y.kind = r.kind /\ y.late = r.late
        /\ y.cand = r.cand /\ y.list = r.list /\ y.reply = r.reply /\ y.sent = r.sent
    BY DEF CallRecord
  <2>3. Rotate(r, why) = y
    BY <1>3 DEF Rotate
  <2> HIDE DEF y
  <2>4. CallInv(y)
    BY <1>1, <1>3, <2>2 DEF CallInv, Hooked
  <2> QED
    BY <2>1, <2>3, <2>4
<1> QED
  BY <1>2, <1>3

LEMMA Concluding ==
  ASSUME NEW r \in CallRecord, CallInv(r), r.stage = "reading",
         r.reply \in {"ok", "empty", "exhausted"}, NEW h \in Captured(r)
  PROVE  Concluded(r, h) \in CallRecord /\ CallInv(Concluded(r, h))
<1> DEFINE q == [r EXCEPT !.hint = h, !.reply = "none"]
<1>1. /\ r.cand \in Nat \ {0} /\ r.list \in Nat \ {0} /\ r.sent \in Nat /\ h \in {0, r.sent}
      /\ r.kind # "plain" => h = 0
      /\ r.retry \in BOOLEAN /\ r.schema \in BOOLEAN
  BY DEF CallRecord, CallInv, Captured
<1>2. /\ q \in CallRecord /\ q.hint = h /\ q.reply = "none"
      /\ q.cand = r.cand /\ q.list = r.list /\ q.late = r.late /\ q.kind = r.kind
      /\ q.sent = r.sent /\ q.retry = r.retry
  <2>1. h \in Nat
    BY <1>1
  <2> QED
    BY <2>1 DEF CallRecord
<1>3. Concluded(r, h) = CASE r.reply = "ok"        -> [q EXCEPT !.stage = "done"]
                          [] r.reply = "empty"     -> Rotate(q, "empty")
                          [] r.reply = "exhausted" -> IF r.retry THEN Rotate(q, "exhausted") ELSE Again(q)
  BY DEF Concluded
<1> HIDE DEF q
<1>4. /\ Hooked(q) => ~q.late
      /\ q.cand <= q.list /\ q.sent <= 4 * q.cand
      /\ q.sent <= 4 * (q.cand - 1) + Used(r)
  BY <1>2 DEF CallInv, Hooked
<1>5. CASE r.reply = "ok"
  <2> DEFINE y == [q EXCEPT !.stage = "done"]
  <2>1. y \in CallRecord /\ y.stage = "done" /\ y.hint = q.hint /\ y.reply = q.reply /\ y.cand = q.cand
        /\ y.list = q.list /\ y.late = q.late /\ y.kind = q.kind /\ y.sent = q.sent
    BY <1>2 DEF CallRecord
  <2>2. Concluded(r, h) = y
    BY <1>3, <1>5
  <2> HIDE DEF y
  <2>3. CallInv(y)
    BY <1>1, <1>2, <1>4, <2>1 DEF CallInv, Hooked
  <2> QED
    BY <2>1, <2>2, <2>3
<1>6. ASSUME NEW why \in {"empty", "exhausted"}
      PROVE  Rotate(q, why) \in CallRecord /\ CallInv(Rotate(q, why))
  <2>1. why \in Retriable(q.kind) => q.hint = 0
    BY <1>1, <1>2 DEF Retriable
  <2> QED
    BY <1>2, <1>4, <2>1, Rotating DEF Whys
<1>7. CASE r.reply = "empty"
  BY <1>3, <1>6, <1>7
<1>8. CASE r.reply = "exhausted"
  <2>1. CASE r.retry
    BY <1>3, <1>6, <1>8, <2>1
  <2>2. CASE ~r.retry
    <3> DEFINE a == [q EXCEPT !.retry = TRUE, !.hint = 0]
    <3>1. a \in CallRecord /\ a.retry = TRUE /\ a.hint = 0 /\ a.reply = q.reply /\ a.cand = q.cand
          /\ a.list = q.list /\ a.late = q.late /\ a.kind = q.kind /\ a.sent = q.sent
      BY <1>2 DEF CallRecord
    <3>2. Concluded(r, h) = Attempt(a)
      BY <1>3, <1>8, <2>2 DEF Again
    <3> HIDE DEF a
    <3>3. Hooked(a) = Hooked(q)
      BY <3>1 DEF Hooked
    <3>4. a.sent <= 4 * (a.cand - 1) + 2
      BY <1>1, <1>2, <1>4, <2>2, <3>1 DEF Used
    <3>5. Attempt(a) \in CallRecord /\ CallInv(Attempt(a))
      BY <1>2, <1>4, <3>1, <3>3, <3>4, Attempting
    <3> QED
      BY <3>2, <3>5
  <2> QED
    BY <2>1, <2>2
<1> QED
  BY <1>5, <1>7, <1>8

\* The end of a request that is refused, cut or stopped.
LEMMA Ending ==
  ASSUME NEW r \in CallRecord, CallInv(r), r.stage \in {"asked", "reading"}, NEW why \in Whys
  PROVE  LET y == Rotate([r EXCEPT !.reply = "none"], why) IN y \in CallRecord /\ CallInv(y)
<1> DEFINE q == [r EXCEPT !.reply = "none"]
<1>1. /\ q \in CallRecord /\ q.hint = r.hint /\ q.reply = "none"
      /\ q.cand = r.cand /\ q.list = r.list /\ q.late = r.late /\ q.kind = r.kind /\ q.sent = r.sent
  BY DEF CallRecord
<1> HIDE DEF q
<1>2. /\ Hooked(q) => ~q.late
      /\ q.cand <= q.list /\ q.sent <= 4 * q.cand /\ q.hint = 0
  BY <1>1 DEF CallInv, Hooked
<1>3. Rotate(q, why) \in CallRecord /\ CallInv(Rotate(q, why))
  BY <1>1, <1>2, Rotating
<1> QED
  BY <1>3 DEF q

LEMMA Cutting ==
  ASSUME NEW r \in CallRecord, CallInv(r), r.stage \in {"asked", "reading"}, NEW why \in Whys
  PROVE  /\ Refused(r) \in CallRecord /\ CallInv(Refused(r))
         /\ Cut(r, why) \in CallRecord /\ CallInv(Cut(r, why))
<1>1. Refused(r) \in CallRecord /\ CallInv(Refused(r))
  BY Ending DEF Refused, Whys
<1> QED
  BY <1>1, Ending DEF Cut

-----------------------------------------------------------------------------
(* The steps of the adapters.                                               *)

\* A step of one call.
LEMMA CallStep ==
  ASSUME AdapterInv, NEW c \in Calls, NEW y \in CallRecord, CallInv(y),
         call' = [call EXCEPT ![c] = y], models' \in [Platforms -> Nat]
  PROVE  AdapterInv'
<1>1. DOMAIN call' = Calls /\ \A d \in Calls : call'[d] = IF d = c THEN y ELSE call[d]
  BY DEF AdapterInv
<1>2. \A d \in Calls : call'[d] \in CallRecord /\ CallInv(call'[d])
  BY <1>1 DEF AdapterInv
<1> QED
  BY <1>1, <1>2 DEF AdapterInv

LEMMA Generating ==
  ASSUME AdapterInv, NEW c \in Calls, NEW kind \in Kinds, NEW auto \in BOOLEAN,
         NEW structured \in BOOLEAN, Generate(c, kind, auto, structured)
  PROVE  AdapterInv'
<1> DEFINE r == [Idle EXCEPT !.kind = kind, !.structured = structured]
<1>1. /\ r \in CallRecord /\ r.kind = kind /\ r.stage = "idle" /\ r.reply = "none" /\ r.schema = FALSE
      /\ r.retry = FALSE /\ r.cand = 1 /\ r.list = 1 /\ r.sent = 0 /\ r.hint = 0
      /\ r.late = FALSE /\ r.why = "none"
  BY IdleFacts DEF CallRecord
<1>2. /\ call' = [call EXCEPT ![c] = IF auto /\ kind \in Platforms
                                     THEN [r EXCEPT !.stage = "listing"] ELSE Attempt(r)]
      /\ models' \in [Platforms -> Nat]
  BY DEF Generate, AdapterInv
<1> HIDE DEF r
<1>3. CASE auto /\ kind \in Platforms
  <2> DEFINE y == [r EXCEPT !.stage = "listing"]
  <2>1. /\ y \in CallRecord /\ y.stage = "listing" /\ y.reply = "none"
        /\ y.retry = FALSE /\ y.cand = 1 /\ y.list = 1 /\ y.sent = 0 /\ y.hint = 0 /\ y.late = FALSE
        /\ y.kind = r.kind
    BY <1>1 DEF CallRecord
  <2>2. call' = [call EXCEPT ![c] = y]
    BY <1>2, <1>3
  <2> HIDE DEF y
  <2>3. CallInv(y)
    BY <1>1, <1>3, <2>1 DEF CallInv
  <2> QED
    BY <1>2, <2>1, <2>2, <2>3, CallStep
<1>4. CASE ~(auto /\ kind \in Platforms)
  <2>1. Attempt(r) \in CallRecord /\ CallInv(Attempt(r))
    BY <1>1, Attempting
  <2>2. call' = [call EXCEPT ![c] = Attempt(r)]
    BY <1>2, <1>4
  <2> QED
    BY <1>2, <2>1, <2>2, CallStep
<1> QED
  BY <1>3, <1>4

LEMMA Embedding ==
  ASSUME AdapterInv, NEW c \in Calls, Embed(c)
  PROVE  AdapterInv'
<1> DEFINE r == [Idle EXCEPT !.kind = "embed"]
<1>1. /\ r \in CallRecord /\ r.reply = "none"
      /\ r.retry = FALSE /\ r.cand = 1 /\ r.list = 1 /\ r.sent = 0 /\ r.hint = 0 /\ r.late = FALSE
  BY IdleFacts DEF CallRecord
<1>2. call' = [call EXCEPT ![c] = Attempt(r)] /\ models' \in [Platforms -> Nat]
  BY DEF Embed, AdapterInv
<1> HIDE DEF r
<1>3. Attempt(r) \in CallRecord /\ CallInv(Attempt(r))
  BY <1>1, Attempting
<1> QED
  BY <1>2, <1>3, CallStep

\* The list a platform rotates through has a first candidate.
LEMMA Listing ==
  ASSUME AdapterInv, NEW c \in Calls, ListModels(c)
  PROVE  AdapterInv'
<1> DEFINE r == call[c]
<1>1. r \in CallRecord /\ CallInv(r) /\ r.stage = "listing"
  BY DEF AdapterInv, ListModels
<1>2. PICK n \in IF models[r.kind] # 0 THEN {models[r.kind]} ELSE IF allowed THEN Catalogs \cup {0} ELSE {0} :
        /\ models' = [models EXCEPT ![r.kind] = n]
        /\ call' = [call EXCEPT ![c] = Choose(r, n)]
  BY DEF ListModels
<1>3. r.kind \in Platforms /\ r.reply = "none" /\ r.sent = 0 /\ r.hint = 0 /\ r.cand = 1 /\ ~r.retry
  BY <1>1 DEF CallInv
<1>4. n \in Nat /\ models' \in [Platforms -> Nat]
  <2>1. models[r.kind] \in Nat
    BY <1>3 DEF AdapterInv
  <2>2. n \in Nat
    BY <1>2, <2>1, AdapterAssumption
  <2> QED
    BY <1>2, <2>2 DEF AdapterInv
<1>5. CASE n = 0
  <2> DEFINE y == [r EXCEPT !.stage = "failed", !.why = "none"]
  <2>1. /\ y \in CallRecord /\ y.stage = "failed" /\ y.why = "none" /\ y.reply = r.reply /\ y.cand = r.cand
        /\ y.list = r.list /\ y.sent = r.sent /\ y.late = r.late /\ y.kind = r.kind
    BY <1>1 DEF CallRecord
  <2>2. Choose(r, n) = y
    BY <1>5 DEF Choose
  <2> HIDE DEF y
  <2>3. "none" \notin Retriable(y.kind)
    BY DEF Retriable
  <2>4. CallInv(y)
    BY <1>1, <1>3, <2>1, <2>3 DEF CallInv, Hooked
  <2> QED
    BY <1>2, <1>4, <2>1, <2>2, <2>4, CallStep
<1>6. CASE n # 0
  <2> DEFINE k == IF n < Limit(r.kind) THEN n ELSE Limit(r.kind)
             y == [r EXCEPT !.list = k]
  <2>0. k \in Nat \ {0}
    BY <1>4, <1>6, AdapterAssumption DEF Limit
  <2>2. Choose(r, n) = Attempt(y)
    BY <1>6 DEF Choose
  <2> HIDE DEF k
  <2>1. /\ y \in CallRecord /\ y.reply = r.reply /\ y.cand = r.cand /\ y.list = k /\ y.sent = r.sent
        /\ y.late = r.late /\ y.kind = r.kind /\ y.hint = r.hint /\ y.retry = r.retry
    BY <1>1, <2>0 DEF CallRecord
  <2> HIDE DEF y
  <2>3. Hooked(y) => ~y.late
    BY <1>1, <2>1 DEF CallInv, Hooked
  <2>4. Attempt(y) \in CallRecord /\ CallInv(Attempt(y))
    BY <1>3, <2>0, <2>1, <2>3, Attempting
  <2> QED
    BY <1>2, <1>4, <2>2, <2>4, CallStep
<1> QED
  BY <1>5, <1>6

LEMMA Responding ==
  ASSUME AdapterInv, NEW c \in Calls, Respond(c)
  PROVE  AdapterInv'
<1> DEFINE r == call[c]
<1>1. r \in CallRecord /\ CallInv(r) /\ r.stage = "asked"
  BY DEF AdapterInv, Respond
<1>2. PICK reply \in Replies(r) :
        call' = [call EXCEPT ![c] = [[r EXCEPT !.stage = "reading"] EXCEPT !.reply = reply]]
  <2>1. PICK reply \in Replies(r) : call' = [call EXCEPT ![c].stage = "reading", ![c].reply = reply]
    BY DEF Respond
  <2>2. call' = [call EXCEPT ![c] = [[r EXCEPT !.stage = "reading"] EXCEPT !.reply = reply]]
    BY <2>1 DEF AdapterInv
  <2> QED
    BY <2>2
<1>3. reply \in {"ok", "empty", "429", "error", "exhausted", "schema"} /\ (reply = "schema" => r.schema)
  BY DEF Replies
<1> DEFINE y == [[r EXCEPT !.stage = "reading"] EXCEPT !.reply = reply]
<1>4. /\ y \in CallRecord /\ y.stage = "reading" /\ y.reply = reply /\ y.cand = r.cand /\ y.list = r.list
      /\ y.sent = r.sent /\ y.late = r.late /\ y.kind = r.kind /\ y.hint = r.hint
      /\ y.retry = r.retry /\ y.schema = r.schema
  BY <1>1, <1>3 DEF CallRecord
<1>5. call' = [call EXCEPT ![c] = y] /\ models' \in [Platforms -> Nat]
  BY <1>2 DEF Respond, AdapterInv
<1> HIDE DEF y
<1>6. CallInv(y)
  BY <1>1, <1>3, <1>4 DEF CallInv, Hooked, Used
<1> QED
  BY <1>4, <1>5, <1>6, CallStep

LEMMA Reading ==
  ASSUME AdapterInv, NEW c \in Calls, Read(c)
  PROVE  AdapterInv'
<1> DEFINE r == call[c]
<1>1. r \in CallRecord /\ CallInv(r) /\ r.stage = "reading" /\ models' \in [Platforms -> Nat]
  BY DEF AdapterInv, Read
<1>2. ASSUME r.reply \in {"ok", "empty", "exhausted"}, NEW h \in Captured(r),
             call' = [call EXCEPT ![c] = Concluded(r, h)]
      PROVE  AdapterInv'
  BY <1>1, <1>2, Concluding, CallStep
<1>3. CASE call' = [call EXCEPT ![c] = Refused(r)]
  BY <1>1, <1>3, Cutting, CallStep DEF Whys
<1>4. ASSUME r.reply = "schema", call' = [call EXCEPT ![c] = Send([r EXCEPT !.reply = "none", !.schema = FALSE])]
      PROVE  AdapterInv'
  <2> DEFINE q == [r EXCEPT !.reply = "none", !.schema = FALSE]
  <2>1. /\ q \in CallRecord /\ q.hint = r.hint /\ q.reply = "none" /\ q.schema = FALSE
        /\ q.cand = r.cand /\ q.list = r.list /\ q.late = r.late /\ q.kind = r.kind
        /\ q.sent = r.sent /\ q.retry = r.retry
    BY <1>1 DEF CallRecord
  <2>2. call' = [call EXCEPT ![c] = Send(q)]
    BY <1>4
  <2>3. r.sent \in Nat /\ r.cand \in Nat
    BY <1>1 DEF CallRecord
  <2> HIDE DEF q
  <2>4. /\ q.cand <= q.list
        /\ Hooked(q) => ~q.late
        /\ q.hint = 0
    BY <1>1, <2>1 DEF CallInv, Hooked
  <2>5. q.sent + 1 <= 4 * (q.cand - 1) + Used(q)
    BY <1>1, <1>4, <2>1, <2>3 DEF CallInv, Used
  <2>6. Send(q) \in CallRecord /\ CallInv(Send(q))
    BY <2>1, <2>4, <2>5, Sending
  <2> QED
    BY <1>1, <2>2, <2>6, CallStep
<1> QED
  BY <1>2, <1>3, <1>4 DEF Read

LEMMA Stopping ==
  ASSUME AdapterInv, NEW c \in Calls, TimesOut(c) \/ Aborted(c)
  PROVE  AdapterInv'
<1>1. call[c] \in CallRecord /\ CallInv(call[c]) /\ call[c].stage \in {"asked", "reading"}
      /\ models' \in [Platforms -> Nat]
  BY DEF AdapterInv, TimesOut, Aborted
<1>2. PICK why \in Whys : call' = [call EXCEPT ![c] = Cut(call[c], why)]
  BY DEF TimesOut, Aborted, Whys
<1> QED
  BY <1>1, <1>2, Cutting, CallStep

LEMMA AdapterHolds == AdapterInv /\ [AdapterNext]_avars => AdapterInv'
<1> SUFFICES ASSUME AdapterInv, [AdapterNext]_avars PROVE AdapterInv'
  OBVIOUS
<1>1. ASSUME NEW c \in Calls, Abort(c) PROVE AdapterInv'
  <2> DEFINE y == [call[c] EXCEPT !.aborted = TRUE]
  <2>1. call[c] \in CallRecord /\ CallInv(call[c]) /\ models' \in [Platforms -> Nat]
        /\ call' = [call EXCEPT ![c] = y]
    BY <1>1 DEF AdapterInv, Abort
  <2>2. /\ y \in CallRecord /\ y.stage = call[c].stage /\ y.reply = call[c].reply /\ y.cand = call[c].cand
        /\ y.list = call[c].list /\ y.sent = call[c].sent /\ y.late = call[c].late
        /\ y.kind = call[c].kind /\ y.hint = call[c].hint /\ y.why = call[c].why
        /\ y.retry = call[c].retry /\ y.schema = call[c].schema
    BY <2>1 DEF CallRecord
  <2> HIDE DEF y
  <2>3. CallInv(y)
    BY <2>1, <2>2 DEF CallInv, Hooked, Used
  <2> QED
    BY <2>1, <2>2, <2>3, CallStep
<1>2. ASSUME NEW c \in Calls, Return(c) PROVE AdapterInv'
  BY <1>2, IdleFacts, CallStep DEF Return, AdapterInv
<1>3. CASE SwitchExternal \/ UNCHANGED avars
  BY <1>3 DEF SwitchExternal, avars, AdapterInv
<1> QED
  BY <1>1, <1>2, <1>3, Generating, Embedding, Listing, Responding, Reading, Stopping DEF AdapterNext

-----------------------------------------------------------------------------
(* Through retries without the schema, retries of an answer that was all    *)
(* reasoning, rotations, timeouts and aborts, a hint is of the request whose*)
(* content is returned, a stopped call sends nothing, and a platform fails  *)
(* for a reason that rotates only at the end of its list                    *)
(* (openai-compatible.ts, opencode.ts, openrouter.ts).                      *)
THEOREM AdapterIsSound == AdapterSpec => []AdapterSound
<1>1. AdapterInv => AdapterSound
  BY DEF AdapterInv, CallInv, AdapterSound, HintIsOfAnswer, SilentAfterAbort, RotatesThrough
<1> QED
  BY <1>1, AdapterBegins, AdapterHolds, PTL DEF AdapterSpec

(* Every answer of a model, remote or local, is of the request it was asked *)
(* for, whatever calls overlap (adapters, llama-cpp.ts).                    *)
THEOREM AnswersAreSound == AdapterSpec /\ LocalSpec => []AnswersSound
BY AdapterIsSound, LocalIsSound, PTL DEF AnswersSound
=============================================================================
