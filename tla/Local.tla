------------------------------- MODULE Local --------------------------------
(* Local inference (core/routeswitch/adapters/llama-cpp.ts, confidence.ts):  *)
(* the gate of the hardware profile, the promises that load the model and    *)
(* its contexts once, and generations that share one sequence.  A generation *)
(* that streams awaits between the steps below, so others run in between;    *)
(* the sequence keeps what was evaluated on it until it is cleared.          *)
EXTENDS Naturals, FiniteSets

CONSTANTS Gens,       \* generations asked of the provider
          MaxTokens   \* the largest budget of a generation

ASSUME LocalAssumption == MaxTokens \in Nat \ {0}

VARIABLES enabled,   \* the rule local_llm_enabled of the active profile
          model,     \* _modelPromise
          context,   \* _streamCtxPromise and _sessionPromise
          loads,     \* history: models loaded
          gen,       \* the state of each generation
          sequence   \* generations whose tokens the sequence holds

lvars == <<enabled, model, context, loads, gen, sequence>>

Paths == {"stream", "session"}
Using == {g \in Gens : gen[g].stage \in {"cleared", "evaluating"}}

LocalInit ==
  /\ enabled = FALSE /\ model = "none" /\ loads = 0 /\ sequence = {}
  /\ context = [p \in Paths |-> "none"]
  /\ gen = [g \in Gens |-> [stage |-> "idle", path |-> "stream", tokens |-> 0, aborted |-> FALSE,
                            read |-> {}, torn |-> FALSE, shared |-> FALSE]]

SwitchRule ==
  /\ enabled' = ~enabled
  /\ UNCHANGED <<model, context, loads, gen, sequence>>

-----------------------------------------------------------------------------
(* Loading.                                                                  *)

\* Fault: the promise is kept only once the model has loaded.
GetModelLate == IF model \in {"none", "loading"} THEN model' = "loading" /\ loads' = loads + 1
                ELSE UNCHANGED <<model, loads>>

\* _getModel: the first caller creates the promise, and a failure is kept too.
GetModel == IF model = "none" THEN model' = "loading" /\ loads' = loads + 1
            ELSE UNCHANGED <<model, loads>>

(* The gate is read by every call; past it the call waits for the context of *)
(* its path, which waits for the model.  A caller without hooks takes the    *)
(* session.                                                                  *)
Ask(g, p) ==
  /\ gen[g].stage = "idle"
  /\ IF enabled
     THEN /\ gen' = [gen EXCEPT ![g].stage = "waiting", ![g].path = p]
          /\ IF context[p] = "none" THEN context' = [context EXCEPT ![p] = "pending"] /\ GetModel
             ELSE UNCHANGED <<context, model, loads>>
     ELSE gen' = [gen EXCEPT ![g].stage = "refused"] /\ UNCHANGED <<context, model, loads>>
  /\ UNCHANGED <<enabled, sequence>>

ModelSettles ==
  /\ model = "loading" /\ model' \in {"ready", "failed"}
  /\ UNCHANGED <<enabled, context, loads, gen, sequence>>

ContextSettles(p) ==
  /\ context[p] = "pending" /\ model \in {"ready", "failed"}
  /\ \E s \in IF model = "ready" THEN {"ready", "failed"} ELSE {"failed"} :
       context' = [context EXCEPT ![p] = s]
  /\ UNCHANGED <<enabled, model, loads, gen, sequence>>

Fails(g) ==
  /\ gen[g].stage = "waiting" /\ context[gen[g].path] = "failed"
  /\ gen' = [gen EXCEPT ![g].stage = "failed"]
  /\ UNCHANGED <<enabled, model, context, loads, sequence>>

\* The session keeps a history of its own and cannot be cancelled.
Prompt(g) ==
  /\ gen[g].stage = "waiting" /\ gen[g].path = "session" /\ context["session"] = "ready"
  /\ gen' = [gen EXCEPT ![g].stage = "done"]
  /\ UNCHANGED <<enabled, model, context, loads, sequence>>

-----------------------------------------------------------------------------
(* Streaming.                                                                *)

\* Fault: the state of the previous prompt is left.
LeftOver == sequence

\* clearHistory
Cleared == {}

(* "Fresh generation each call": the sequence is cleared, for whoever is     *)
(* using it.                                                                 *)
Clear(g) ==
  /\ gen[g].stage = "waiting" /\ gen[g].path = "stream" /\ context["stream"] = "ready"
  /\ sequence' = Cleared
  /\ gen' = [h \in Gens |->
       IF h = g THEN [gen[g] EXCEPT !.stage = "cleared", !.shared = (Using # {})]
       ELSE IF h \in Using THEN [gen[h] EXCEPT !.shared = TRUE] ELSE gen[h]]
  /\ UNCHANGED <<enabled, model, context, loads>>

\* The grammar is there; a signal that has tripped already ends the stream.
Begin(g) ==
  /\ gen[g].stage = "cleared"
  /\ gen' = [gen EXCEPT ![g].stage = IF gen[g].aborted THEN "done" ELSE "evaluating"]
  /\ UNCHANGED <<enabled, model, context, loads, sequence>>

(* One token: the first evaluation puts the prompt on the sequence, every    *)
(* token is sampled from all the sequence then holds.  It ends at the end of *)
(* the answer, the budget, or an abort, which keeps the partial text.        *)
Ends(r) == r.aborted \/ r.tokens = MaxTokens
Evaluate(g) ==
  LET r == [gen[g] EXCEPT !.tokens = @ + 1, !.read = @ \cup sequence \cup {g},
                          !.torn = @ \/ (gen[g].tokens > 0 /\ g \notin sequence)]
  IN  /\ gen[g].stage = "evaluating" /\ sequence' = sequence \cup {g}
      /\ \E last \in BOOLEAN :
           gen' = [gen EXCEPT ![g] = IF last \/ Ends(r) THEN [r EXCEPT !.stage = "done"] ELSE r]
      /\ UNCHANGED <<enabled, model, context, loads>>

\* AgentStop, or the deadline of a council.
CallerAborts(g) ==
  /\ gen[g].stage \in {"waiting", "cleared", "evaluating"} /\ gen[g].path = "stream"
  /\ ~gen[g].aborted /\ gen' = [gen EXCEPT ![g].aborted = TRUE]
  /\ UNCHANGED <<enabled, model, context, loads, sequence>>

LocalNext ==
  \/ SwitchRule
  \/ ModelSettles
  \/ \E p \in Paths : ContextSettles(p) \/ \E g \in Gens : Ask(g, p)
  \/ \E g \in Gens : \/ Fails(g) \/ Prompt(g) \/ Clear(g) \/ Begin(g) \/ Evaluate(g)
                     \/ CallerAborts(g)

LocalSpec == LocalInit /\ [][LocalNext]_lvars

-----------------------------------------------------------------------------

(* "Loaded once and reused": however the first calls race, one model is      *)
(* loaded (llama-cpp.ts:111-115).                                            *)
LoadedOnce == loads <= 1

(* A generation whose use of the sequence overlapped no other is sampled     *)
(* from its own prompt alone, whatever ran before it and however that ended. *)
AnswersAlone ==
  \A g \in Gens : ~gen[g].shared => gen[g].read \subseteq {g} /\ ~gen[g].torn

LocalSound == LoadedOnce /\ AnswersAlone

(* Refuted.  "Fresh generation each call - clear any state from a previous   *)
(* prompt" (llama-cpp.ts:206): every generation is sampled from its own      *)
(* prompt.                                                                   *)
OwnContext == \A g \in Gens : gen[g].read \subseteq {g} /\ ~gen[g].torn
=============================================================================
