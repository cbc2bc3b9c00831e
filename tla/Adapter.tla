------------------------------ MODULE Adapter -------------------------------
(* One generation or embedding of an OpenAI-compatible provider, request by  *)
(* request (core/routeswitch/adapters: openai-compatible.ts, freellmapi.ts,  *)
(* opencode.ts, openrouter.ts), and the list of free models the two fixed    *)
(* platforms rotate through (discovery.ts).  Which providers are called, and *)
(* for whom, is RouteSwitch.  A provider answers a request anything or not   *)
(* at all; the timer of an attempt and the engine's abort may end it while   *)
(* it waits and while it reads the body.                                     *)
EXTENDS Naturals, FiniteSets

CONSTANTS Calls,
          MaxZen,      \* OPENCODE_MAX_CANDIDATES
          MaxRouter,   \* MAX_CANDIDATES of openrouter.ts
          Catalogs     \* numbers of free models a fetched catalog may hold

ASSUME AdapterAssumption ==
  /\ MaxZen \in Nat \ {0} /\ MaxRouter \in Nat \ {0} /\ Catalogs \subseteq Nat

VARIABLES call,     \* the state of each call
          models,   \* platform -> length of the cached list, 0 when there is none
          allowed   \* the kill switch lets external calls out

avars == <<call, models, allowed>>

\* "plain": openai-compatible and freellmapi, which read the routing hint.
Platforms == {"zen", "router"}
Kinds == {"plain"} \cup Platforms

\* The engine's signal reaches the request; openrouter.ts drops it on purpose.
Hooked(r) == r.kind \in {"plain", "zen"}

Idle == [kind |-> "plain", stage |-> "idle", reply |-> "none", structured |-> FALSE,
         schema |-> FALSE, retry |-> FALSE, cand |-> 1, list |-> 1, sent |-> 0,
         hint |-> 0, aborted |-> FALSE, late |-> FALSE, why |-> "none"]

AdapterInit ==
  /\ call = [c \in Calls |-> Idle] /\ models = [p \in Platforms |-> 0] /\ allowed = TRUE

-----------------------------------------------------------------------------
(* Sending and failing, as functions of the call's record.                   *)

\* Fault: only the first candidate gets the engine's signal.
SendUnhooked(r) ==
  IF r.aborted /\ Hooked(r) /\ r.cand = 1 THEN [r EXCEPT !.stage = "failed", !.why = "aborted"]
  ELSE [r EXCEPT !.stage = "asked", !.sent = @ + 1, !.late = @ \/ r.aborted]

(* fetch with a signal that is already aborted sends nothing.  An attempt    *)
(* has a timer of its own; the request repeated without the schema shares    *)
(* the one of its attempt.                                                   *)
Send(r) ==
  IF r.aborted /\ Hooked(r) THEN [r EXCEPT !.stage = "failed", !.why = "aborted"]
  ELSE [r EXCEPT !.stage = "asked", !.sent = @ + 1, !.late = @ \/ r.aborted]

\* A fresh request, with the schema the caller gave.
Attempt(r) == Send([r EXCEPT !.schema = r.structured])

\* What makes a platform try its next candidate.
Retriable(kind) == CASE kind = "zen"    -> {"429", "empty", "timeout"}
                     [] kind = "router" -> {"429"}
                     [] OTHER           -> {}

\* Fault: a rotation gives up one candidate early.
RotateShort(r, why) ==
  IF why \in Retriable(r.kind) /\ r.cand + 1 < r.list
  THEN Attempt([r EXCEPT !.cand = @ + 1, !.retry = FALSE])
  ELSE [r EXCEPT !.stage = "failed", !.why = why]

(* The next candidate, with the schema again, a timer and a reasoning retry  *)
(* of its own; the last error once there is none.                            *)
Rotate(r, why) ==
  IF why \in Retriable(r.kind) /\ r.cand < r.list
  THEN Attempt([r EXCEPT !.cand = @ + 1, !.retry = FALSE])
  ELSE [r EXCEPT !.stage = "failed", !.why = why]

-----------------------------------------------------------------------------

(* A platform with an explicit model id, or none to choose, goes straight to *)
(* the request.                                                              *)
Generate(c, kind, auto, structured) ==
  /\ call[c] = Idle
  /\ LET r == [Idle EXCEPT !.kind = kind, !.structured = structured]
     IN  call' = [call EXCEPT ![c] = IF auto /\ kind \in Platforms
                                     THEN [r EXCEPT !.stage = "listing"] ELSE Attempt(r)]
  /\ UNCHANGED <<models, allowed>>

\* generateEmbedding: one request, without the engine's signal.
Embed(c) ==
  /\ call[c] = Idle /\ call' = [call EXCEPT ![c] = Attempt([Idle EXCEPT !.kind = "embed"])]
  /\ UNCHANGED <<models, allowed>>

Limit(kind) == IF kind = "zen" THEN MaxZen ELSE MaxRouter
Choose(r, n) ==
  LET k == IF n < Limit(r.kind) THEN n ELSE Limit(r.kind)
  IN  IF n = 0 THEN [r EXCEPT !.stage = "failed", !.why = "none"]
      ELSE Attempt([r EXCEPT !.list = k])

(* getFreeModels: a list once fetched is kept for the life of the process;   *)
(* an empty one is fetched again by every call, several at a time, unless    *)
(* the kill switch is on.                                                    *)
ListModels(c) ==
  LET r == call[c]
      fetched == IF allowed THEN Catalogs \cup {0} ELSE {0}
  IN  /\ r.stage = "listing"
      /\ \E n \in IF models[r.kind] # 0 THEN {models[r.kind]} ELSE fetched :
           /\ models' = [models EXCEPT ![r.kind] = n]
           /\ call' = [call EXCEPT ![c] = Choose(r, n)]
      /\ UNCHANGED allowed

\* The headers of an answer: its body is read, or the text of its error.
Replies(r) == {"ok", "empty", "429", "error"}
              \cup (IF r.kind \in Kinds THEN {"exhausted"} ELSE {})
              \cup (IF r.schema THEN {"schema"} ELSE {})
Respond(c) ==
  LET r == call[c]
  IN  /\ r.stage = "asked" /\ ~(r.aborted /\ Hooked(r))
      /\ \E reply \in Replies(r) : call' = [call EXCEPT ![c].stage = "reading",
                                                        ![c].reply = reply]
      /\ UNCHANGED <<models, allowed>>

-----------------------------------------------------------------------------
(* The body.                                                                 *)

\* Fault: the hint of the exhausted attempt is kept.
AgainWithHint(r) == Attempt([r EXCEPT !.retry = TRUE])

\* The one retry of an answer that was all reasoning; its hint is dropped.
Again(r) == Attempt([r EXCEPT !.retry = TRUE, !.hint = 0])

\* The hint goes to the meta object of this call, when there is a header.
Captured(r) == IF r.kind = "plain" THEN {r.hint, r.sent} ELSE {0}

(* An empty answer is "no content" of a platform's candidate, an exhausted   *)
(* one is not; a refusal of the response format is repeated without it, once *)
(* since the second request carries none.                                    *)
Concluded(r, h) ==
  LET q == [r EXCEPT !.hint = h, !.reply = "none"]
  IN  CASE r.reply = "ok"        -> [q EXCEPT !.stage = "done"]
        [] r.reply = "empty"     -> Rotate(q, "empty")
        [] r.reply = "exhausted" -> IF r.retry THEN Rotate(q, "exhausted") ELSE Again(q)

Refused(r) ==
  LET q == [r EXCEPT !.reply = "none"]
  IN  IF r.reply = "429" THEN Rotate(q, "429") ELSE Rotate(q, "error")

Read(c) ==
  LET r == call[c]
  IN  /\ r.stage = "reading" /\ ~(r.aborted /\ Hooked(r))
      /\ \/ /\ r.reply \in {"ok", "empty", "exhausted"}
            /\ \E h \in Captured(r) : call' = [call EXCEPT ![c] = Concluded(r, h)]
         \/ /\ r.reply \in {"429", "error"} /\ call' = [call EXCEPT ![c] = Refused(r)]
         \/ /\ r.reply = "schema"
            /\ call' = [call EXCEPT ![c] =
                 Send([r EXCEPT !.reply = "none", !.schema = FALSE])]
      /\ UNCHANGED <<models, allowed>>

(* The timer of the attempt: a request or a body that is cut is a timeout,   *)
(* the text of an error becomes "unknown error" and its status stays.        *)
Cut(r, why) == IF r.stage = "reading" /\ r.reply \in {"429", "error", "schema"} THEN Refused(r)
               ELSE Rotate([r EXCEPT !.reply = "none"], why)
TimesOut(c) ==
  /\ call[c].stage \in {"asked", "reading"} /\ ~(call[c].aborted /\ Hooked(call[c]))
  /\ call' = [call EXCEPT ![c] = Cut(call[c], "timeout")]
  /\ UNCHANGED <<models, allowed>>

Aborted(c) ==
  /\ call[c].stage \in {"asked", "reading"} /\ call[c].aborted /\ Hooked(call[c])
  /\ call' = [call EXCEPT ![c] = Cut(call[c], "aborted")]
  /\ UNCHANGED <<models, allowed>>

-----------------------------------------------------------------------------

\* The engine stops a generation, at any moment of it.
Abort(c) ==
  /\ call[c].stage \in {"listing", "asked", "reading"} /\ ~call[c].aborted
  /\ call[c].kind \in Kinds
  /\ call' = [call EXCEPT ![c].aborted = TRUE]
  /\ UNCHANGED <<models, allowed>>

\* The caller has its answer or its error.
Return(c) ==
  /\ call[c].stage \in {"done", "failed"} /\ call' = [call EXCEPT ![c] = Idle]
  /\ UNCHANGED <<models, allowed>>

SwitchExternal == allowed' = ~allowed /\ UNCHANGED <<call, models>>

AdapterNext ==
  \/ \E c \in Calls : \/ \E k \in Kinds, auto, s \in BOOLEAN : Generate(c, k, auto, s)
                      \/ Embed(c) \/ ListModels(c) \/ Respond(c) \/ Read(c)
                      \/ TimesOut(c) \/ Aborted(c) \/ Abort(c) \/ Return(c)
  \/ SwitchExternal

AdapterSpec == AdapterInit /\ [][AdapterNext]_avars

-----------------------------------------------------------------------------

(* A hint that is returned is of the request whose content is returned, "so  *)
(* a reported `routedVia` always describes the call whose content we return" *)
(* (openai-compatible.ts:613-614), through both kinds of retry.              *)
HintIsOfAnswer == \A c \in Calls : call[c].stage = "done" => call[c].hint \in {0, call[c].sent}

(* A call the engine has stopped sends nothing more: neither a retry nor the *)
(* next candidate, although an error that is cut while it is read counts as  *)
(* its status and may rotate.                                                *)
SilentAfterAbort == \A c \in Calls : Hooked(call[c]) => ~call[c].late

(* A platform fails for a reason that rotates only when every candidate of   *)
(* its list has been tried, each with at most two attempts of two requests.  *)
RotatesThrough ==
  \A c \in Calls : LET r == call[c] IN
    /\ r.stage = "failed" /\ r.why \in Retriable(r.kind) => r.cand = r.list
    /\ r.sent <= 4 * r.cand

AdapterSound == HintIsOfAnswer /\ SilentAfterAbort /\ RotatesThrough
=============================================================================
