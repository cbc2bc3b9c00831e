----------------------- MODULE RouteSwitchProperties -----------------------
(***************************************************************************)
(* What the routing of requests promises, and mutations of its code that   *)
(* break each promise.                                                     *)
(***************************************************************************)
EXTENDS RouteSwitch

Legs == UNION {[S -> {"open", "usable", "useless"}] : S \in SUBSET Providers}

(* Every variable has its type; a caller awaits a provider exactly while it *)
(* is calling, and has council legs exactly while it is in a council.       *)
TypeOK ==
    /\ phase \in [Callers -> {"idle"} \cup Running \cup Outcomes]
    /\ at \in [Callers -> Providers \cup {NoProvider}]
    /\ rest \in [Callers -> Seq(Providers)]
    /\ legs \in [Callers -> Legs]
    /\ \A c \in Callers :
         /\ phase[c] = "calling" <=> at[c] # NoProvider
         /\ phase[c] = "council" <=> DOMAIN legs[c] # {}
    /\ used \in Nat /\ ceiling \in Nat /\ budget \in Budgets
    /\ unlocked \in BOOLEAN /\ cached \in BOOLEAN
    /\ age \in 0 .. TTL + 1 /\ lockedFor \in 0 .. TTL + 1
    /\ exhausted \subseteq Providers
    /\ timers \in [Providers -> SUBSET (0 .. ResetDelay)]
    /\ handle \in [Providers -> 0 .. NoTimer]
    /\ downFor \in [Providers -> 0 .. ResetDelay]
    /\ low \in 0 .. LowLimit /\ own \in [Callers -> 0 .. LowLimit]
    /\ aborted \subseteq Callers /\ disturbed \subseteq Callers
    /\ untried \in [Callers -> SUBSET Providers]
    /\ issued \in 0 .. MaxRequests /\ operated \in 0 .. MaxOperator
-----------------------------------------------------------------------------
(* The budget is checked when a request begins and charged when it ends, so *)
(* callers that overlap overshoot the ceiling (governor.ts).  Locked and    *)
(* undisturbed by the operator, the spending exceeds it by no more than one *)
(* request of each caller, and those that run have not spent theirs yet.    *)
MostExpensive == LET free == Cardinality(Providers \ Paid)
                 IN  Estimate * (IF free > 1 THEN free ELSE 1)
SpendingBounded ==
    operated = 0 /\ ~unlocked =>
        used + Estimate
          <= ceiling + MostExpensive * Cardinality({c \in Callers : phase[c] \notin Running})

(* Free Mode "blocks paid-provider calls unless explicitly unlocked", but   *)
(* for the age of the cache (governor.ts): no call to a paid provider       *)
(* begins, alone or in a council, once the setting has been locked longer.  *)
Calls(c) == IF phase[c] = "calling" THEN {at[c]} ELSE DOMAIN legs[c]
PaidOnlyUnlocked ==
    [][\A c \in Callers :
          (Calls(c)' \ Calls(c)) \cap Paid # {} => lockedFor <= TTL]_vars

(* A request that is given up has called every free provider of its chain   *)
(* that was in order all the time (engine.ts, the fallback loop): neither a *)
(* timeout nor another caller's rate limit makes it leave one out.          *)
NothingLeftUntried ==
    [][\A c \in Callers :
          phase[c] # "failed" /\ phase'[c] = "failed" => untried'[c] = {}]_vars

(* An exhausted provider is used again when its whole delay has passed or   *)
(* the operator clears it (interceptor.ts): the timer of an exhaustion that *)
(* was cleared does not end a later one.                                    *)
FullDelay ==
    [][\A p \in exhausted \ exhausted' :
          downFor[p] >= ResetDelay \/ operated' # operated]_vars

(* A caller that has the supervisor for itself is stopped when its own      *)
(* tokens have been low LowLimit times in a row, and not before             *)
(* (agent-stop.ts): nothing is left of the calls before it.                 *)
StopsOnItsOwn ==
    \A c \in Callers :
        phase[c] = "calling" /\ c \notin disturbed => (c \in aborted <=> own[c] = LowLimit)

(* A council fails only without any usable answer: what arrived before the  *)
(* deadline counts (council.ts).                                            *)
CouncilSalvages ==
    [][\A c \in Callers :
          phase[c] = "council" /\ phase'[c] = "failed" => Voices(c) = {}]_vars

(* Every request ends, whatever the legs of its council do (council.ts).    *)
RequestsEnd == \A c \in Callers : phase[c] \in Running ~> phase[c] \notin Running

(* An exhausted provider comes back without the operator (interceptor.ts).  *)
BackOnline == \A p \in Providers : p \in exhausted ~> p \notin exhausted

(* Whoever waits is answered: the caller of a request and the provider that *)
(* was taken out of service.                                                *)
AnswersCome == RequestsEnd /\ BackOnline
=============================================================================
