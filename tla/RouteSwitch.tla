---------------------------- MODULE RouteSwitch ----------------------------
(***************************************************************************)
(* The routing of requests to language models.                             *)
(*                                                                         *)
(* Code: src/core/routeswitch: engine.ts (execute), governor.ts,           *)
(* council.ts, interceptor.ts (provider health), agent-stop.ts.            *)
(*                                                                         *)
(* One engine serves callers that overlap: each execute runs in one go     *)
(* until it awaits a provider, and goes on when the provider has settled.  *)
(* The governor, the health of the providers and the stop supervisor are   *)
(* shared by all of them.  Prompts and answers are left out: an answer is  *)
(* usable or not, a token has a high or a low confidence.                  *)
(***************************************************************************)
EXTENDS Naturals, Sequences, FiniteSets, Functions

CONSTANTS
    Callers,      \* concurrent callers of execute
    Providers,    \* the registered providers
    NoProvider,   \* the provider of a caller that awaits none
    Paid,         \* providers whose row has is_paid_tier = 1
    Streaming,    \* providers that report the confidence of each token
    Council,      \* councilProviders, in the order of setCouncilProviders
    Chains,       \* provider chains the routing rules may resolve to
    Estimate,     \* estimatedTokens of a request
    Budgets,      \* values of the budget setting, as token ceilings
    TTL,          \* FREE_MODE_CACHE_TTL_MS, in ticks of the clock
    ResetDelay,   \* resetDelayMs of an exhausted provider, in ticks
    LowLimit,     \* consecutiveTokens of the stop supervisor
    MaxRequests,  \* bound: requests
    MaxOperator   \* bound: changes of settings and clearings by the operator

ASSUME ProviderAssumption ==
    /\ Paid \subseteq Providers /\ Streaming \subseteq Providers
    /\ NoProvider \notin Providers
    /\ Council \in Seq(Providers)
    /\ Chains \subseteq Seq(Providers) \ {<<>>}
    /\ IsFiniteSet(Callers) /\ Callers # {} /\ IsFiniteSet(Providers)
ASSUME NumberAssumption ==
    /\ Estimate \in Nat /\ Budgets \subseteq Nat /\ Budgets # {}
    /\ TTL \in Nat /\ ResetDelay \in Nat \ {0} /\ LowLimit \in Nat \ {0}
    /\ MaxRequests \in Nat /\ MaxOperator \in Nat

VARIABLES
    phase,      \* of a caller: idle, calling, council, or the outcome
    at,         \* the provider a calling caller awaits
    rest,       \* what is left of its chain
    legs,       \* the council legs of a caller: provider -> how it settled
    used,       \* tokensUsed
    ceiling,    \* maxTokens of the governor
    budget,     \* the budget setting in the database
    unlocked,   \* free_mode_unlocked in the database
    cached,     \* cachedUnlocked
    age,        \* ticks since cachedUnlockedAt, at most TTL + 1
    exhausted,  \* providers whose health isExhausted
    timers,     \* timers[p]: pending reset timers of p, as ticks left
    handle,     \* handle[p]: resetTimeoutId, as the ticks its timer has left
    low,        \* consecutiveLowCount
    aborted,    \* callers whose abort controller has fired
    issued, operated,
    lockedFor,  \* history: ticks since the setting was locked, at most TTL + 1
    downFor,    \* history: ticks since p was marked exhausted
    untried,    \* history: free providers of a caller's chain that have been
                \* in order since its request began and were not called
    own,        \* history: low tokens in a row of a caller's call
    disturbed   \* history: callers whose call saw another caller's supervisor use

requests == <<phase, at, rest, legs, aborted, issued>>
governor == <<used, ceiling>>
settings == <<budget, unlocked, operated, lockedFor>>
lock == <<cached, age>>
health == <<exhausted, timers, handle, downFor>>
supervisor == <<low, own, disturbed>>
vars == <<requests, governor, settings, lock, health, supervisor, untried>>

Running == {"calling", "council"}
Outcomes == {"answered", "failed", "refused"}
NoTimer == ResetDelay + 1
NoLegs == [p \in {} |-> "open"]

Init ==
    /\ phase = [c \in Callers |-> "idle"]
    /\ at = [c \in Callers |-> NoProvider]
    /\ rest = [c \in Callers |-> <<>>]
    /\ legs = [c \in Callers |-> NoLegs]
    /\ used = 0
    /\ budget \in Budgets /\ ceiling = budget
    /\ unlocked \in BOOLEAN /\ cached = FALSE
    /\ age = TTL + 1 /\ lockedFor = IF unlocked THEN 0 ELSE TTL + 1
    /\ exhausted = {} /\ downFor = [p \in Providers |-> 0]
    /\ timers = [p \in Providers |-> {}]
    /\ handle = [p \in Providers |-> NoTimer]
    /\ low = 0 /\ aborted = {} /\ disturbed = {}
    /\ own = [c \in Callers |-> 0]
    /\ untried = [c \in Callers |-> {}]
    /\ issued = 0 /\ operated = 0
-----------------------------------------------------------------------------
(* The governor. *)

\* Fault: an unlocked cache is not read again.
UnlockedForGood == IF age > TTL /\ ~cached THEN unlocked ELSE cached

(* isFreeModeUnlocked answers from its cache until that has expired.        *)
Unlocked == IF age > TTL THEN unlocked ELSE cached

ReadsLock == cached' = Unlocked /\ age' = IF age > TTL THEN 0 ELSE age

Allowed(p) == p \in Paid => Unlocked

\* Fault: what the request is going to use is not counted.
CanProceedNow ==
    /\ ReadsLock
    /\ IF Unlocked THEN ceiling' = ceiling
                   ELSE ceiling' \in {ceiling, budget}
    /\ Unlocked \/ used <= ceiling'

(* canProceed.  The cache of the budget has a clock of its own, which is    *)
(* left out: a locked governor may or may not see the latest setting.       *)
CanProceed ==
    /\ ReadsLock
    /\ IF Unlocked THEN ceiling' = ceiling
                   ELSE ceiling' \in {ceiling, budget}
    /\ Unlocked \/ used + Estimate <= ceiling'

Blocked ==
    /\ ReadsLock
    /\ ~Unlocked
    /\ ceiling' \in {ceiling, budget}
    /\ used + Estimate > ceiling'

RecordUsage(tokens) == used' = used + tokens /\ ceiling' = ceiling /\ ReadsLock
-----------------------------------------------------------------------------
(* The fallback chain. *)

(* resolveProviderChain picks the chain; the model selector may put any     *)
(* registered provider before it.  A chain names a provider once.           *)
EffectiveChain(primary, chain) ==
    IF primary \notin Range(chain)
    THEN <<primary>> \o chain
    ELSE LET i == CHOOSE i \in DOMAIN chain : chain[i] = primary IN
         <<primary>> \o (SubSeq(chain, 1, i - 1) \o SubSeq(chain, i + 1, Len(chain)))

(* The places of a chain whose provider is neither exhausted nor locked.    *)
Callable(chain, down) ==
    {i \in DOMAIN chain : chain[i] \notin down /\ Allowed(chain[i])}

(* The lock is read for the paid providers the walk comes to.               *)
WalkReads(chain, down) ==
    \E i \in DOMAIN chain :
        chain[i] \in Paid \ down /\ \A j \in Callable(chain, down) : i <= j

OthersCalling(c) == {d \in Callers \ {c} : phase[d] = "calling"}

\* Fault: no reset.
CallWithoutReset(c, p) ==
    /\ phase' = [phase EXCEPT ![c] = "calling"]
    /\ at' = [at EXCEPT ![c] = p]
    /\ low' = low
    /\ own' = [d \in Callers |-> IF d = c \/ d \in OthersCalling(c) THEN 0 ELSE own[d]]
    /\ disturbed' = (disturbed \ {c}) \cup OthersCalling(c)
    /\ aborted' = aborted \ {c}

(* _executeWithProvider up to its await: the shared supervisor is reset.    *)
Call(c, p) ==
    /\ phase' = [phase EXCEPT ![c] = "calling"]
    /\ at' = [at EXCEPT ![c] = p]
    /\ low' = 0
    /\ own' = [d \in Callers |-> IF d = c \/ d \in OthersCalling(c) THEN 0 ELSE own[d]]
    /\ disturbed' = (disturbed \ {c}) \cup OthersCalling(c)
    /\ aborted' = aborted \ {c}

(* execute returns or throws. *)
Ends(c, outcome) ==
    /\ phase' = [phase EXCEPT ![c] = outcome]
    /\ at' = [at EXCEPT ![c] = NoProvider]
    /\ rest' = [rest EXCEPT ![c] = <<>>]
    /\ legs' = [legs EXCEPT ![c] = NoLegs]
    /\ low' = low
    /\ own' = [own EXCEPT ![c] = 0]
    /\ disturbed' = disturbed \ {c}
    /\ aborted' = aborted \ {c}

(* The loop over the chain, from its current place to the next await or to  *)
(* its end: exhausted and locked providers are skipped.                     *)
Walk(c, chain, down, fresh) ==
    \/ \E i \in Callable(chain, down) :
         /\ \A j \in Callable(chain, down) : i <= j
         /\ Call(c, chain[i])
         /\ rest' = [rest EXCEPT ![c] = SubSeq(chain, i + 1, Len(chain))]
         /\ untried' = [fresh EXCEPT ![c] = @ \ {chain[i]}]
         /\ UNCHANGED legs
    \/ /\ Callable(chain, down) = {}
       /\ Ends(c, "failed")
       /\ untried' = fresh
-----------------------------------------------------------------------------
(* The council. *)

Voices(c) == {p \in DOMAIN legs[c] : legs[c][p] = "usable"}

CouncilCandidates(primary) == {primary} \cup Range(Council)
Eligible(primary) == {p \in CouncilCandidates(primary) : Allowed(p)}

(* A risky prompt goes to a council, if two or more providers are           *)
(* configured for one and the lock leaves two or more of the candidates.    *)
CouncilTriggered(primary) ==
    Len(Council) >= 2 /\ Cardinality(Eligible(primary)) >= 2

Convene(c, primary) ==
    /\ phase' = [phase EXCEPT ![c] = "council"]
    /\ legs' = [legs EXCEPT ![c] = [p \in Eligible(primary) |-> "open"]]
    /\ untried' = [untried EXCEPT ![c] = {}]
    /\ UNCHANGED <<at, rest, aborted, supervisor>>

(* The verdict over the legs that have settled: one usable answer is        *)
(* enough, none makes the request fail.                                     *)
Verdict(c, settled) ==
    IF \E p \in DOMAIN settled : settled[p] = "usable"
    THEN /\ Ends(c, "answered")
         /\ RecordUsage(Estimate * Cardinality(DOMAIN settled))
    ELSE Ends(c, "failed") /\ UNCHANGED <<governor, lock>>
-----------------------------------------------------------------------------
(* A request: execute up to its first await.                                *)

Refused(c) ==
    /\ Blocked
    /\ Ends(c, "refused")
    /\ untried' = [untried EXCEPT ![c] = {}]
    /\ UNCHANGED used

Admitted(c) ==
    /\ CanProceed
    /\ UNCHANGED used
    /\ \E chain \in Chains, primary \in Providers, risky \in BOOLEAN :
         IF risky /\ CouncilTriggered(primary)
         THEN Convene(c, primary)
         ELSE LET whole == EffectiveChain(primary, chain) IN
              Walk(c, whole, exhausted,
                   [untried EXCEPT ![c] = Range(whole) \ (Paid \cup exhausted)])

Submit(c) ==
    /\ phase[c] \notin Running /\ issued < MaxRequests
    /\ issued' = issued + 1
    /\ Admitted(c) \/ Refused(c)
    /\ UNCHANGED <<settings, health>>
-----------------------------------------------------------------------------
(* What the awaited provider does. *)

Answers(c) ==
    /\ phase[c] = "calling"
    /\ Ends(c, "answered")
    /\ RecordUsage(Estimate)
    /\ untried' = [untried EXCEPT ![c] = {}]
    /\ UNCHANGED <<issued, settings, health>>

(* The lock is only read again when the loop comes to a paid provider.      *)
Continues(c, down, fresh) ==
    /\ Walk(c, rest[c], down, fresh)
    /\ IF WalkReads(rest[c], down) THEN ReadsLock ELSE UNCHANGED lock
    /\ UNCHANGED <<issued, settings, governor>>

\* Fault: the loop is left on the first error.
FailsForGood(c) ==
    /\ phase[c] = "calling"
    /\ Ends(c, "failed")
    /\ UNCHANGED <<issued, settings, governor, lock, health, untried>>

(* A timeout and any other error leave the health of the provider alone.    *)
Fails(c) ==
    /\ phase[c] = "calling"
    /\ Continues(c, exhausted, untried)
    /\ UNCHANGED health

\* Fault: no timer is armed.
MarkExhaustedUnarmed(p) ==
    IF p \in exhausted
    THEN UNCHANGED health
    ELSE /\ exhausted' = exhausted \cup {p}
         /\ UNCHANGED <<timers, handle, downFor>>

(* markExhausted: a provider that is exhausted keeps the timer it has.      *)
MarkExhausted(p) ==
    IF p \in exhausted
    THEN UNCHANGED health
    ELSE /\ exhausted' = exhausted \cup {p}
         /\ timers' = [timers EXCEPT ![p] = (@ \ {handle[p]}) \cup {ResetDelay}]
         /\ handle' = [handle EXCEPT ![p] = ResetDelay]
         /\ downFor' = [downFor EXCEPT ![p] = 0]

RateLimited(c) ==
    /\ phase[c] = "calling"
    /\ MarkExhausted(at[c])
    /\ Continues(c, exhausted \cup {at[c]}, [d \in Callers |-> untried[d] \ {at[c]}])

(* evaluateToken.  A caller's controller stops its own stream only.         *)
StreamsToken(c) ==
    /\ phase[c] = "calling" /\ at[c] \in Streaming /\ c \notin aborted
    /\ \E isLow \in BOOLEAN :
         LET count == IF ~isLow THEN 0 ELSE IF low < LowLimit THEN low + 1 ELSE low IN
         /\ low' = count
         /\ aborted' = IF isLow /\ count >= LowLimit THEN aborted \cup {c} ELSE aborted
         /\ own' = [d \in Callers |->
                      IF d = c /\ c \notin disturbed /\ isLow THEN own[c] + 1
                      ELSE IF d = c \/ d \in OthersCalling(c) THEN 0 ELSE own[d]]
    /\ disturbed' = disturbed \cup OthersCalling(c)
    /\ UNCHANGED <<phase, at, rest, legs, issued, governor, settings, lock, health, untried>>

(* A leg settles with an answer, or with an error or an empty answer.  The  *)
(* last one settles the council.                                            *)
LegSettles(c, p) ==
    /\ phase[c] = "council" /\ legs[c][p] = "open"
    /\ \E v \in {"usable", "useless"} :
         LET settled == [legs[c] EXCEPT ![p] = v] IN
         IF \E q \in DOMAIN settled : settled[q] = "open"
         THEN /\ legs' = [legs EXCEPT ![c] = settled]
              /\ UNCHANGED <<phase, at, rest, aborted, governor, lock, supervisor>>
         ELSE Verdict(c, settled)
    /\ UNCHANGED <<issued, settings, health, untried>>

\* Fault: what has arrived is thrown away.
DeadlineDiscards(c) ==
    /\ phase[c] = "council"
    /\ Ends(c, "failed")
    /\ UNCHANGED <<issued, governor, lock, settings, health, untried>>

\* Fault: the council waits for all its legs.
DeadlineUnarmed(c) ==
    /\ phase[c] = "council" /\ \A p \in DOMAIN legs[c] : legs[c][p] # "open"
    /\ Verdict(c, legs[c])
    /\ UNCHANGED <<issued, settings, health, untried>>

(* The deadline aborts the open legs and takes what the others answered.    *)
Deadline(c) ==
    /\ phase[c] = "council"
    /\ Verdict(c, legs[c])
    /\ UNCHANGED <<issued, settings, health, untried>>
-----------------------------------------------------------------------------
(* The clock, the reset timers and the operator. *)

Older(n, cap) == IF n < cap THEN n + 1 ELSE n
Less(n) == IF n \in 1 .. ResetDelay THEN n - 1 ELSE n

Tick ==
    /\ age' = Older(age, TTL + 1)
    /\ lockedFor' = IF unlocked THEN 0 ELSE Older(lockedFor, TTL + 1)
    /\ timers' = [p \in Providers |-> {Less(n) : n \in timers[p]}]
    /\ handle' = [p \in Providers |-> Less(handle[p])]
    /\ downFor' = [p \in Providers |->
                     IF p \in exhausted THEN Older(downFor[p], ResetDelay) ELSE 0]
    /\ UNCHANGED <<requests, governor, budget, unlocked, operated, cached,
                   exhausted, supervisor, untried>>

TimerFires(p) ==
    /\ 0 \in timers[p]
    /\ timers' = [timers EXCEPT ![p] = @ \ {0}]
    /\ handle' = [handle EXCEPT ![p] = NoTimer]
    /\ exhausted' = exhausted \ {p}
    /\ downFor' = [downFor EXCEPT ![p] = 0]
    /\ UNCHANGED <<requests, governor, settings, lock, supervisor, untried>>

Operator == operated < MaxOperator /\ operated' = operated + 1

ToggleFreeMode ==
    /\ Operator
    /\ unlocked' = ~unlocked /\ lockedFor' = 0
    /\ UNCHANGED <<requests, governor, budget, lock, health, supervisor, untried>>

SetBudget ==
    /\ Operator
    /\ budget' \in Budgets \ {budget}
    /\ UNCHANGED <<requests, governor, unlocked, lockedFor, lock, health, supervisor, untried>>

\* Fault: the handles are dropped and the timers left running.
ClearErrorsOnly ==
    /\ Operator /\ exhausted # {}
    /\ exhausted' = {}
    /\ handle' = [p \in Providers |-> IF p \in exhausted THEN NoTimer ELSE handle[p]]
    /\ downFor' = [p \in Providers |-> 0]
    /\ UNCHANGED <<requests, governor, budget, unlocked, lockedFor, lock, timers, supervisor, untried>>

(* clearAllErrors: the timers of the exhausted providers are cleared too.   *)
ClearErrors ==
    /\ Operator /\ exhausted # {}
    /\ exhausted' = {}
    /\ timers' = [p \in Providers |-> IF p \in exhausted THEN timers[p] \ {handle[p]} ELSE timers[p]]
    /\ handle' = [p \in Providers |-> IF p \in exhausted THEN NoTimer ELSE handle[p]]
    /\ downFor' = [p \in Providers |-> 0]
    /\ UNCHANGED <<requests, governor, budget, unlocked, lockedFor, lock, supervisor, untried>>

Settles(c) ==
    Answers(c) \/ Fails(c) \/ RateLimited(c)

Next ==
    \/ \E c \in Callers :
         \/ Submit(c) \/ Answers(c) \/ Fails(c) \/ RateLimited(c)
         \/ StreamsToken(c) \/ Deadline(c)
         \/ \E p \in DOMAIN legs[c] : LegSettles(c, p)
    \/ Tick
    \/ \E p \in Providers : TimerFires(p)
    \/ ToggleFreeMode \/ SetBudget \/ ClearErrors

Spec == Init /\ [][Next]_vars

(* A provider settles what it was asked, if only by its own timeout; the    *)
(* clock goes on and timers fire.  The legs of a council owe nothing: they  *)
(* may ignore their abort signal.                                           *)
Fairness ==
    /\ \A c \in Callers : WF_vars(Settles(c)) /\ WF_vars(Deadline(c))
    /\ WF_vars(Tick)
    /\ \A p \in Providers : WF_vars(TimerFires(p))

FairSpec == Spec /\ Fairness
=============================================================================
