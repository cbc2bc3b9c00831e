------------------------- MODULE RouteSwitchProofs -------------------------
(***************************************************************************)
(* The safety of the routing of requests, for any number of callers and    *)
(* providers, any chains, councils and budgets, any life of the cache and  *)
(* any delays.                                                             *)
(***************************************************************************)
EXTENDS RouteSwitchProperties, FiniteSetTheorems, SequenceTheorems, TLAPS

-----------------------------------------------------------------------------
(* The operators. *)

LEMMA EffectiveChainType ==
    ASSUME NEW primary \in Providers, NEW chain \in Seq(Providers)
    PROVE  EffectiveChain(primary, chain) \in Seq(Providers)
<1>1. CASE primary \notin Range(chain)
  BY <1>1 DEF EffectiveChain
<1>2. CASE primary \in Range(chain)
  <2> DEFINE i == CHOOSE i \in DOMAIN chain : chain[i] = primary
  <2>1. i \in 1 .. Len(chain)
    BY <1>2 DEF Range
  <2> HIDE DEF i
  <2>2. SubSeq(chain, 1, i - 1) \in Seq(Providers) /\ SubSeq(chain, i + 1, Len(chain)) \in Seq(Providers)
    BY <2>1, SubSeqProperties
  <2> QED
    BY <1>2, <2>2 DEF i, EffectiveChain
<1> QED
  BY <1>1, <1>2

LEMMA EligibleFacts ==
    ASSUME NEW primary \in Providers
    PROVE  /\ Eligible(primary) \subseteq Providers
           /\ CouncilTriggered(primary) => Eligible(primary) # {}
<1>1. Range(Council) \subseteq Providers
  BY ProviderAssumption DEF Range
<1>2. Eligible(primary) = {} => Cardinality(Eligible(primary)) = 0
  BY FS_EmptySet
<1> QED
  BY <1>1, <1>2 DEF Eligible, CouncilCandidates, CouncilTriggered

LEMMA TimeFacts ==
    /\ \A n \in 0 .. TTL + 1 : Older(n, TTL + 1) \in 0 .. TTL + 1
    /\ \A n \in 0 .. ResetDelay : Older(n, ResetDelay) \in 0 .. ResetDelay /\ Less(n) \in 0 .. ResetDelay
    /\ \A n \in 0 .. NoTimer : Less(n) \in 0 .. NoTimer
    /\ ResetDelay \in 0 .. ResetDelay /\ ResetDelay \in 0 .. NoTimer /\ NoTimer \in 0 .. NoTimer
    /\ 0 \in 0 .. ResetDelay /\ 0 \in 0 .. TTL + 1 /\ 0 \in 0 .. LowLimit
BY NumberAssumption DEF Older, Less, NoTimer

-----------------------------------------------------------------------------
(* Typing.  The variables are typed in groups, as the steps change them.    *)

TypeRequests ==
    /\ phase \in [Callers -> {"idle"} \cup Running \cup Outcomes]
    /\ at \in [Callers -> Providers \cup {NoProvider}]
    /\ rest \in [Callers -> Seq(Providers)]
    /\ legs \in [Callers -> Legs]
    /\ \A c \in Callers :
         /\ phase[c] = "calling" <=> at[c] # NoProvider
         /\ phase[c] = "council" <=> DOMAIN legs[c] # {}
    /\ aborted \subseteq Callers /\ disturbed \subseteq Callers

TypeSupervisor == low \in 0 .. LowLimit /\ own \in [Callers -> 0 .. LowLimit]
TypeUntried == untried \in [Callers -> SUBSET Providers]
TypeSpending == used \in Nat /\ ceiling \in Nat /\ budget \in Budgets
TypeLock ==
    /\ unlocked \in BOOLEAN /\ cached \in BOOLEAN
    /\ age \in 0 .. TTL + 1 /\ lockedFor \in 0 .. TTL + 1
TypeHealth ==
    /\ exhausted \subseteq Providers
    /\ timers \in [Providers -> SUBSET (0 .. ResetDelay)]
    /\ handle \in [Providers -> 0 .. NoTimer]
    /\ downFor \in [Providers -> 0 .. ResetDelay]
TypeCounts == issued \in 0 .. MaxRequests /\ operated \in 0 .. MaxOperator

LEMMA Groups ==
    /\ TypeOK <=> /\ TypeRequests /\ TypeSupervisor /\ TypeUntried /\ TypeSpending
                  /\ TypeLock /\ TypeHealth /\ TypeCounts
    /\ TypeOK' <=> /\ TypeRequests' /\ TypeSupervisor' /\ TypeUntried' /\ TypeSpending'
                   /\ TypeLock' /\ TypeHealth' /\ TypeCounts'
BY DEF TypeOK, TypeRequests, TypeSupervisor, TypeUntried, TypeSpending, TypeLock,
       TypeHealth, TypeCounts

(* The read of the cached setting. *)
LEMMA ReadsLockType ==
    ASSUME TypeLock, UNCHANGED <<unlocked, lockedFor>>, ReadsLock \/ UNCHANGED lock
    PROVE  TypeLock'
BY NumberAssumption DEF TypeLock, ReadsLock, Unlocked, lock

LEMMA EndsType ==
    ASSUME TypeRequests, TypeSupervisor, NEW c \in Callers,
           NEW outcome \in Outcomes, Ends(c, outcome)
    PROVE  TypeRequests' /\ TypeSupervisor'
<1>1. outcome \notin Running /\ NoLegs \in Legs /\ DOMAIN NoLegs = {} /\ <<>> \in Seq(Providers)
  BY DEF Outcomes, Running, NoLegs, Legs
<1>2. phase' \in [Callers -> {"idle"} \cup Running \cup Outcomes] /\ legs' \in [Callers -> Legs]
  BY <1>1 DEF Ends, TypeRequests
<1>3. ASSUME NEW d \in Callers
      PROVE  /\ phase'[d] = "calling" <=> at'[d] # NoProvider
             /\ phase'[d] = "council" <=> DOMAIN legs'[d] # {}
  <2>1. CASE d = c
    BY <2>1, <1>1 DEF Ends, TypeRequests, Running
  <2>2. CASE d # c
    BY <2>2 DEF Ends, TypeRequests
  <2> QED
    BY <2>1, <2>2
<1>4. rest' \in [Callers -> Seq(Providers)]
  BY <1>1 DEF Ends, TypeRequests
<1> QED
  BY <1>1, <1>2, <1>3, <1>4, TimeFacts DEF Ends, TypeRequests, TypeSupervisor

LEMMA CallType ==
    ASSUME TypeRequests, TypeSupervisor, NEW c \in Callers, phase[c] # "council",
           NEW p \in Providers, Call(c, p), legs' = legs,
           NEW s \in Seq(Providers), rest' = [rest EXCEPT ![c] = s]
    PROVE  TypeRequests' /\ TypeSupervisor'
<1>1. phase' \in [Callers -> {"idle"} \cup Running \cup Outcomes]
  BY DEF Call, TypeRequests, Running
<1>2. ASSUME NEW d \in Callers
      PROVE  /\ phase'[d] = "calling" <=> at'[d] # NoProvider
             /\ phase'[d] = "council" <=> DOMAIN legs'[d] # {}
  <2>1. CASE d = c
    BY <2>1, ProviderAssumption DEF Call, TypeRequests
  <2>2. CASE d # c
    BY <2>2 DEF Call, TypeRequests
  <2> QED
    BY <2>1, <2>2
<1>3. rest' \in [Callers -> Seq(Providers)] /\ at' \in [Callers -> Providers \cup {NoProvider}]
  BY DEF Call, TypeRequests
<1>4. aborted' \subseteq Callers /\ disturbed' \subseteq Callers
  BY DEF Call, TypeRequests, OthersCalling
<1>5. TypeSupervisor'
  BY TimeFacts DEF Call, TypeSupervisor
<1> QED
  BY <1>1, <1>2, <1>3, <1>4, <1>5 DEF TypeRequests

LEMMA WalkType ==
    ASSUME TypeRequests, TypeSupervisor, NEW c \in Callers, phase[c] # "council",
           NEW chain \in Seq(Providers), NEW down,
           NEW fresh \in [Callers -> SUBSET Providers],
           Walk(c, chain, down, fresh)
    PROVE  TypeRequests' /\ TypeSupervisor' /\ TypeUntried'
<1>1. ASSUME NEW i \in Callable(chain, down), Call(c, chain[i]),
             rest' = [rest EXCEPT ![c] = SubSeq(chain, i + 1, Len(chain))],
             untried' = [fresh EXCEPT ![c] = @ \ {chain[i]}], legs' = legs
      PROVE  TypeRequests' /\ TypeSupervisor' /\ TypeUntried'
  <2>1. i \in 1 .. Len(chain) /\ chain[i] \in Providers
    BY DEF Callable
  <2>2. SubSeq(chain, i + 1, Len(chain)) \in Seq(Providers)
    BY <2>1, SubSeqProperties
  <2>3. TypeRequests' /\ TypeSupervisor'
    BY <1>1, <2>1, <2>2, CallType
  <2> QED
    BY <1>1, <2>3 DEF TypeUntried
<1>2. ASSUME Ends(c, "failed"), untried' = fresh
      PROVE  TypeRequests' /\ TypeSupervisor' /\ TypeUntried'
  BY <1>2, EndsType DEF TypeUntried, Outcomes
<1> QED
  BY <1>1, <1>2 DEF Walk

(* What the supervisor's count says of a caller that has it for itself.     *)
StopExact ==
    \A c \in Callers :
        phase[c] = "calling" /\ c \notin disturbed =>
            own[c] = low /\ (c \in aborted <=> low = LowLimit)

LEMMA ContinuesType ==
    ASSUME TypeOK, NEW c \in Callers, phase[c] = "calling", NEW down,
           NEW fresh \in [Callers -> SUBSET Providers], Continues(c, down, fresh)
    PROVE  TypeRequests' /\ TypeSupervisor' /\ TypeUntried' /\ TypeSpending' /\ TypeLock' /\ TypeCounts'
<1>1. rest[c] \in Seq(Providers)
  BY DEF TypeOK
<1>2. TypeRequests' /\ TypeSupervisor' /\ TypeUntried'
  BY <1>1, WalkType, Groups DEF Continues
<1>3. TypeLock'
  BY ReadsLockType, Groups DEF Continues, settings
<1> QED
  BY <1>2, <1>3 DEF TypeOK, TypeSpending, TypeCounts, Continues, settings, governor

LEMMA MarkExhaustedType ==
    ASSUME TypeHealth, NEW p \in Providers, MarkExhausted(p)
    PROVE  TypeHealth'
<1>1. CASE p \in exhausted
  BY <1>1 DEF MarkExhausted, TypeHealth, health
<1>2. CASE p \notin exhausted
  BY <1>2, TimeFacts, SMTT(30) DEF MarkExhausted, TypeHealth
<1> QED
  BY <1>1, <1>2

LEMMA VerdictType ==
    ASSUME TypeOK, NEW c \in Callers, NEW settled \in Legs, Verdict(c, settled),
           UNCHANGED <<issued, settings, health, untried>>
    PROVE  TypeOK'
<1>1. Cardinality(DOMAIN settled) \in Nat
  BY FS_Subset, FS_CardinalityType, ProviderAssumption DEF Legs
<1>2. TypeRequests' /\ TypeSupervisor'
  BY EndsType, Groups DEF Verdict, Outcomes
<1>3. TypeLock'
  BY ReadsLockType, Groups DEF Verdict, RecordUsage, settings
<1>4. TypeSpending'
  <2>1. CASE RecordUsage(Estimate * Cardinality(DOMAIN settled))
    <3>1. Estimate * Cardinality(DOMAIN settled) \in Nat
      BY <1>1, NumberAssumption
    <3> QED
      BY <2>1, <3>1 DEF TypeOK, TypeSpending, RecordUsage, settings
  <2>2. CASE UNCHANGED governor
    BY <2>2 DEF TypeOK, TypeSpending, governor, settings
  <2> QED
    BY <2>1, <2>2 DEF Verdict
<1>5. TypeHealth' /\ TypeCounts' /\ TypeUntried'
  BY DEF TypeOK, TypeHealth, TypeCounts, TypeUntried, health, settings
<1> QED
  BY <1>2, <1>3, <1>4, <1>5, Groups

LEMMA SubmitType ==
    ASSUME TypeOK, NEW c \in Callers, Submit(c)
    PROVE  TypeOK'
<1>1. phase[c] \notin Running /\ phase[c] # "council" /\ phase[c] # "calling"
  BY DEF Submit, Running
<1>2. TypeLock'
  BY ReadsLockType, Groups DEF Submit, Admitted, CanProceed, Refused, Blocked, settings
<1>3. TypeSpending'
  <2>1. ceiling' \in Nat /\ used' = used
    BY NumberAssumption DEF Submit, Admitted, CanProceed, Refused, Blocked, TypeOK
  <2> QED
    BY <2>1 DEF TypeOK, TypeSpending, Submit, settings
<1>4. TypeHealth' /\ TypeCounts'
  BY NumberAssumption DEF TypeOK, TypeHealth, TypeCounts, Submit, health, settings
<1>5. CASE Refused(c)
  BY <1>5, EndsType, Groups, <1>2, <1>3, <1>4 DEF Refused, Outcomes, TypeOK, TypeUntried
<1>6. CASE Admitted(c)
  <2>1. PICK chain \in Chains, primary \in Providers, risky \in BOOLEAN :
            IF risky /\ CouncilTriggered(primary)
            THEN Convene(c, primary)
            ELSE LET whole == EffectiveChain(primary, chain) IN
                 Walk(c, whole, exhausted,
                      [untried EXCEPT ![c] = Range(whole) \ (Paid \cup exhausted)])
    BY <1>6 DEF Admitted
  <2> DEFINE whole == EffectiveChain(primary, chain)
             fresh == [untried EXCEPT ![c] = Range(whole) \ (Paid \cup exhausted)]
  <2>2. CASE CouncilTriggered(primary) /\ Convene(c, primary)
    <3>1. Eligible(primary) \subseteq Providers /\ Eligible(primary) # {}
      BY <2>2, EligibleFacts
    <3>2. [p \in Eligible(primary) |-> "open"] \in Legs
      BY <3>1 DEF Legs
    <3>3. TypeRequests'
      <4>1. phase' \in [Callers -> {"idle"} \cup Running \cup Outcomes] /\ legs' \in [Callers -> Legs]
        BY <2>2, <3>2 DEF Convene, TypeOK, Running
      <4>2. ASSUME NEW d \in Callers
            PROVE  /\ phase'[d] = "calling" <=> at'[d] # NoProvider
                   /\ phase'[d] = "council" <=> DOMAIN legs'[d] # {}
        <5>1. CASE d = c
          <6>1. legs'[d] = [p \in Eligible(primary) |-> "open"]
            BY <5>1, <2>2 DEF Convene, TypeOK
          <6>2. phase'[d] = "council" /\ at'[d] = at[d]
            BY <5>1, <2>2 DEF Convene, TypeOK
          <6> QED
            BY <6>1, <6>2, <5>1, <3>1, <1>1 DEF TypeOK
        <5>2. CASE d # c
          BY <5>2, <2>2 DEF Convene, TypeOK
        <5> QED
          BY <5>1, <5>2
      <4> QED
        BY <2>2, <4>1, <4>2 DEF TypeRequests, Convene, TypeOK, supervisor
    <3>4. TypeSupervisor' /\ TypeUntried'
      BY <2>2 DEF Convene, TypeOK, TypeSupervisor, TypeUntried, supervisor
    <3> QED
      BY <3>3, <3>4, <1>2, <1>3, <1>4, Groups
  <2>3. CASE Walk(c, whole, exhausted, fresh)
    <3>1. whole \in Seq(Providers)
      BY EffectiveChainType, ProviderAssumption
    <3>2. Range(whole) \subseteq Providers
      BY <3>1 DEF Range
    <3>3. fresh \in [Callers -> SUBSET Providers]
      BY <3>2 DEF TypeOK
    <3> HIDE DEF fresh, whole
    <3>4. TypeRequests' /\ TypeSupervisor' /\ TypeUntried'
      BY <2>3, <3>1, <3>3, <1>1, WalkType, Groups
    <3> QED
      BY <3>4, <1>2, <1>3, <1>4, Groups
  <2> QED
    BY <2>1, <2>2, <2>3
<1> QED
  BY <1>5, <1>6 DEF Submit

LEMMA TokenType ==
    ASSUME TypeOK, StopExact, NEW c \in Callers, StreamsToken(c)
    PROVE  TypeOK'
<1>1. PICK isLow \in BOOLEAN :
         LET count == IF ~isLow THEN 0 ELSE IF low < LowLimit THEN low + 1 ELSE low IN
         /\ low' = count
         /\ aborted' = IF isLow /\ count >= LowLimit THEN aborted \cup {c} ELSE aborted
         /\ own' = [d \in Callers |->
                      IF d = c /\ c \notin disturbed /\ isLow THEN own[c] + 1
                      ELSE IF d = c \/ d \in OthersCalling(c) THEN 0 ELSE own[d]]
  BY DEF StreamsToken
<1>2. low' \in 0 .. LowLimit
  BY <1>1, NumberAssumption DEF TypeOK
<1>3. c \notin disturbed => own[c] + 1 \in 0 .. LowLimit
  BY NumberAssumption DEF StreamsToken, StopExact, TypeOK
<1>4. own' \in [Callers -> 0 .. LowLimit]
  BY <1>1, <1>3, TimeFacts DEF TypeOK
<1>5. aborted' \subseteq Callers /\ disturbed' \subseteq Callers
  BY <1>1 DEF TypeOK, StreamsToken, OthersCalling
<1> QED
  BY <1>2, <1>4, <1>5 DEF TypeOK, StreamsToken, governor, settings, lock, health

LEMMA OperatorType ==
    ASSUME TypeOK, Tick \/ (\E p \in Providers : TimerFires(p)) \/ ToggleFreeMode \/ SetBudget \/ ClearErrors
    PROVE  TypeOK'
<1>1. CASE Tick
  <2>1. TypeLock'
    BY <1>1, TimeFacts DEF Tick, TypeOK, TypeLock
  <2>2. timers' \in [Providers -> SUBSET (0 .. ResetDelay)]
    BY <1>1, TimeFacts, SMTT(30) DEF Tick, TypeOK
  <2>3. TypeHealth'
    BY <1>1, <2>2, TimeFacts DEF Tick, TypeOK, TypeHealth
  <2> QED
    BY <1>1, <2>1, <2>3 DEF Tick, TypeOK, TypeLock, TypeHealth, requests, governor, supervisor
<1>2. CASE \E p \in Providers : TimerFires(p)
  <2>1. PICK p \in Providers : TimerFires(p)
    BY <1>2
  <2>2. timers' \in [Providers -> SUBSET (0 .. ResetDelay)]
    BY <2>1 DEF TimerFires, TypeOK
  <2>3. TypeHealth'
    BY <2>1, <2>2, TimeFacts DEF TimerFires, TypeOK, TypeHealth
  <2> QED
    BY <2>1, <2>3 DEF TimerFires, TypeOK, TypeHealth, requests, governor, settings, lock, supervisor
<1>3. CASE ToggleFreeMode
  <2>1. operated' \in 0 .. MaxOperator
    BY <1>3, NumberAssumption DEF ToggleFreeMode, Operator, TypeOK
  <2> QED
    BY <1>3, <2>1, TimeFacts
       DEF ToggleFreeMode, TypeOK, requests, governor, lock, health, supervisor
<1>4. CASE SetBudget
  <2>1. operated' \in 0 .. MaxOperator
    BY <1>4, NumberAssumption DEF SetBudget, Operator, TypeOK
  <2> QED
    BY <1>4, <2>1 DEF SetBudget, TypeOK, requests, governor, lock, health, supervisor
<1>5. CASE ClearErrors
  <2>1. TypeHealth'
    BY <1>5, TimeFacts DEF ClearErrors, TypeOK, TypeHealth
  <2>2. operated' \in 0 .. MaxOperator
    BY <1>5, NumberAssumption DEF ClearErrors, Operator, TypeOK
  <2> QED
    BY <1>5, <2>1, <2>2
       DEF ClearErrors, TypeOK, TypeHealth, requests, governor, lock, supervisor
<1> QED
  BY <1>1, <1>2, <1>3, <1>4, <1>5

LEMMA CallerType ==
    ASSUME TypeOK, StopExact, NEW c \in Callers,
           \/ Submit(c) \/ Answers(c) \/ Fails(c) \/ RateLimited(c)
           \/ StreamsToken(c) \/ Deadline(c)
           \/ \E p \in DOMAIN legs[c] : LegSettles(c, p)
    PROVE  TypeOK'
<1>1. CASE Submit(c)
  BY <1>1, SubmitType
<1>2. CASE Answers(c)
  <2>1. TypeRequests' /\ TypeSupervisor'
    BY <1>2, EndsType, Groups DEF Answers, Outcomes
  <2>2. TypeLock'
    BY <1>2, ReadsLockType, Groups DEF Answers, RecordUsage, settings
  <2>3. TypeSpending'
    BY <1>2, NumberAssumption DEF Answers, RecordUsage, settings, TypeSpending, TypeOK
  <2>4. TypeUntried' /\ TypeHealth' /\ TypeCounts'
    BY <1>2 DEF Answers, TypeUntried, TypeHealth, TypeCounts, settings, health, TypeOK
  <2> QED
    BY <2>1, <2>2, <2>3, <2>4, Groups
<1>3. CASE Fails(c)
  <2>1. untried \in [Callers -> SUBSET Providers]
    BY DEF TypeOK
  <2>2. TypeRequests' /\ TypeSupervisor' /\ TypeUntried' /\ TypeSpending' /\ TypeLock' /\ TypeCounts'
    BY <1>3, <2>1, ContinuesType DEF Fails
  <2> QED
    BY <1>3, <2>2, Groups DEF Fails, TypeHealth, health
<1>4. CASE RateLimited(c)
  <2> DEFINE fresh == [d \in Callers |-> untried[d] \ {at[c]}]
             down == exhausted \cup {at[c]}
  <2>1. fresh \in [Callers -> SUBSET Providers] /\ at[c] \in Providers
    BY <1>4 DEF TypeOK, RateLimited
  <2>2. Continues(c, down, fresh) /\ phase[c] = "calling" /\ MarkExhausted(at[c])
    BY <1>4 DEF RateLimited
  <2> HIDE DEF fresh, down
  <2>3. TypeRequests' /\ TypeSupervisor' /\ TypeUntried' /\ TypeSpending' /\ TypeLock' /\ TypeCounts'
    BY <2>1, <2>2, ContinuesType
  <2>4. TypeHealth'
    BY <2>1, <2>2, MarkExhaustedType, Groups
  <2> QED
    BY <2>3, <2>4, Groups
<1>5. CASE StreamsToken(c)
  BY <1>5, TokenType
<1>6. CASE Deadline(c)
  BY <1>6, VerdictType DEF Deadline, TypeOK
<1>7. ASSUME NEW p \in DOMAIN legs[c], LegSettles(c, p) PROVE TypeOK'
  <2>1. PICK v \in {"usable", "useless"} :
           LET settled == [legs[c] EXCEPT ![p] = v] IN
           IF \E q \in DOMAIN settled : settled[q] = "open"
           THEN /\ legs' = [legs EXCEPT ![c] = settled]
                /\ UNCHANGED <<phase, at, rest, aborted, governor, lock, supervisor>>
           ELSE Verdict(c, settled)
    BY <1>7 DEF LegSettles
  <2> DEFINE settled == [legs[c] EXCEPT ![p] = v]
  <2>2. settled \in Legs /\ DOMAIN settled = DOMAIN legs[c]
    BY DEF TypeOK, Legs
  <2>3. UNCHANGED <<issued, settings, health, untried>>
    BY <1>7 DEF LegSettles
  <2>4. CASE /\ legs' = [legs EXCEPT ![c] = settled]
             /\ UNCHANGED <<phase, at, rest, aborted, governor, lock, supervisor>>
    <3> HIDE DEF settled
    <3> QED
      BY <2>2, <2>3, <2>4 DEF TypeOK, governor, lock, supervisor, settings, health
  <2>5. CASE Verdict(c, settled)
    <3> HIDE DEF settled
    <3> QED
      BY <2>2, <2>3, <2>5, VerdictType
  <2> QED
    BY <2>1, <2>4, <2>5
<1> QED
  BY <1>1, <1>2, <1>3, <1>4, <1>5, <1>6, <1>7

LEMMA TypeStep == TypeOK /\ StopExact /\ [Next]_vars => TypeOK'
<1> SUFFICES ASSUME TypeOK, StopExact, [Next]_vars PROVE TypeOK'
  OBVIOUS
<1>1. CASE UNCHANGED vars
  BY <1>1 DEF vars, requests, governor, settings, lock, health, supervisor, TypeOK
<1>2. CASE Next
  BY <1>2, CallerType, OperatorType DEF Next
<1> QED
  BY <1>1, <1>2
-----------------------------------------------------------------------------
(* Stopping. *)

(* A caller's outcome leaves the others' calls as they were.                *)
LEMMA EndsStop ==
    ASSUME TypeOK, StopExact, NEW c \in Callers, NEW outcome \in Outcomes, Ends(c, outcome)
    PROVE  StopExact'
<1> SUFFICES ASSUME NEW d \in Callers, phase'[d] = "calling", d \notin disturbed'
             PROVE  own'[d] = low' /\ (d \in aborted' <=> low' = LowLimit)
  BY DEF StopExact
<1>1. d # c
  BY DEF Ends, TypeOK, Outcomes
<1>2. phase[d] = "calling" /\ d \notin disturbed
  BY <1>1 DEF Ends, TypeOK
<1> QED
  BY <1>1, <1>2 DEF Ends, TypeOK, StopExact

(* A call begins with the supervisor reset and disturbs those that run.     *)
LEMMA CallStop ==
    ASSUME TypeOK, NEW c \in Callers, NEW p \in Providers, Call(c, p)
    PROVE  StopExact'
<1> SUFFICES ASSUME NEW d \in Callers, phase'[d] = "calling", d \notin disturbed'
             PROVE  own'[d] = low' /\ (d \in aborted' <=> low' = LowLimit)
  BY DEF StopExact
<1>1. d = c
  BY DEF Call, TypeOK, OthersCalling
<1> QED
  BY <1>1, NumberAssumption DEF Call

LEMMA WalkStop ==
    ASSUME TypeOK, StopExact, NEW c \in Callers, NEW chain \in Seq(Providers), NEW down,
           NEW fresh, Walk(c, chain, down, fresh)
    PROVE  StopExact'
<1>1. ASSUME NEW i \in Callable(chain, down), Call(c, chain[i]) PROVE StopExact'
  <2>1. chain[i] \in Providers
    BY DEF Callable
  <2> QED
    BY <1>1, <2>1, CallStop
<1>2. CASE Ends(c, "failed")
  BY <1>2, EndsStop DEF Outcomes
<1> QED
  BY <1>1, <1>2 DEF Walk

LEMMA TokenStop ==
    ASSUME TypeOK, StopExact, NEW c \in Callers, StreamsToken(c)
    PROVE  StopExact'
<1>1. PICK isLow \in BOOLEAN :
         LET count == IF ~isLow THEN 0 ELSE IF low < LowLimit THEN low + 1 ELSE low IN
         /\ low' = count
         /\ aborted' = IF isLow /\ count >= LowLimit THEN aborted \cup {c} ELSE aborted
         /\ own' = [d \in Callers |->
                      IF d = c /\ c \notin disturbed /\ isLow THEN own[c] + 1
                      ELSE IF d = c \/ d \in OthersCalling(c) THEN 0 ELSE own[d]]
  BY DEF StreamsToken
<1> SUFFICES ASSUME NEW d \in Callers, phase'[d] = "calling", d \notin disturbed'
             PROVE  own'[d] = low' /\ (d \in aborted' <=> low' = LowLimit)
  BY DEF StopExact
<1>2. d = c /\ c \notin disturbed
  BY DEF StreamsToken, OthersCalling
<1>3. own[c] = low /\ low # LowLimit /\ low \in 0 .. LowLimit
  BY <1>2 DEF StreamsToken, StopExact, TypeOK
<1> QED
  BY <1>1, <1>2, <1>3, NumberAssumption DEF StreamsToken

LEMMA StopUnchanged ==
    ASSUME StopExact, UNCHANGED <<phase, aborted, supervisor>>
    PROVE  StopExact'
BY DEF StopExact, supervisor

LEMMA StopStep == TypeOK /\ StopExact /\ [Next]_vars => StopExact'
<1> SUFFICES ASSUME TypeOK, StopExact, [Next]_vars PROVE StopExact'
  OBVIOUS
<1>1. ASSUME NEW c \in Callers, Submit(c) PROVE StopExact'
  <2>1. CASE Refused(c)
    BY <2>1, EndsStop DEF Refused, Outcomes
  <2>2. CASE Admitted(c)
    <3>1. PICK chain \in Chains, primary \in Providers, risky \in BOOLEAN :
              IF risky /\ CouncilTriggered(primary)
              THEN Convene(c, primary)
              ELSE LET whole == EffectiveChain(primary, chain) IN
                   Walk(c, whole, exhausted,
                        [untried EXCEPT ![c] = Range(whole) \ (Paid \cup exhausted)])
      BY <2>2 DEF Admitted
    <3>2. CASE Convene(c, primary)
      BY <3>2 DEF Convene, StopExact, TypeOK, supervisor
    <3>3. ASSUME NEW fresh, Walk(c, EffectiveChain(primary, chain), exhausted, fresh)
          PROVE  StopExact'
      <4>1. EffectiveChain(primary, chain) \in Seq(Providers)
        BY EffectiveChainType, ProviderAssumption
      <4> QED
        BY <3>3, <4>1, WalkStop
    <3> QED
      BY <3>1, <3>2, <3>3
  <2> QED
    BY <1>1, <2>1, <2>2 DEF Submit
<1>2. ASSUME NEW c \in Callers, NEW settled, Verdict(c, settled) PROVE StopExact'
  BY <1>2, EndsStop DEF Verdict, Outcomes
<1>3. ASSUME NEW c \in Callers, NEW down, NEW fresh, Continues(c, down, fresh) PROVE StopExact'
  BY <1>3, WalkStop DEF Continues, TypeOK
<1>4. ASSUME NEW c \in Callers,
             \/ Answers(c) \/ Fails(c) \/ RateLimited(c) \/ StreamsToken(c) \/ Deadline(c)
      PROVE  StopExact'
  BY <1>2, <1>3, <1>4, EndsStop, TokenStop DEF Answers, Fails, RateLimited, Deadline, Outcomes
<1>5. ASSUME NEW c \in Callers, NEW p \in DOMAIN legs[c], LegSettles(c, p) PROVE StopExact'
  <2>1. UNCHANGED <<phase, at, rest, aborted, governor, lock, supervisor>>
           \/ \E settled : Verdict(c, settled)
    BY <1>5 DEF LegSettles
  <2> QED
    BY <2>1, <1>2, StopUnchanged
<1>6. CASE Tick \/ (\E p \in Providers : TimerFires(p)) \/ ToggleFreeMode \/ SetBudget \/ ClearErrors
  BY <1>6, StopUnchanged DEF Tick, TimerFires, ToggleFreeMode, SetBudget, ClearErrors, requests
<1>7. CASE UNCHANGED vars
  BY <1>7, StopUnchanged DEF vars, requests
<1> QED
  BY <1>1, <1>4, <1>5, <1>6, <1>7 DEF Next

LEMMA Initially == Init => TypeOK /\ StopExact
<1> SUFFICES ASSUME Init PROVE TypeOK /\ StopExact
  OBVIOUS
<1>1. NoLegs \in Legs /\ DOMAIN NoLegs = {}
  <2>1. {} \in SUBSET Providers /\ NoLegs \in [{} -> {"open", "usable", "useless"}]
    BY DEF NoLegs
  <2> QED
    BY <2>1 DEF NoLegs, Legs
<1>2. TypeRequests
  <2>1. legs \in [Callers -> Legs] /\ \A c \in Callers : DOMAIN legs[c] = {}
    BY <1>1 DEF Init
  <2>2. rest \in [Callers -> Seq(Providers)]
    BY DEF Init
  <2> QED
    BY <2>1, <2>2 DEF Init, TypeRequests
<1>3. TypeSupervisor /\ TypeUntried /\ TypeSpending /\ TypeLock /\ TypeHealth /\ TypeCounts
  <2>1. TypeSupervisor /\ TypeUntried
    BY TimeFacts DEF Init, TypeSupervisor, TypeUntried
  <2>2. TypeSpending /\ TypeCounts
    <3>1. 0 \in 0 .. MaxRequests /\ 0 \in 0 .. MaxOperator /\ Budgets \subseteq Nat
      BY NumberAssumption
    <3> QED
      BY <3>1 DEF Init, TypeSpending, TypeCounts
  <2>3. TypeLock
    <3>1. TTL + 1 \in 0 .. TTL + 1
      BY NumberAssumption
    <3>2. unlocked \in BOOLEAN /\ cached \in BOOLEAN /\ age \in 0 .. TTL + 1
      BY <3>1 DEF Init
    <3>3. lockedFor \in 0 .. TTL + 1
      BY <3>1, <3>2, TimeFacts DEF Init
    <3> QED
      BY <3>2, <3>3 DEF TypeLock
  <2>4. TypeHealth
    BY TimeFacts DEF Init, TypeHealth
  <2> QED
    BY <2>1, <2>2, <2>3, <2>4
<1>4. StopExact
  BY DEF Init, StopExact
<1> QED
  BY <1>2, <1>3, <1>4, Groups

(* Every variable keeps its type, and the callers that await a provider or  *)
(* a council are those that have one.  The count of low tokens needs the    *)
(* invariant of the supervisor to stay within its limit.                    *)
THEOREM TypeCorrect == Spec => []TypeOK
<1>1. TypeOK /\ StopExact /\ [Next]_vars => (TypeOK /\ StopExact)'
  BY TypeStep, StopStep
<1> QED
  BY Initially, <1>1, PTL DEF Spec

(* A caller that has the supervisor for itself is stopped exactly when its  *)
(* own tokens have been low LowLimit times in a row (agent-stop.ts).        *)
THEOREM StopsCorrectly == Spec => []StopsOnItsOwn
<1>1. TypeOK /\ StopExact /\ [Next]_vars => (TypeOK /\ StopExact)'
  BY TypeStep, StopStep
<1>2. StopExact => StopsOnItsOwn
  BY DEF StopExact, StopsOnItsOwn
<1> QED
  BY Initially, <1>1, <1>2, PTL DEF Spec
-----------------------------------------------------------------------------
(* The lock. *)

(* A setting that is unlocked is not locked, and a cache that still counts  *)
(* was read no longer ago than the setting has been locked.                 *)
FreshLock ==
    /\ unlocked => lockedFor = 0
    /\ cached /\ age <= TTL => lockedFor <= age

LEMMA FreshReads ==
    ASSUME TypeLock, FreshLock, UNCHANGED <<unlocked, lockedFor>>, ReadsLock \/ UNCHANGED lock
    PROVE  FreshLock'
BY NumberAssumption DEF TypeLock, FreshLock, ReadsLock, Unlocked, lock

LEMMA FreshStep == TypeOK /\ FreshLock /\ [Next]_vars => FreshLock'
<1> SUFFICES ASSUME TypeOK, FreshLock, [Next]_vars PROVE FreshLock'
  OBVIOUS
<1> USE Groups
<1>1. ASSUME NEW c \in Callers,
             \/ Submit(c) \/ Answers(c) \/ Fails(c) \/ RateLimited(c)
             \/ StreamsToken(c) \/ Deadline(c)
             \/ \E p \in DOMAIN legs[c] : LegSettles(c, p)
      PROVE  FreshLock'
  <2>1. UNCHANGED settings
    BY <1>1 DEF Submit, Answers, Fails, RateLimited, Continues, StreamsToken, Deadline, LegSettles
  <2>2. ReadsLock \/ UNCHANGED lock
    BY <1>1 DEF Submit, Admitted, CanProceed, Refused, Blocked, Answers, RecordUsage, Fails,
                RateLimited, Continues, StreamsToken, Deadline, LegSettles, Verdict
  <2> QED
    BY <2>1, <2>2, FreshReads DEF settings
<1>2. CASE Tick
  BY <1>2, NumberAssumption DEF Tick, FreshLock, TypeOK, Older
<1>3. CASE ToggleFreeMode
  BY <1>3, NumberAssumption DEF ToggleFreeMode, FreshLock, TypeOK, lock
<1>4. CASE (\E p \in Providers : TimerFires(p)) \/ SetBudget \/ ClearErrors \/ UNCHANGED vars
  BY <1>4 DEF TimerFires, SetBudget, ClearErrors, FreshLock, settings, lock, vars
<1> QED
  BY <1>1, <1>2, <1>3, <1>4 DEF Next

LEMMA UnlockedFacts == TypeOK /\ FreshLock /\ Unlocked => lockedFor <= TTL
BY NumberAssumption DEF TypeOK, FreshLock, Unlocked

(* A step begins calls only to providers that the lock lets through.        *)
LEMMA WalkCalls ==
    ASSUME TypeOK, NEW c \in Callers, phase[c] # "council", NEW chain \in Seq(Providers),
           NEW down, NEW fresh, Walk(c, chain, down, fresh), NEW d \in Callers
    PROVE  \A p \in Calls(d)' \ Calls(d) : Allowed(p)
<1>1. CASE Ends(c, "failed")
  <2>1. c = d => Calls(d)' = {}
    BY <1>1 DEF Ends, Calls, TypeOK, NoLegs
  <2>2. c # d => Calls(d)' = Calls(d)
    BY <1>1 DEF Ends, Calls, TypeOK
  <2> QED
    BY <2>1, <2>2
<1>2. ASSUME NEW i \in Callable(chain, down), Call(c, chain[i]), UNCHANGED legs
      PROVE  \A p \in Calls(d)' \ Calls(d) : Allowed(p)
  <2>1. c = d => Calls(d)' = {chain[i]}
    BY <1>2 DEF Call, Calls, TypeOK
  <2>2. c # d => Calls(d)' = Calls(d)
    BY <1>2 DEF Call, Calls, TypeOK
  <2> QED
    BY <2>1, <2>2 DEF Callable
<1> QED
  BY <1>1, <1>2 DEF Walk

LEMMA CallsStep ==
    ASSUME TypeOK, [Next]_vars, NEW d \in Callers
    PROVE  \A p \in Calls(d)' \ Calls(d) : Allowed(p)
<1>1. ASSUME NEW c \in Callers, Submit(c)
      PROVE  \A p \in Calls(d)' \ Calls(d) : Allowed(p)
  <2>1. phase[c] # "council"
    BY <1>1 DEF Submit, Running
  <2>2. CASE Refused(c)
    BY <2>2 DEF Refused, Ends, Calls, TypeOK, NoLegs
  <2>3. CASE Admitted(c)
    <3>1. PICK chain \in Chains, primary \in Providers, risky \in BOOLEAN :
              IF risky /\ CouncilTriggered(primary)
              THEN Convene(c, primary)
              ELSE LET whole == EffectiveChain(primary, chain) IN
                   Walk(c, whole, exhausted,
                        [untried EXCEPT ![c] = Range(whole) \ (Paid \cup exhausted)])
      BY <2>3 DEF Admitted
    <3>2. CASE Convene(c, primary)
      <4>1. c = d => Calls(d)' = Eligible(primary)
        BY <3>2 DEF Convene, Calls, TypeOK
      <4>2. c # d => Calls(d)' = Calls(d)
        BY <3>2 DEF Convene, Calls, TypeOK
      <4> QED
        BY <4>1, <4>2 DEF Eligible
    <3>3. ASSUME NEW fresh, Walk(c, EffectiveChain(primary, chain), exhausted, fresh)
          PROVE  \A p \in Calls(d)' \ Calls(d) : Allowed(p)
      <4>1. EffectiveChain(primary, chain) \in Seq(Providers)
        BY EffectiveChainType, ProviderAssumption
      <4> QED
        BY <2>1, <3>3, <4>1, WalkCalls
    <3> QED
      BY <3>1, <3>2, <3>3
  <2> QED
    BY <1>1, <2>2, <2>3 DEF Submit
<1>2. ASSUME NEW c \in Callers, NEW outcome \in Outcomes, Ends(c, outcome)
      PROVE  Calls(d)' \subseteq Calls(d)
  <2>1. c = d => Calls(d)' = {}
    BY <1>2 DEF Ends, Calls, TypeOK, NoLegs, Outcomes
  <2>2. c # d => Calls(d)' = Calls(d)
    BY <1>2 DEF Ends, Calls, TypeOK
  <2> QED
    BY <2>1, <2>2
<1>3. ASSUME NEW c \in Callers, NEW settled, Verdict(c, settled)
      PROVE  Calls(d)' \subseteq Calls(d)
  BY <1>2, <1>3 DEF Verdict, Outcomes
<1>4. ASSUME NEW c \in Callers, NEW down, NEW fresh, phase[c] = "calling", Continues(c, down, fresh)
      PROVE  \A p \in Calls(d)' \ Calls(d) : Allowed(p)
  BY <1>4, WalkCalls DEF Continues, TypeOK
<1>5. ASSUME NEW c \in Callers, Answers(c) \/ Fails(c) \/ RateLimited(c) \/ Deadline(c)
      PROVE  \A p \in Calls(d)' \ Calls(d) : Allowed(p)
  BY <1>2, <1>3, <1>4, <1>5 DEF Answers, Fails, RateLimited, Deadline, Outcomes
<1>6. ASSUME NEW c \in Callers, NEW p \in DOMAIN legs[c], LegSettles(c, p)
      PROVE  Calls(d)' \subseteq Calls(d)
  <2>1. CASE \E settled : Verdict(c, settled)
    BY <2>1, <1>3
  <2>2. ASSUME NEW v, legs' = [legs EXCEPT ![c] = [legs[c] EXCEPT ![p] = v]], UNCHANGED <<phase, at>>
        PROVE  Calls(d)' \subseteq Calls(d)
    <3>1. DOMAIN legs'[d] = DOMAIN legs[d]
      BY <2>2 DEF TypeOK
    <3> QED
      BY <3>1, <2>2 DEF Calls
  <2> QED
    BY <1>6, <2>1, <2>2 DEF LegSettles
<1>7. ASSUME UNCHANGED <<phase, at, legs>> PROVE Calls(d)' = Calls(d)
  BY <1>7 DEF Calls
<1>8. ASSUME NEW c \in Callers, StreamsToken(c) PROVE Calls(d)' = Calls(d)
  BY <1>7, <1>8 DEF StreamsToken
<1>9. CASE \/ Tick \/ (\E p \in Providers : TimerFires(p)) \/ ToggleFreeMode \/ SetBudget
           \/ ClearErrors \/ UNCHANGED vars
  BY <1>7, <1>9 DEF Tick, TimerFires, ToggleFreeMode, SetBudget, ClearErrors, requests, vars
<1> QED
  BY <1>1, <1>5, <1>6, <1>8, <1>9 DEF Next

(* Free Mode blocks the paid providers, but for the age of the governor's   *)
(* cache (governor.ts): no call to a paid one begins once the setting has   *)
(* been locked for longer.                                                  *)
THEOREM PaidCallsAreUnlocked == Spec => PaidOnlyUnlocked
<1> DEFINE IInv == TypeOK /\ StopExact /\ FreshLock
<1>1. Init => IInv
  BY Initially DEF Init, FreshLock
<1>2. IInv /\ [Next]_vars => IInv'
  BY TypeStep, StopStep, FreshStep
<1>3. IInv /\ [Next]_vars =>
        \A c \in Callers : (Calls(c)' \ Calls(c)) \cap Paid # {} => lockedFor <= TTL
  BY CallsStep, UnlockedFacts DEF Allowed
<1>4. IInv /\ [Next]_vars =>
        [\A c \in Callers : (Calls(c)' \ Calls(c)) \cap Paid # {} => lockedFor <= TTL]_vars
  BY <1>3
<1> QED
  BY <1>1, <1>2, <1>4, PTL DEF Spec, PaidOnlyUnlocked
-----------------------------------------------------------------------------
(* The timers of exhausted providers. *)

(* An exhausted provider has one timer, the one its handle names, and what  *)
(* it has left and what has passed make the whole delay; others have none.  *)
TimersHeld ==
    \A p \in Providers :
        IF p \in exhausted
        THEN /\ timers[p] = {handle[p]}
             /\ handle[p] \in 0 .. ResetDelay /\ handle[p] + downFor[p] = ResetDelay
        ELSE timers[p] = {} /\ handle[p] = NoTimer

LEMMA HeldUnchanged ==
    ASSUME TimersHeld, UNCHANGED health
    PROVE  TimersHeld'
BY DEF TimersHeld, health

LEMMA HeldMark ==
    ASSUME TypeOK, TimersHeld, NEW p \in Providers, MarkExhausted(p)
    PROVE  TimersHeld'
<1>1. CASE p \in exhausted
  BY <1>1, HeldUnchanged DEF MarkExhausted
<1>2. CASE p \notin exhausted
  <2> SUFFICES ASSUME NEW q \in Providers
               PROVE  IF q \in exhausted'
                      THEN /\ timers'[q] = {handle'[q]}
                           /\ handle'[q] \in 0 .. ResetDelay /\ handle'[q] + downFor'[q] = ResetDelay
                      ELSE timers'[q] = {} /\ handle'[q] = NoTimer
    BY DEF TimersHeld
  <2>1. CASE q = p
    <3>1. timers[p] = {} /\ q \in exhausted'
      BY <1>2, <2>1 DEF TimersHeld, MarkExhausted
    <3>2. timers'[p] = {ResetDelay} /\ handle'[p] = ResetDelay /\ downFor'[p] = 0
      BY <1>2, <3>1 DEF MarkExhausted, TypeOK
    <3> QED
      BY <2>1, <3>1, <3>2, NumberAssumption
  <2>2. CASE q # p
    <3>1. /\ q \in exhausted' <=> q \in exhausted
          /\ timers'[q] = timers[q] /\ handle'[q] = handle[q] /\ downFor'[q] = downFor[q]
      BY <1>2, <2>2 DEF MarkExhausted, TypeOK
    <3> QED
      BY <3>1 DEF TimersHeld
  <2> QED
    BY <2>1, <2>2
<1> QED
  BY <1>1, <1>2

LEMMA HeldFires ==
    ASSUME TypeOK, TimersHeld, NEW p \in Providers, TimerFires(p)
    PROVE  TimersHeld' /\ downFor[p] = ResetDelay /\ exhausted \ exhausted' \subseteq {p}
<1>1. p \in exhausted /\ handle[p] = 0 /\ timers[p] = {0} /\ downFor[p] = ResetDelay
  BY NumberAssumption DEF TimersHeld, TimerFires, TypeOK
<1>2. ASSUME NEW q \in Providers
      PROVE  IF q \in exhausted'
             THEN /\ timers'[q] = {handle'[q]}
                  /\ handle'[q] \in 0 .. ResetDelay /\ handle'[q] + downFor'[q] = ResetDelay
             ELSE timers'[q] = {} /\ handle'[q] = NoTimer
  <2>1. CASE q = p
    BY <1>1, <2>1 DEF TimerFires, TypeOK
  <2>2. CASE q # p
    <3>1. /\ q \in exhausted' <=> q \in exhausted
          /\ timers'[q] = timers[q] /\ handle'[q] = handle[q] /\ downFor'[q] = downFor[q]
      BY <2>2 DEF TimerFires, TypeOK
    <3> QED
      BY <3>1 DEF TimersHeld
  <2> QED
    BY <2>1, <2>2
<1> QED
  BY <1>1, <1>2 DEF TimersHeld, TimerFires

LEMMA HeldTick ==
    ASSUME TypeOK, TimersHeld, Tick
    PROVE  TimersHeld'
<1> SUFFICES ASSUME NEW p \in Providers
             PROVE  IF p \in exhausted'
                    THEN /\ timers'[p] = {handle'[p]}
                         /\ handle'[p] \in 0 .. ResetDelay /\ handle'[p] + downFor'[p] = ResetDelay
                    ELSE timers'[p] = {} /\ handle'[p] = NoTimer
  BY DEF TimersHeld
<1>1. /\ exhausted' = exhausted /\ timers'[p] = {Less(n) : n \in timers[p]}
      /\ handle'[p] = Less(handle[p])
      /\ downFor'[p] = IF p \in exhausted THEN Older(downFor[p], ResetDelay) ELSE 0
  BY DEF Tick
<1>2. CASE p \in exhausted
  <2>1. timers'[p] = {handle'[p]}
    BY <1>1, <1>2 DEF TimersHeld
  <2>2. /\ handle[p] \in 0 .. ResetDelay /\ downFor[p] \in 0 .. ResetDelay
        /\ handle[p] + downFor[p] = ResetDelay
    BY <1>2 DEF TimersHeld, TypeOK
  <2>3. ASSUME NEW h \in 0 .. ResetDelay, NEW t \in 0 .. ResetDelay, h + t = ResetDelay
        PROVE  Less(h) \in 0 .. ResetDelay /\ Less(h) + Older(t, ResetDelay) = ResetDelay
    BY <2>3, NumberAssumption DEF Less, Older
  <2>4. handle'[p] = Less(handle[p]) /\ downFor'[p] = Older(downFor[p], ResetDelay)
    BY <1>1, <1>2
  <2>5. /\ Less(handle[p]) \in 0 .. ResetDelay
        /\ Less(handle[p]) + Older(downFor[p], ResetDelay) = ResetDelay
    BY <2>2, <2>3
  <2>6. handle'[p] \in 0 .. ResetDelay /\ handle'[p] + downFor'[p] = ResetDelay
    BY <2>4, <2>5, Zenon
  <2> QED
    BY <1>1, <1>2, <2>1, <2>6
<1>3. CASE p \notin exhausted
  BY <1>1, <1>3, NumberAssumption DEF TimersHeld, Less, NoTimer
<1> QED
  BY <1>2, <1>3

LEMMA HeldClear ==
    ASSUME TypeOK, TimersHeld, ClearErrors
    PROVE  TimersHeld'
<1> SUFFICES ASSUME NEW p \in Providers
             PROVE  timers'[p] = {} /\ handle'[p] = NoTimer
  BY DEF TimersHeld, ClearErrors
<1> QED
  BY DEF TimersHeld, ClearErrors

LEMMA HeldStep ==
    TypeOK /\ TimersHeld /\ [Next]_vars =>
        /\ TimersHeld'
        /\ \A p \in exhausted \ exhausted' : downFor[p] >= ResetDelay \/ operated' # operated
<1> SUFFICES ASSUME TypeOK, TimersHeld, [Next]_vars
             PROVE  /\ TimersHeld'
                    /\ \A p \in exhausted \ exhausted' :
                          downFor[p] >= ResetDelay \/ operated' # operated
  OBVIOUS
<1>1. ASSUME UNCHANGED health
      PROVE  TimersHeld' /\ exhausted \ exhausted' = {}
  BY <1>1, HeldUnchanged DEF health
<1>2. ASSUME NEW c \in Callers,
             \/ Submit(c) \/ Answers(c) \/ Fails(c) \/ StreamsToken(c) \/ Deadline(c)
             \/ \E p \in DOMAIN legs[c] : LegSettles(c, p)
      PROVE  UNCHANGED health
  BY <1>2 DEF Submit, Answers, Fails, StreamsToken, Deadline, LegSettles
<1>3. ASSUME NEW c \in Callers, RateLimited(c)
      PROVE  TimersHeld' /\ exhausted \ exhausted' = {}
  <2>1. at[c] \in Providers
    BY <1>3 DEF RateLimited, TypeOK
  <2>2. MarkExhausted(at[c])
    BY <1>3 DEF RateLimited
  <2>3. exhausted \subseteq exhausted'
    BY <2>2 DEF MarkExhausted, health
  <2> QED
    BY <2>1, <2>2, <2>3, HeldMark
<1>4. CASE Tick
  BY <1>4, HeldTick DEF Tick
<1>5. ASSUME NEW p \in Providers, TimerFires(p)
      PROVE  TimersHeld' /\ downFor[p] = ResetDelay /\ exhausted \ exhausted' \subseteq {p}
  BY <1>5, HeldFires
<1>6. CASE ClearErrors
  BY <1>6, HeldClear DEF ClearErrors, Operator, TypeOK
<1>7. CASE ToggleFreeMode \/ SetBudget \/ UNCHANGED vars
  BY <1>1, <1>7 DEF ToggleFreeMode, SetBudget, vars
<1> QED
  BY <1>1, <1>2, <1>3, <1>4, <1>5, <1>6, <1>7, NumberAssumption DEF Next

(* An exhausted provider is used again when its whole delay has passed or   *)
(* the operator clears it (interceptor.ts): a timer of an exhaustion that   *)
(* was cleared is never left to end a later one.                            *)
THEOREM DelaysAreWhole == Spec => FullDelay
<1> DEFINE IInv == TypeOK /\ StopExact /\ TimersHeld
<1>1. Init => IInv
  BY Initially DEF Init, TimersHeld
<1>2. IInv /\ [Next]_vars => IInv'
  BY TypeStep, StopStep, HeldStep
<1>3. IInv /\ [Next]_vars =>
        [\A p \in exhausted \ exhausted' :
            downFor[p] >= ResetDelay \/ operated' # operated]_vars
  BY HeldStep
<1> QED
  BY <1>1, <1>2, <1>3, PTL DEF Spec, FullDelay
-----------------------------------------------------------------------------
(* The fallback chain leaves nothing out. *)

(* What a caller has left untried lies ahead of it in its chain, is free    *)
(* and in order.                                                            *)
UntriedAhead(c, untriedOf, restOf, down) ==
    /\ phase[c] = "calling" => untriedOf[c] \subseteq Range(restOf[c]) \ (Paid \cup down)
    /\ phase[c] = "council" => untriedOf[c] = {}
UntriedHeld == \A c \in Callers : UntriedAhead(c, untried, rest, exhausted)

LEMMA WalkUntried ==
    ASSUME TypeOK, NEW c \in Callers, phase[c] # "council", NEW chain \in Seq(Providers),
           NEW down, exhausted' \subseteq down,
           NEW fresh \in [Callers -> SUBSET Providers],
           fresh[c] \subseteq Range(chain) \ (Paid \cup down),
           \A d \in Callers \ {c} : UntriedAhead(d, fresh, rest, down),
           Walk(c, chain, down, fresh)
    PROVE  /\ UntriedHeld'
           /\ phase'[c] = "failed" => untried'[c] = {}
           /\ \A d \in Callers \ {c} : phase'[d] = phase[d]
<1>1. ASSUME NEW p \in fresh[c]
      PROVE  \E j \in Callable(chain, down) : chain[j] = p
  <2>1. PICK j \in DOMAIN chain : chain[j] = p
    BY DEF Range
  <2> QED
    BY <2>1 DEF Callable, Allowed
<1>2. CASE Callable(chain, down) = {} /\ Ends(c, "failed") /\ untried' = fresh
  <2>1. fresh[c] = {}
    BY <1>1, <1>2
  <2>2. \A d \in Callers \ {c} : phase'[d] = phase[d] /\ rest'[d] = rest[d]
    BY <1>2 DEF Ends, TypeOK
  <2>3. phase'[c] = "failed"
    BY <1>2 DEF Ends, TypeOK
  <2> QED
    BY <1>2, <2>1, <2>2, <2>3 DEF UntriedHeld, UntriedAhead
<1>3. ASSUME NEW i \in Callable(chain, down), \A j \in Callable(chain, down) : i <= j,
             Call(c, chain[i]),
             rest' = [rest EXCEPT ![c] = SubSeq(chain, i + 1, Len(chain))],
             untried' = [fresh EXCEPT ![c] = @ \ {chain[i]}]
      PROVE  /\ UntriedHeld'
             /\ phase'[c] = "failed" => untried'[c] = {}
             /\ \A d \in Callers \ {c} : phase'[d] = phase[d]
  <2> DEFINE after == SubSeq(chain, i + 1, Len(chain))
  <2>1. i \in 1 .. Len(chain)
    BY DEF Callable
  <2>2. \A j \in (i + 1) .. Len(chain) : j - i \in DOMAIN after /\ after[j - i] = chain[j]
    BY <2>1, SubSeqProperties
  <2>3. phase'[c] = "calling" /\ untried'[c] = fresh[c] \ {chain[i]} /\ rest'[c] = after
    BY <1>3 DEF Call, TypeOK
  <2> HIDE DEF after
  <2>4. ASSUME NEW p \in untried'[c] PROVE p \in Range(after)
    <3>1. p \in fresh[c] /\ p # chain[i]
      BY <2>3
    <3>2. PICK j \in Callable(chain, down) : chain[j] = p
      BY <1>1, <3>1
    <3>3. j \in 1 .. Len(chain) /\ i <= j /\ i # j
      BY <1>3, <3>1, <3>2 DEF Callable
    <3>4. j \in (i + 1) .. Len(chain)
      BY <2>1, <3>3
    <3>5. j - i \in DOMAIN after /\ after[j - i] = p
      BY <2>2, <3>2, <3>4
    <3> QED
      BY <3>5 DEF Range
  <2>5. \A d \in Callers \ {c} : phase'[d] = phase[d] /\ rest'[d] = rest[d] /\ untried'[d] = fresh[d]
    BY <1>3 DEF Call, TypeOK
  <2> QED
    BY <2>3, <2>4, <2>5 DEF UntriedHeld, UntriedAhead
<1> QED
  BY <1>2, <1>3 DEF Walk

LEMMA UntriedUnchanged ==
    ASSUME UntriedHeld, UNCHANGED <<phase, rest, untried>>, exhausted' \subseteq exhausted
    PROVE  UntriedHeld' /\ \A c \in Callers : phase'[c] = phase[c]
BY DEF UntriedHeld, UntriedAhead

(* The end of a request.                                                    *)
LEMMA EndsUntried ==
    ASSUME TypeOK, UntriedHeld, NEW c \in Callers, NEW outcome \in Outcomes, Ends(c, outcome),
           \A d \in Callers \ {c} : untried'[d] = untried[d], UNCHANGED exhausted
    PROVE  /\ UntriedHeld' /\ phase'[c] = outcome
           /\ \A d \in Callers \ {c} : phase'[d] = phase[d]
<1>1. \A d \in Callers \ {c} : phase'[d] = phase[d] /\ rest'[d] = rest[d]
  BY DEF Ends, TypeOK
<1>2. phase'[c] = outcome
  BY DEF Ends, TypeOK
<1> QED
  BY <1>1, <1>2 DEF UntriedHeld, UntriedAhead, Outcomes

LEMMA UntriedStep ==
    TypeOK /\ UntriedHeld /\ [Next]_vars =>
        /\ UntriedHeld'
        /\ \A c \in Callers : phase[c] # "failed" /\ phase'[c] = "failed" => untried'[c] = {}
<1> DEFINE Goal == /\ UntriedHeld'
                   /\ \A c \in Callers :
                         phase[c] # "failed" /\ phase'[c] = "failed" => untried'[c] = {}
<1> SUFFICES ASSUME TypeOK, UntriedHeld, [Next]_vars PROVE Goal
  OBVIOUS
<1>1. ASSUME UNCHANGED <<phase, rest, untried>>, exhausted' \subseteq exhausted PROVE Goal
  BY <1>1, UntriedUnchanged
<1>2. ASSUME NEW c \in Callers, Submit(c) PROVE Goal
  <2>1. exhausted' = exhausted /\ phase[c] # "council"
    BY <1>2 DEF Submit, health, Running
  <2>2. CASE Refused(c)
    BY <2>1, <2>2, EndsUntried DEF Refused, Outcomes, TypeOK
  <2>3. CASE Admitted(c)
    <3>1. PICK chain \in Chains, primary \in Providers, risky \in BOOLEAN :
              IF risky /\ CouncilTriggered(primary)
              THEN Convene(c, primary)
              ELSE LET whole == EffectiveChain(primary, chain) IN
                   Walk(c, whole, exhausted,
                        [untried EXCEPT ![c] = Range(whole) \ (Paid \cup exhausted)])
      BY <2>3 DEF Admitted
    <3> DEFINE whole == EffectiveChain(primary, chain)
               fresh == [untried EXCEPT ![c] = Range(whole) \ (Paid \cup exhausted)]
    <3>2. CASE Convene(c, primary)
      <4>1. phase' = [phase EXCEPT ![c] = "council"] /\ untried' = [untried EXCEPT ![c] = {}] /\ rest' = rest
        BY <3>2 DEF Convene
      <4>2. phase'[c] = "council" /\ untried'[c] = {}
        BY <4>1 DEF TypeOK
      <4>3. \A d \in Callers \ {c} : phase'[d] = phase[d] /\ untried'[d] = untried[d]
        BY <4>1 DEF TypeOK
      <4> QED
        BY <2>1, <4>1, <4>2, <4>3 DEF UntriedHeld, UntriedAhead
    <3>3. CASE Walk(c, whole, exhausted, fresh)
      <4>1. whole \in Seq(Providers)
        BY EffectiveChainType, ProviderAssumption
      <4>2. Range(whole) \subseteq Providers
        BY <4>1 DEF Range
      <4>3. fresh \in [Callers -> SUBSET Providers] /\ fresh[c] \subseteq Range(whole) \ (Paid \cup exhausted)
        BY <4>2 DEF TypeOK
      <4>4. \A d \in Callers \ {c} : UntriedAhead(d, fresh, rest, exhausted)
        BY DEF TypeOK, UntriedHeld, UntriedAhead
      <4> HIDE DEF whole, fresh
      <4> QED
        BY <2>1, <3>3, <4>1, <4>3, <4>4, WalkUntried
    <3> QED
      BY <3>1, <3>2, <3>3
  <2> QED
    BY <1>2, <2>2, <2>3 DEF Submit
<1>3. ASSUME NEW c \in Callers, Answers(c) PROVE Goal
  BY <1>3, EndsUntried DEF Answers, Outcomes, health, TypeOK
<1>4. ASSUME NEW c \in Callers, Fails(c) PROVE Goal
  <2>1. /\ rest[c] \in Seq(Providers) /\ untried \in [Callers -> SUBSET Providers]
        /\ phase[c] # "council"
    BY <1>4 DEF Fails, TypeOK
  <2>2. untried[c] \subseteq Range(rest[c]) \ (Paid \cup exhausted)
    BY <1>4 DEF Fails, UntriedHeld, UntriedAhead
  <2>3. Walk(c, rest[c], exhausted, untried) /\ exhausted' = exhausted
    BY <1>4 DEF Fails, Continues, health
  <2> QED
    BY <2>1, <2>2, <2>3, WalkUntried DEF UntriedHeld
<1>5. ASSUME NEW c \in Callers, RateLimited(c) PROVE Goal
  <2> DEFINE down == exhausted \cup {at[c]}
             fresh == [d \in Callers |-> untried[d] \ {at[c]}]
  <2>1. rest[c] \in Seq(Providers) /\ fresh \in [Callers -> SUBSET Providers] /\ phase[c] # "council"
    BY <1>5 DEF RateLimited, TypeOK
  <2>2. \A d \in Callers : UntriedAhead(d, fresh, rest, down)
    BY DEF UntriedHeld, UntriedAhead
  <2>3. fresh[c] \subseteq Range(rest[c]) \ (Paid \cup down)
    BY <1>5, <2>2 DEF RateLimited, UntriedAhead
  <2>4. Walk(c, rest[c], down, fresh) /\ exhausted' \subseteq down
    BY <1>5 DEF RateLimited, Continues, MarkExhausted, health
  <2> HIDE DEF down, fresh
  <2> QED
    BY <2>1, <2>2, <2>3, <2>4, WalkUntried
<1>6. ASSUME NEW c \in Callers, NEW settled, phase[c] = "council", Verdict(c, settled),
             UNCHANGED <<health, untried>>
      PROVE  Goal
  <2>1. untried'[c] = {} /\ exhausted' = exhausted
    BY <1>6 DEF UntriedHeld, UntriedAhead, health
  <2> QED
    BY <1>6, <2>1, EndsUntried DEF Verdict, Outcomes
<1>7. ASSUME NEW c \in Callers, StreamsToken(c) \/ Deadline(c) PROVE Goal
  BY <1>1, <1>6, <1>7 DEF StreamsToken, Deadline, health
<1>8. ASSUME NEW c \in Callers, NEW p \in DOMAIN legs[c], LegSettles(c, p) PROVE Goal
  BY <1>1, <1>6, <1>8 DEF LegSettles, health
<1>9. CASE \/ Tick \/ (\E p \in Providers : TimerFires(p)) \/ ToggleFreeMode \/ SetBudget
           \/ ClearErrors \/ UNCHANGED vars
  <2>1. UNCHANGED <<phase, rest, untried>> /\ exhausted' \subseteq exhausted
    BY <1>9 DEF Tick, TimerFires, ToggleFreeMode, SetBudget, ClearErrors, requests, health, vars
  <2> QED
    BY <1>1, <2>1
<1> QED
  BY <1>2, <1>3, <1>4, <1>5, <1>7, <1>8, <1>9 DEF Next

(* A request that is given up has called every free provider of its chain   *)
(* that was in order since it began (engine.ts, the fallback loop), however *)
(* other requests and the reset timers change the health of the providers.  *)
THEOREM ChainsAreExhausted == Spec => NothingLeftUntried
<1> DEFINE IInv == TypeOK /\ StopExact /\ UntriedHeld
<1>1. Init => IInv
  BY Initially DEF Init, UntriedHeld, UntriedAhead
<1>2. IInv /\ [Next]_vars => IInv'
  BY TypeStep, StopStep, UntriedStep
<1>3. IInv /\ [Next]_vars =>
        [\A c \in Callers :
            phase[c] # "failed" /\ phase'[c] = "failed" => untried'[c] = {}]_vars
  BY UntriedStep
<1> QED
  BY <1>1, <1>2, <1>3, PTL DEF Spec, NothingLeftUntried
-----------------------------------------------------------------------------
(* The council. *)

(* A council fails only without any usable answer: what arrived before the  *)
(* deadline counts (council.ts).                                            *)
THEOREM CouncilsSalvage == Spec => CouncilSalvages
<1> DEFINE Salvaged == \A c \in Callers : phase[c] = "council" /\ phase'[c] = "failed" => Voices(c) = {}
<1>1. ASSUME TypeOK, [Next]_vars, NEW c \in Callers, phase[c] = "council", phase'[c] = "failed"
      PROVE  Voices(c) = {}
  <2>1. ASSUME NEW d \in Callers, NEW outcome \in Outcomes, Ends(d, outcome)
        PROVE  d = c /\ outcome = "failed"
    BY <1>1, <2>1 DEF Ends, TypeOK
  <2>2. ASSUME NEW d \in Callers, phase[d] # "council",
               \/ \E p \in Providers : Call(d, p)
               \/ \E outcome \in Outcomes : Ends(d, outcome)
        PROVE  FALSE
    BY <1>1, <2>1, <2>2 DEF Call, TypeOK
  <2>3. ASSUME NEW d \in Callers, NEW settled, Verdict(d, settled)
        PROVE  d = c /\ ~\E p \in DOMAIN settled : settled[p] = "usable"
    BY <2>1, <2>3 DEF Verdict, Outcomes
  <2>4. ASSUME NEW d \in Callers, NEW chain \in Seq(Providers), NEW down, NEW fresh,
               phase[d] # "council", Walk(d, chain, down, fresh)
        PROVE  FALSE
    BY <2>2, <2>4 DEF Walk, Callable, Outcomes
  <2>5. ASSUME NEW d \in Callers, Submit(d) PROVE FALSE
    <3>1. phase[d] # "council"
      BY <2>5 DEF Submit, Running
    <3>2. CASE Refused(d)
      BY <2>2, <3>1, <3>2 DEF Refused, Outcomes
    <3>3. CASE Admitted(d)
      <4>1. PICK chain \in Chains, primary \in Providers :
               Convene(d, primary) \/ \E fresh : Walk(d, EffectiveChain(primary, chain), exhausted, fresh)
        BY <3>3 DEF Admitted
      <4>2. EffectiveChain(primary, chain) \in Seq(Providers)
        BY EffectiveChainType, ProviderAssumption
      <4>3. ~Convene(d, primary)
        BY <1>1 DEF Convene, TypeOK
      <4> QED
        BY <2>4, <3>1, <4>1, <4>2, <4>3
    <3> QED
      BY <2>5, <3>2, <3>3 DEF Submit
  <2>6. ASSUME NEW d \in Callers, Answers(d) \/ Fails(d) \/ RateLimited(d) PROVE FALSE
    <3>1. phase[d] # "council" /\ rest[d] \in Seq(Providers)
      <4>1. phase[d] = "calling"
        BY <2>6 DEF Answers, Fails, RateLimited
      <4>2. rest \in [Callers -> Seq(Providers)]
        BY <1>1 DEF TypeOK
      <4> QED
        BY <4>1, <4>2
    <3>2. ~Answers(d)
      BY <2>2, <3>1 DEF Answers, Outcomes
    <3>3. ASSUME NEW down, NEW fresh, Continues(d, down, fresh) PROVE FALSE
      BY <2>4, <3>1, <3>3 DEF Continues
    <3> QED
      BY <2>6, <3>2, <3>3 DEF Fails, RateLimited
  <2>7. ASSUME UNCHANGED phase PROVE FALSE
    BY <1>1, <2>7
  <2>8. ASSUME NEW d \in Callers, Deadline(d) PROVE Voices(c) = {}
    BY <2>3, <2>8 DEF Deadline, Voices
  <2>9. ASSUME NEW d \in Callers, NEW p \in DOMAIN legs[d], LegSettles(d, p) PROVE Voices(c) = {}
    <3>1. PICK v : Verdict(d, [legs[d] EXCEPT ![p] = v]) /\ legs[d][p] = "open"
      BY <2>7, <2>9 DEF LegSettles
    <3>2. d = c /\ \A q \in DOMAIN legs[c] \ {p} : legs[c][q] # "usable"
      BY <2>3, <3>1
    <3> QED
      BY <3>1, <3>2 DEF Voices
  <2> QED
    <3>1. CASE \/ Tick \/ (\E p \in Providers : TimerFires(p)) \/ ToggleFreeMode \/ SetBudget
               \/ ClearErrors \/ (\E d \in Callers : StreamsToken(d)) \/ UNCHANGED vars
      <4>1. UNCHANGED phase
        BY <3>1 DEF StreamsToken, Tick, TimerFires, ToggleFreeMode, SetBudget, ClearErrors, requests, vars
      <4> QED
        BY <2>7, <4>1
    <3> QED
      BY <1>1, <2>5, <2>6, <2>8, <2>9, <3>1 DEF Next
<1>2. TypeOK /\ [Next]_vars => [Salvaged]_vars
  BY <1>1
<1> QED
  BY TypeCorrect, <1>2, PTL DEF Spec, CouncilSalvages
-----------------------------------------------------------------------------
(* The budget. *)

Resting == {c \in Callers : phase[c] \notin Running}

(* While the operator has touched nothing, a locked governor never sees an  *)
(* unlocked setting or another budget, and its councils are free.           *)
Locked == operated = 0 /\ ~unlocked
SpentWithin ==
    Locked =>
        /\ ~cached /\ ceiling = budget
        /\ \A c \in Callers : DOMAIN legs[c] \subseteq Providers \ Paid
        /\ used + Estimate <= ceiling + MostExpensive * Cardinality(Resting)

LEMMA ExpenseFacts ==
    /\ MostExpensive \in Nat /\ Estimate <= MostExpensive
    /\ \A S \in SUBSET (Providers \ Paid) :
          /\ Cardinality(S) \in Nat
          /\ Estimate * Cardinality(S) <= MostExpensive
<1> DEFINE free == Cardinality(Providers \ Paid)
           most == IF free > 1 THEN free ELSE 1
<1>1. IsFiniteSet(Providers \ Paid)
  BY FS_Subset, ProviderAssumption
<1>2. free \in Nat
  BY <1>1, FS_CardinalityType
<1>3. \A S \in SUBSET (Providers \ Paid) : Cardinality(S) \in Nat /\ Cardinality(S) <= free
  BY <1>1, FS_Subset, FS_CardinalityType
<1>4. most \in Nat /\ 1 <= most /\ free <= most
  BY <1>2
<1>5. MostExpensive = Estimate * most
  BY DEF MostExpensive
<1> HIDE DEF most, free
<1>6. \A n \in 0 .. most : Estimate * n <= Estimate * most
  <2> SUFFICES ASSUME NEW n \in 0 .. most PROVE Estimate * n <= Estimate * most
    OBVIOUS
  <2>1. Estimate * most = Estimate * n + Estimate * (most - n)
    BY <1>4, NumberAssumption
  <2>2. most - n \in Nat
    BY <1>4
  <2>3. Estimate * (most - n) >= 0 /\ Estimate * n \in Nat /\ Estimate * (most - n) \in Nat
    BY <1>4, <2>2, NumberAssumption
  <2> QED
    BY <2>1, <2>3
<1>7. Estimate * most \in Nat
  BY <1>4, NumberAssumption
<1>8. Estimate <= MostExpensive
  BY <1>4, <1>5, <1>6, NumberAssumption
<1>9. ASSUME NEW S \in SUBSET (Providers \ Paid)
      PROVE  Cardinality(S) \in 0 .. most
  BY <1>2, <1>3, <1>4
<1> QED
  BY <1>3, <1>5, <1>6, <1>7, <1>8, <1>9

LEMMA RestingFacts ==
    /\ IsFiniteSet(Resting) /\ Cardinality(Resting) \in Nat
    /\ IsFiniteSet(Resting') /\ Cardinality(Resting') \in Nat
<1>1. Resting \subseteq Callers /\ Resting' \subseteq Callers
  BY DEF Resting
<1> QED
  BY <1>1, FS_Subset, FS_CardinalityType, ProviderAssumption

(* A caller whose request ends is one that rests more.                      *)
LEMMA EndsRests ==
    ASSUME TypeOK, NEW c \in Callers, phase[c] \in Running,
           NEW outcome \in Outcomes, Ends(c, outcome)
    PROVE  Cardinality(Resting') = Cardinality(Resting) + 1
<1>1. Resting' = Resting \cup {c} /\ c \notin Resting
  BY DEF Resting, Ends, TypeOK, Outcomes, Running
<1> QED
  BY <1>1, RestingFacts, FS_AddElement

(* A request that takes no more than its share keeps within the bound.      *)
LEMMA EndsWithin ==
    ASSUME TypeOK, SpentWithin, Locked, NEW c \in Callers, phase[c] \in Running,
           NEW outcome \in Outcomes, Ends(c, outcome),
           NEW tokens \in Nat, tokens <= MostExpensive,
           used' = used + tokens, ceiling' = ceiling
    PROVE  used' + Estimate <= ceiling' + MostExpensive * Cardinality(Resting')
<1> DEFINE n == Cardinality(Resting)
<1>1. Cardinality(Resting') = n + 1 /\ n \in Nat
  BY EndsRests, RestingFacts
<1>2. used + Estimate <= ceiling + MostExpensive * n
  BY DEF SpentWithin
<1> HIDE DEF n
<1>3. MostExpensive * (n + 1) = MostExpensive * n + MostExpensive
  BY <1>1, ExpenseFacts
<1>4. MostExpensive * n \in Nat /\ used \in Nat /\ ceiling \in Nat /\ Estimate \in Nat /\ MostExpensive \in Nat
  BY <1>1, ExpenseFacts, NumberAssumption DEF TypeOK
<1>5. used + tokens + Estimate <= ceiling + (MostExpensive * n + MostExpensive)
  BY <1>2, <1>4
<1> QED
  BY <1>1, <1>3, <1>5

(* The price of a council that can be had while the setting is locked.      *)
LEMMA CouncilPrice ==
    ASSUME SpentWithin, Locked, NEW c \in Callers, NEW settled, DOMAIN settled = DOMAIN legs[c]
    PROVE  /\ Estimate * Cardinality(DOMAIN settled) \in Nat
           /\ Estimate * Cardinality(DOMAIN settled) <= MostExpensive
<1>1. DOMAIN settled \in SUBSET (Providers \ Paid)
  BY DEF SpentWithin
<1> QED
  BY <1>1, ExpenseFacts, NumberAssumption

(* The bound holds again as soon as a request has been admitted.            *)
LEMMA AdmittedWithin ==
    ASSUME used' + Estimate <= ceiling', used' \in Nat, ceiling' \in Nat
    PROVE  used' + Estimate <= ceiling' + MostExpensive * Cardinality(Resting')
<1>1. MostExpensive * Cardinality(Resting') \in Nat
  BY RestingFacts, ExpenseFacts
<1>2. \A u, e, m \in Nat, b \in Nat : u + e <= b => u + e <= b + m
  OBVIOUS
<1>3. Estimate \in Nat
  BY NumberAssumption
<1> QED
  BY <1>1, <1>2, <1>3

LEMMA RestsUnchanged ==
    ASSUME SpentWithin, Locked, UNCHANGED <<used, ceiling>>, Resting' = Resting
    PROVE  used' + Estimate <= ceiling' + MostExpensive * Cardinality(Resting')
BY DEF SpentWithin

LEMMA WalkRests ==
    ASSUME TypeOK, NEW c \in Callers, phase[c] = "calling", NEW chain \in Seq(Providers), NEW down,
           NEW fresh, Walk(c, chain, down, fresh)
    PROVE  Resting' = Resting \/ Ends(c, "failed")
<1>1. ASSUME NEW p, Call(c, p) PROVE Resting' = Resting
  BY <1>1 DEF Call, Resting, TypeOK, Running
<1> QED
  BY <1>1 DEF Walk

LEMMA LegsUnchanged ==
    ASSUME SpentWithin, Locked, \A c \in Callers : DOMAIN legs'[c] \subseteq DOMAIN legs[c]
    PROVE  \A c \in Callers : DOMAIN legs'[c] \subseteq Providers \ Paid
BY DEF SpentWithin

LEMMA EndsLegs ==
    ASSUME TypeOK, NEW c \in Callers, NEW outcome, Ends(c, outcome)
    PROVE  \A d \in Callers : DOMAIN legs'[d] \subseteq DOMAIN legs[d]
BY DEF Ends, TypeOK, NoLegs

(* The settings cannot have been other than they are while the operator     *)
(* has touched nothing.                                                     *)
LEMMA LockedStays ==
    ASSUME TypeOK, SpentWithin, [Next]_vars, Locked'
    PROVE  /\ Locked /\ budget' = budget /\ ~Unlocked
           /\ ~ToggleFreeMode /\ ~SetBudget /\ ~ClearErrors
<1>1. ~Operator
  BY DEF Operator, Locked, TypeOK
<1>2. ~ToggleFreeMode /\ ~SetBudget /\ ~ClearErrors
  BY <1>1 DEF ToggleFreeMode, SetBudget, ClearErrors
<1>3. UNCHANGED <<operated, unlocked, budget>>
  BY <1>2 DEF Next, Submit, Answers, Fails, RateLimited, Continues, StreamsToken, Deadline, LegSettles,
              Tick, TimerFires, settings, vars
<1> QED
  BY <1>2, <1>3 DEF Locked, SpentWithin, Unlocked

LEMMA LockedReads ==
    ASSUME TypeOK, SpentWithin, [Next]_vars, Locked'
    PROVE  ~cached' /\ ceiling' = budget'
<1>1. ~Unlocked /\ ~cached /\ ceiling = budget /\ budget' = budget
      /\ ~ToggleFreeMode /\ ~SetBudget /\ ~ClearErrors
  BY LockedStays DEF SpentWithin
<1> DEFINE Kept == (ceiling' = ceiling \/ ceiling' \in {ceiling, budget}) /\ (ReadsLock \/ cached' = cached)
<1>2. ASSUME NEW c \in Callers, Submit(c) \/ Answers(c) \/ Fails(c) \/ RateLimited(c) PROVE Kept
  <2>1. CASE Submit(c)
    BY <1>1, <2>1, Zenon DEF Submit, Admitted, CanProceed, Refused, Blocked
  <2>2. CASE Answers(c)
    BY <2>2, Zenon DEF Answers, RecordUsage
  <2>3. ASSUME NEW d, NEW fresh, Continues(c, d, fresh) PROVE Kept
    BY <2>3, Zenon DEF Continues, governor, lock
  <2>4. CASE Fails(c) \/ RateLimited(c)
    BY <2>3, <2>4, Zenon DEF Fails, RateLimited
  <2> QED
    BY <1>2, <2>1, <2>2, <2>4
<1>3. ASSUME NEW c \in Callers, StreamsToken(c) \/ Deadline(c) \/ \E p \in DOMAIN legs[c] : LegSettles(c, p)
      PROVE  Kept
  <2>1. CASE StreamsToken(c)
    BY <2>1, Zenon DEF StreamsToken, governor, lock
  <2>2. ASSUME NEW settled, Verdict(c, settled) PROVE Kept
    BY <2>2, Zenon DEF Verdict, RecordUsage, governor, lock
  <2>3. CASE Deadline(c) \/ \E p \in DOMAIN legs[c] : LegSettles(c, p)
    BY <2>2, <2>3, Zenon DEF Deadline, LegSettles, governor, lock
  <2> QED
    BY <1>3, <2>1, <2>3
<1>4. ASSUME Tick \/ (\E p \in Providers : TimerFires(p)) \/ UNCHANGED vars PROVE Kept
  BY <1>4, Zenon DEF Tick, TimerFires, vars, governor, lock
<1>5. Kept
  <2> HIDE DEF Kept
  <2> QED
    BY <1>1, <1>2, <1>3, <1>4, Zenon DEF Next
<1> QED
  BY <1>1, <1>5 DEF ReadsLock

LEMMA SpentStep == TypeOK /\ SpentWithin /\ [Next]_vars => SpentWithin'
<1> DEFINE Bound == used + Estimate <= ceiling + MostExpensive * Cardinality(Resting)
           Free == \A c \in Callers : DOMAIN legs[c] \subseteq Providers \ Paid
<1> SUFFICES ASSUME TypeOK, SpentWithin, [Next]_vars, Locked'
             PROVE  ~cached' /\ ceiling' = budget' /\ Free' /\ Bound'
  BY DEF SpentWithin
<1>1. Locked /\ ~Unlocked /\ budget' = budget
  BY LockedStays
<1>2. ~cached' /\ ceiling' = budget'
  BY LockedReads
<1>3. /\ used \in Nat /\ ceiling \in Nat /\ Estimate \in Nat
      /\ Estimate <= MostExpensive /\ MostExpensive \in Nat
  BY ExpenseFacts, NumberAssumption DEF TypeOK
<1>4. ASSUME UNCHANGED <<phase, used, ceiling>>,
             \A c \in Callers : DOMAIN legs'[c] \subseteq DOMAIN legs[c]
      PROVE  Free' /\ Bound'
  <2>1. Resting' = Resting
    BY <1>4 DEF Resting
  <2> QED
    BY <1>1, <1>4, <2>1, LegsUnchanged, RestsUnchanged
<1>5. ASSUME NEW c \in Callers, Refused(c), phase[c] \notin Running PROVE Free' /\ Bound'
  <2>1. Resting' = Resting
    BY <1>5 DEF Refused, Ends, Resting, TypeOK, Running
  <2>2. ceiling' = ceiling /\ used' = used
    BY <1>1, <1>2, <1>5 DEF Refused, SpentWithin
  <2>3. Ends(c, "refused")
    BY <1>5 DEF Refused
  <2> QED
    BY <1>1, <2>1, <2>2, <2>3, EndsLegs, LegsUnchanged, RestsUnchanged
<1>6. ASSUME NEW c \in Callers, Admitted(c) PROVE Free' /\ Bound'
  <2>1. used' + Estimate <= ceiling' /\ used' \in Nat /\ ceiling' \in Nat
    <3>1. ceiling' = ceiling
      BY <1>1, <1>2 DEF SpentWithin
    <3> QED
      BY <1>1, <1>3, <1>6, <3>1 DEF Admitted, CanProceed
  <2>2. Bound'
    BY <2>1, AdmittedWithin
  <2>3. PICK chain \in Chains, primary \in Providers :
           Convene(c, primary) \/ \E fresh : Walk(c, EffectiveChain(primary, chain), exhausted, fresh)
    BY <1>6 DEF Admitted
  <2>4. CASE Convene(c, primary)
    <3>1. Eligible(primary) \subseteq Providers \ Paid
      BY <1>1, EligibleFacts DEF Eligible, Allowed
    <3>2. ASSUME NEW d \in Callers PROVE DOMAIN legs'[d] \subseteq Providers \ Paid
      <4>1. d = c => legs'[d] = [p \in Eligible(primary) |-> "open"]
        BY <2>4 DEF Convene, TypeOK
      <4>2. d # c => legs'[d] = legs[d]
        BY <2>4 DEF Convene, TypeOK
      <4> QED
        BY <1>1, <3>1, <4>1, <4>2 DEF SpentWithin
    <3> QED
      BY <2>2, <3>2
  <2>5. CASE \E fresh : Walk(c, EffectiveChain(primary, chain), exhausted, fresh)
    <3>1. \A d \in Callers : DOMAIN legs'[d] \subseteq DOMAIN legs[d]
      BY <2>5, EndsLegs DEF Walk
    <3> QED
      BY <1>1, <2>2, <3>1, LegsUnchanged
  <2> QED
    BY <2>3, <2>4, <2>5
<1>7. ASSUME NEW c \in Callers, phase[c] \in Running, NEW outcome \in Outcomes, Ends(c, outcome),
             UNCHANGED governor
      PROVE  Free' /\ Bound'
  <2>1. used' = used + 0 /\ 0 \in Nat /\ 0 <= MostExpensive /\ ceiling' = ceiling
    BY <1>3, <1>7 DEF governor
  <2> QED
    BY <1>1, <1>7, <2>1, EndsWithin, EndsLegs, LegsUnchanged
<1>8. ASSUME NEW c \in Callers, phase[c] = "calling", NEW down, NEW fresh, Continues(c, down, fresh)
      PROVE  Free' /\ Bound'
  <2>1. rest[c] \in Seq(Providers) /\ phase[c] \in Running
    BY <1>8 DEF TypeOK, Running
  <2>2. Walk(c, rest[c], down, fresh) /\ UNCHANGED governor
    BY <1>8 DEF Continues
  <2>3. CASE Ends(c, "failed")
    BY <1>7, <2>1, <2>2, <2>3 DEF Outcomes
  <2>4. CASE UNCHANGED legs /\ Resting' = Resting
    BY <1>1, <2>2, <2>4, LegsUnchanged, RestsUnchanged DEF governor
  <2> QED
    BY <1>8, <2>1, <2>2, <2>3, <2>4, WalkRests DEF Walk
<1>9. ASSUME NEW c \in Callers, Answers(c) PROVE Free' /\ Bound'
  BY <1>1, <1>3, <1>9, EndsWithin, EndsLegs, LegsUnchanged DEF Answers, RecordUsage, Outcomes, Running
<1>10. ASSUME NEW c \in Callers, phase[c] = "council", NEW settled, DOMAIN settled = DOMAIN legs[c],
              Verdict(c, settled)
       PROVE  Free' /\ Bound'
  <2>1. phase[c] \in Running
    BY <1>10 DEF Running
  <2>2. CASE Ends(c, "failed") /\ UNCHANGED governor
    BY <1>7, <2>1, <2>2 DEF Outcomes
  <2>3. CASE Ends(c, "answered") /\ RecordUsage(Estimate * Cardinality(DOMAIN settled))
    BY <1>1, <1>10, <2>1, <2>3, CouncilPrice, EndsWithin, EndsLegs, LegsUnchanged DEF RecordUsage, Outcomes
  <2> QED
    BY <1>10, <2>2, <2>3 DEF Verdict
<1>11. ASSUME NEW c \in Callers, NEW p \in DOMAIN legs[c], LegSettles(c, p) PROVE Free' /\ Bound'
  <2>1. PICK v : LET settled == [legs[c] EXCEPT ![p] = v] IN
                 \/ legs' = [legs EXCEPT ![c] = settled] /\ UNCHANGED <<phase, governor>>
                 \/ Verdict(c, settled)
    BY <1>11 DEF LegSettles
  <2>2. CASE legs' = [legs EXCEPT ![c] = [legs[c] EXCEPT ![p] = v]] /\ UNCHANGED <<phase, governor>>
    <3>1. \A d \in Callers : DOMAIN legs'[d] = DOMAIN legs[d]
      BY <2>2 DEF TypeOK
    <3> QED
      BY <1>4, <2>2, <3>1 DEF governor
  <2>3. CASE Verdict(c, [legs[c] EXCEPT ![p] = v])
    BY <1>10, <1>11, <2>3 DEF LegSettles
  <2> QED
    BY <2>1, <2>2, <2>3
<1>12. ASSUME NEW c \in Callers, Submit(c) PROVE Free' /\ Bound'
  BY <1>5, <1>6, <1>12 DEF Submit
<1>13. ASSUME NEW c \in Callers, Fails(c) \/ RateLimited(c) PROVE Free' /\ Bound'
  BY <1>8, <1>13 DEF Fails, RateLimited
<1>14. ASSUME NEW c \in Callers, Deadline(c) PROVE Free' /\ Bound'
  BY <1>10, <1>14 DEF Deadline
<1>15. ASSUME \/ Tick \/ (\E p \in Providers : TimerFires(p)) \/ UNCHANGED vars
              \/ (\E c \in Callers : StreamsToken(c))
       PROVE  Free' /\ Bound'
  <2>1. UNCHANGED <<phase, used, ceiling, legs>>
    BY <1>15 DEF StreamsToken, Tick, TimerFires, requests, governor, vars
  <2> QED
    BY <1>4, <2>1
<1>16. Free' /\ Bound'
  BY <1>9, <1>11, <1>12, <1>13, <1>14, <1>15, LockedStays DEF Next
<1> QED
  BY <1>2, <1>16

(* Locked and undisturbed by the operator, the spending exceeds the budget  *)
(* by no more than one request of each caller (governor.ts): those that     *)
(* run have passed the check and not paid yet.  A locked setting needs the  *)
(* cache to be locked too, and its councils to be free ones.                *)
THEOREM SpendingIsBounded == Spec => []SpendingBounded
<1> DEFINE IInv == TypeOK /\ StopExact /\ SpentWithin
<1>1. Init => IInv
  <2> SUFFICES ASSUME Init PROVE SpentWithin
    BY Initially
  <2>1. Resting = Callers
    BY DEF Init, Resting, Running
  <2>2. Cardinality(Callers) \in Nat /\ Cardinality(Callers) # 0
    BY ProviderAssumption, FS_CardinalityType, FS_EmptySet
  <2> DEFINE n == Cardinality(Callers)
  <2> HIDE DEF n
  <2>3. n - 1 \in Nat /\ n \in Nat
    BY <2>2 DEF n
  <2>4. MostExpensive * n = MostExpensive + MostExpensive * (n - 1)
    BY <2>3, ExpenseFacts
  <2>5. MostExpensive * (n - 1) \in Nat
    BY <2>3, ExpenseFacts
  <2>6. used + Estimate <= ceiling + MostExpensive * n
    <3>1. used = 0 /\ ceiling \in Nat /\ MostExpensive \in Nat /\ Estimate \in Nat /\ Estimate <= MostExpensive
      BY NumberAssumption, ExpenseFacts DEF Init
    <3> QED
      BY <2>4, <2>5, <3>1
  <2> QED
    BY <2>1, <2>6 DEF Init, SpentWithin, NoLegs, n
<1>2. IInv /\ [Next]_vars => IInv'
  BY TypeStep, StopStep, SpentStep
<1>3. IInv => SpendingBounded
  BY DEF SpentWithin, SpendingBounded, Resting, Locked
<1> QED
  BY <1>1, <1>2, <1>3, PTL DEF Spec
=============================================================================
