-------------------------------- MODULE Scout --------------------------------
(* ScoutDaemon (core/scoutdaemon): the check that an interval starts every   *)
(* ten seconds and that awaits the temperature of the processor, so that     *)
(* checks overlap; the worker cap it lowers while the processor is hot and   *)
(* puts back afterwards; and the idle event with the run it stages and the   *)
(* reflection daemon it starts.  The cap is a row of environment_rules and   *)
(* survives a restart; what the check remembers does not.                    *)
EXTENDS Naturals

CONSTANTS Checks,       \* checks under way at a time
          Tier,         \* the worker cap the profile of the machine gives
          IdleAge,      \* idleThresholdMs, in ticks
          Unset,        \* undefined, or not running
          MaxTicks, MaxRestarts  \* bounds

ASSUME ScoutAssumption ==
  /\ Tier \in Nat \ {0} /\ IdleAge \in Nat /\ Unset \notin Nat
  /\ MaxTicks \in Nat /\ MaxRestarts \in Nat

VARIABLES heat,       \* the temperature: "cool", "warm", "hot"
          rule,       \* the latest max_workers of the active profile
          original,   \* originalMaxWorkers
          ticks,      \* Date.now()
          beat,       \* lastHeartbeat
          idle,       \* isIdle
          checking,   \* check -> the now it began with, Unset while it rests
          staged,     \* maintenance runs staged since the last sign of activity
          activity,   \* lastActivityTime of the reflection daemon, Unset until it starts
          restarts,
          overtaken,  \* history: since the last sign of activity a check has
                      \* ended before one that began earlier
          cutHot      \* history: the process ended while the cap was lowered

svars == <<heat, rule, original, ticks, beat, idle, checking, staged, activity,
           restarts, overtaken, cutHot>>

-----------------------------------------------------------------------------

\* runGenesisProfiler writes the profile and its rules once, before the
\* server of a packaged installation starts.
ScoutInit ==
  /\ heat = "cool" /\ rule = Tier /\ original = Unset
  /\ ticks = 0 /\ beat = 0 /\ idle = FALSE
  /\ checking = [c \in Checks |-> Unset]
  /\ staged = 0 /\ activity = Unset
  /\ restarts = 0 /\ overtaken = FALSE /\ cutHot = FALSE

Heat(h) ==
  /\ h # heat /\ {h, heat} # {"cool", "hot"}
  /\ heat' = h
  /\ UNCHANGED <<rule, original, ticks, beat, idle, checking, staged, activity,
                 restarts, overtaken, cutHot>>

Tick ==
  /\ ticks < MaxTicks
  /\ ticks' = ticks + 1
  /\ UNCHANGED <<heat, rule, original, beat, idle, checking, staged, activity,
                 restarts, overtaken, cutHot>>

\* pingActivity, on the active event.
Active == activity' = IF activity = Unset THEN Unset ELSE ticks

\* POST /scout/heartbeat.
Ping ==
  /\ beat' = ticks /\ idle' = FALSE
  /\ IF idle THEN Active ELSE UNCHANGED activity
  /\ staged' = 0 /\ overtaken' = FALSE
  /\ UNCHANGED <<heat, rule, original, ticks, checking, restarts, cutHot>>

\* The interval fires whether or not the last check has its temperature.
CheckStarts(c) ==
  /\ checking[c] = Unset
  /\ checking' = [checking EXCEPT ![c] = ticks]
  /\ UNCHANGED <<heat, rule, original, ticks, beat, idle, staged, activity,
                 restarts, overtaken, cutHot>>

YieldAgain ==
  /\ heat = "hot"
  /\ original' = rule /\ rule' = 0

\* Above 85 degrees: the cap is remembered unless one is, and 0 is written.
Yield ==
  /\ heat = "hot"
  /\ original' = IF original = Unset THEN rule ELSE original
  /\ rule' = 0

RecoverUnwritten ==
  /\ original # Unset
  /\ original' = Unset /\ UNCHANGED rule

\* Below 75 degrees the remembered cap is written back and forgotten, and so it
\* is at any temperature when the sensor has none to tell: null is below 75.
Recover ==
  /\ original # Unset
  /\ rule' = original /\ original' = Unset

\* Between the two, or when the call fails, nothing is written.
Leave == UNCHANGED <<rule, original>>

Quiet(now) == now > beat + IdleAge

\* The idle event stages a maintenance run, unless the transaction fails,
\* and starts the reflection daemon, whose clock runs since the boot.
BecomesIdle ==
  /\ idle' = TRUE
  /\ staged' \in {staged, staged + 1}
  /\ activity' = IF activity = Unset THEN 0 ELSE activity

BecomesActive ==
  /\ idle' = FALSE /\ Active
  /\ UNCHANGED staged

Overtakes(c) == \E d \in Checks \ {c} : checking[d] # Unset /\ checking[d] < checking[c]

\* The rest of a check once it has its temperature: it compares the time at
\* which it began with the heartbeat there is now.
CheckEnds(c) ==
  /\ checking[c] # Unset
  /\ Yield \/ Recover \/ Leave
  /\ CASE Quiet(checking[c]) /\ ~idle -> BecomesIdle
       [] ~Quiet(checking[c]) /\ idle -> BecomesActive
       [] OTHER -> UNCHANGED <<idle, activity, staged>>
  /\ overtaken' = (overtaken \/ Overtakes(c))
  /\ checking' = [checking EXCEPT ![c] = Unset]
  /\ UNCHANGED <<heat, ticks, beat, restarts, cutHot>>

\* The process ends and comes back: the detector starts anew, the row stays.
ProcessRestarts ==
  /\ restarts < MaxRestarts
  /\ restarts' = restarts + 1
  /\ cutHot' = (cutHot \/ original # Unset)
  /\ original' = Unset /\ beat' = ticks /\ idle' = FALSE
  /\ checking' = [c \in Checks |-> Unset]
  /\ activity' = Unset /\ staged' = 0 /\ overtaken' = FALSE
  /\ UNCHANGED <<heat, rule, ticks>>

ScoutNext ==
  \/ \E h \in {"cool", "warm", "hot"} : Heat(h)
  \/ Tick \/ Ping \/ ProcessRestarts
  \/ \E c \in Checks : CheckStarts(c) \/ CheckEnds(c)

\* The interval goes on and every reading is answered.  A reading may fail
\* now and then; one below 75 degrees is not missed for ever, and no reading is
\* bound to be missing.
ScoutFairness ==
  \A c \in Checks :
    /\ WF_svars(CheckStarts(c)) /\ WF_svars(CheckEnds(c))
    /\ SF_svars(heat = "cool" /\ CheckEnds(c) /\ Recover)

ScoutSpec == ScoutInit /\ [][ScoutNext]_svars
FairScout == ScoutSpec /\ ScoutFairness

-----------------------------------------------------------------------------

\* Overlapping checks never remember the lowered cap as the one to go back
\* to: while no tasks may start, the cap of the profile is remembered, unless
\* the process ended while the processor was hot.
CapRemembered == rule = 0 => original = Tier \/ cutHot

\* Nobody having been active, one maintenance run is staged, however long
\* the machine rests, unless a slow reading let a later check overtake.
OneRunPerRest == staged > 1 => overtaken

ScoutSound == CapRemembered /\ OneRunPerRest

\* When the processor stays cool the dispatcher gets its workers back,
\* unless the process ended while it was hot.
WorkersReturn == (<>[](heat = "cool") /\ [](~cutHot)) => <>[](rule = Tier)

\* Refuted.  "Thermals recovered. Restoring worker config." (idle.ts): the
\* processor having cooled for good, the workers come back.
CapComesBack == <>[](heat = "cool") => <>[](rule > 0)
=============================================================================
