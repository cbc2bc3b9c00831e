----------------------------- MODULE MCCoreExec -----------------------------
(* Small instances of CoreExec for TLC. *)
EXTENDS CoreExecDivergences, TLC

CONSTANTS a, c, d, s,      \* an approved, two cron and a staged run
          n1, n2, n3, n4   \* node ids

Spare(e, o, k, h) == [expiry |-> e, operator |-> o, crash |-> k, heat |-> h]
LeasesAndOperator == Spare(1, 1, 0, 1)
LeasesAndCrash == Spare(1, 0, 1, 0)
Crashing == Spare(0, 0, 1, 0)
Undisturbed == Spare(0, 0, 0, 0)
TwoLayouts == a :> {n1, n2} @@ c :> {n3}
SameTemplate == c :> {n3} @@ d :> {n3}
SharedLayouts == a :> {n1, n2} @@ c :> {n1, n3} @@ s :> {n4}
SingleNodes == a :> {n1} @@ c :> {n3}
Unchained == [n \in Nodes |-> {}]
ChainDeps == [n \in Nodes |-> IF n = n2 THEN {n1} ELSE {}]
ThreeOrigins == [r \in Runs |-> CASE r = a -> "approve" [] r \in {c, d} -> "cron" [] OTHER -> "scout"]
=============================================================================
