--------------------------- MODULE MCRouteSwitch ---------------------------
(* Small instances of RouteSwitch for TLC. *)
EXTENDS RouteSwitchProperties, TLC

CONSTANTS c1, c2,                  \* callers
          local, remote, premium  \* a streaming, a free and a paid provider

Interchangeable == Permutations(Callers)
Pair == <<local, remote>>
Panel == <<remote, premium>>
FreeFirst == {<<local, remote>>}

\* Every caller begins under the larger budget; the operator may lower it.
RichInit == Init /\ \A b \in Budgets : b <= budget
RichSpec == RichInit /\ [][Next]_vars
=============================================================================
