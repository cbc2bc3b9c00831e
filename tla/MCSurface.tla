----------------------------- MODULE MCSurface -----------------------------
(* Small instances of the services at the edges of the server: the start of  *)
(* its database, its gates, its sockets, what the operator's screens ask of  *)
(* it, and its end.  They share no state, so a behaviour runs one of them    *)
(* and leaves the others at rest.                                            *)
EXTENDS Schema, Shutdown, Perimeter, Access, Console, Interview, Consent, TLC

CONSTANTS
    Services,          \* the services of the instance
    s1, s2,            \* terminal sessions
    w1,                \* a workspace
    t1, p1             \* a to-do and a proposal

ASSUME Services # {}

VARIABLE running

OneWorkspace == [s \in Sessions |-> w1]
FullConfidence == [i \in Todos \cup Proposals |-> 1]
OneNode == [p \in Proposals |-> <<"a">>]

EarlierReleases == {
    {}, {<<"tasks", "node_type">>},
    {<<Memories, "project_id">>, <<"workflow_runs", "track">>}}

SurfaceInit ==
    /\ running \in Services
    /\ SchemaInit /\ Init /\ PerimeterInit /\ AccessInit /\ ConsoleInit /\ InterviewInit /\ ConsentInit

SurfaceNext ==
    /\ UNCHANGED running
    /\ \/ running = "schema" /\ SchemaNext /\ UNCHANGED <<vars, pvars, avars, cvars, ivars, nvars>>
       \/ running = "shutdown" /\ Next /\ UNCHANGED <<hvars, pvars, avars, cvars, ivars, nvars>>
       \/ running = "perimeter" /\ PerimeterNext /\ UNCHANGED <<hvars, vars, avars, cvars, ivars, nvars>>
       \/ running = "access" /\ AccessNext /\ UNCHANGED <<hvars, vars, pvars, cvars, ivars, nvars>>
       \/ running = "console" /\ ConsoleNext /\ UNCHANGED <<hvars, vars, pvars, avars, ivars, nvars>>
       \/ running = "interview" /\ InterviewNext /\ UNCHANGED <<hvars, vars, pvars, avars, cvars, nvars>>
       \/ running = "consent" /\ ConsentNext /\ UNCHANGED <<hvars, vars, pvars, avars, cvars, ivars>>

SurfaceSpec == SurfaceInit /\ [][SurfaceNext]_<<running, hvars, vars, pvars, avars, cvars, ivars, nvars>>
=============================================================================
