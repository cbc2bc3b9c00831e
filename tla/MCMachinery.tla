---------------------------- MODULE MCMachinery ----------------------------
(* Small instances of the services behind the dispatcher: memory, concepts,  *)
(* the worker, the idle daemon and the models.  They share no state, so a    *)
(* behaviour runs one of them and leaves the others at rest.                 *)
EXTENDS Memory, Knowledge, Worker, Scout, Models, TLC

CONSTANTS
    Services,  \* the services of the instance
    f1, f2     \* facts

ASSUME Services # {}

VARIABLE running

SimilarFacts == {{f1, f2}}

TrustOf == [t \in Texts |-> IF t = "weak" THEN "review" ELSE "auto"]
LinksOf == [t \in Texts |-> IF t = "toA" THEN {"a"} ELSE {}]

In(plugin, directive, files, target) ==
    [plugin |-> plugin, directive |-> directive, files |-> files, target |-> target]
SomeInputs == {
    In("index", "generic", 2, "pub"), In("unknown", "shell", 0, "pub"),
    In("draft", "generic", 0, "pub"), In("map", "generic", 0, "pub"), In("fetch", "generic", 0, "in"),
    In("fetch", "generic", 0, "pub"), In("none", "generic", 0, "pub"),
    In("none", "verify", 0, "pub"), In("none", "shell", 0, "pub"),
    In("none", "scrape", 0, "lo"), In("none", "scrape", 0, "pub"), In("none", "scrape", 0, "in"),
    In("fetch", "generic", 0, "turns")}
Resolving == [h \in Hosts |-> CASE h = "lo" -> {"loopback"} [] h = "in" -> {"private"}
                              [] h = "pub" -> {"public"} [] OTHER -> {"private", "public"}]
TwoSiblings == <<"s1", "s2">>

ProviderSymmetry == Permutations(Ids)

MachineryInit ==
    /\ running \in Services
    /\ MemoryInit /\ KnowledgeInit /\ WorkerInit /\ ScoutInit
    /\ RegistryInit /\ AdapterInit /\ LocalInit

MachineryNext ==
    /\ UNCHANGED running
    /\ \/ running = "memory" /\ MemoryNext
            /\ UNCHANGED <<kvars, wvars, svars, rvars, avars, lvars>>
       \/ running = "knowledge" /\ KnowledgeNext
            /\ UNCHANGED <<mvars, wvars, svars, rvars, avars, lvars>>
       \/ running = "worker" /\ WorkerNext
            /\ UNCHANGED <<mvars, kvars, svars, rvars, avars, lvars>>
       \/ running = "scout" /\ ScoutNext
            /\ UNCHANGED <<mvars, kvars, wvars, rvars, avars, lvars>>
       \/ running = "registry" /\ RegistryNext
            /\ UNCHANGED <<mvars, kvars, wvars, svars, avars, lvars>>
       \/ running = "adapter" /\ AdapterNext
            /\ UNCHANGED <<mvars, kvars, wvars, svars, rvars, lvars>>
       \/ running = "local" /\ LocalNext
            /\ UNCHANGED <<mvars, kvars, wvars, svars, rvars, avars>>

MachinerySpec ==
    MachineryInit
    /\ [][MachineryNext]_<<running, mvars, kvars, wvars, svars, rvars, avars, lvars>>
=============================================================================
