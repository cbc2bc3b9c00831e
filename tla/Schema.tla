-------------------------------- MODULE Schema --------------------------------
(* The schema of the database file (core/basevault/db.ts): initDB, which     *)
(* runs one SQL statement after another, outside any transaction, whenever   *)
(* the process starts; the chain of ALTERs that a file of an earlier release *)
(* goes through; and the version it stamps last.  A file is a set of tables, *)
(* the columns its tables lack, and user_version.  The process may end       *)
(* between any two statements; /restore puts an old file in place.           *)
EXTENDS Naturals, Sequences

CONSTANTS Legacies,   \* sets of columns that files of earlier releases lack
          MaxStarts    \* bound on the starts of the process

VARIABLES phase,      \* "off", "script", "alters", "blob", "late", "stamp", "up", "dead"
          entry,      \* who called initDB: "profile", "server", "route"
          line,       \* the next statement of the phase
          needs,      \* needsMigration
          tables,     \* the tables of the file
          missing,    \* <<table, column>>: what they lack of the latest shape
          indexed,    \* idx_cerebro_memories_project is there
          triggers,   \* the sync triggers are there
          version,    \* user_version
          blob,       \* system_settings has the key pending_proposal
          proposals,  \* rows of dag_proposals made from it
          boots,
          held,       \* history: proposals the file held when it arrived
          swallowed   \* history: initDB caught an error and went on

hvars == <<phase, entry, line, needs, tables, missing, indexed, triggers,
           version, blob, proposals, boots, held, swallowed>>

file == <<tables, missing, indexed, triggers, version, blob, proposals, held,
          swallowed>>

SCHEMA_VERSION == 1

Memories == "cerebro_memories_meta"

\* The tables of the first script, in order.  "okf_nodes" stands for those no
\* ALTER names.
Creates == <<"projects", "workflow_runs", "tasks", "os_todos", Memories,
             "memory_quarantine", "cerebro_learning_approvals",
             "system_settings", "llm_providers", "okf_nodes">>
Latest == {Creates[i] : i \in 1..Len(Creates)}

Alters ==
  <<<<"projects", "workspace_path">>, <<"projects", "project_root_path">>,
    <<"os_todos", "confidence">>, <<"projects", "archived_at">>,
    <<"workflow_runs", "completed_at">>, <<"llm_providers", "require_paid_tier">>,
    <<Memories, "source_tool">>, <<"memory_quarantine", "source_tool">>,
    <<"llm_providers", "is_paid_tier">>, <<Memories, "project_id">>,
    <<"cerebro_learning_approvals", "conflict_with_id">>,
    <<"cerebro_learning_approvals", "conflict_reasoning">>,
    <<"projects", "gitnexus_repo_name">>, <<"projects", "permission_archetype">>,
    <<"workflow_runs", "track">>, <<"tasks", "node_type">>,
    <<"cerebro_learning_approvals", "source_tool">>, <<"tasks", "started_at">>>>

ASSUME SchemaAssumption ==
  /\ \A l \in Legacies : \A c \in l : \E i \in 1..Len(Alters) : Alters[i] = c
  /\ MaxStarts \in Nat

SchemaInit ==
  /\ phase = "off" /\ entry = "server" /\ line = 1 /\ needs = FALSE
  /\ tables = {} /\ missing = {} /\ indexed = FALSE /\ triggers = FALSE
  /\ version = 0 /\ blob = FALSE /\ proposals = 0
  /\ boots = 0 /\ held = 0 /\ swallowed = FALSE

\* A file of an earlier release: every table of the first script is there,
\* some columns are not, and no version was ever stamped.
OldFile ==
  /\ tables' = Latest
  /\ missing' \in Legacies
  /\ indexed' \in {FALSE, <<Memories, "project_id">> \notin missing'}
  /\ triggers' = FALSE /\ version' = 0
  /\ blob' \in BOOLEAN /\ proposals' = 0
  /\ held' = (IF blob' THEN 1 ELSE 0)
  /\ swallowed' = FALSE

\* The operator upgrades: the new release meets the old file.
NewRelease ==
  /\ phase = "off" /\ tables = {}
  /\ OldFile
  /\ UNCHANGED <<phase, entry, line, needs, boots>>

EnterInit(e) ==
  /\ entry' = e /\ phase' = "script" /\ line' = 1
  /\ needs' = (version < SCHEMA_VERSION)

\* The profiler goes straight to initDB.  The server first asks
\* isSyncEnabled, which reads system_settings and does not catch.
Start(e) ==
  /\ phase = "off" /\ boots < MaxStarts
  /\ boots' = boots + 1
  /\ IF e = "server" /\ "system_settings" \notin tables
     THEN phase' = "dead" /\ entry' = e /\ UNCHANGED <<line, needs>>
     ELSE EnterInit(e)
  /\ UNCHANGED file

\* POST /migrate calls initDB in a server that runs.
Migrate ==
  /\ phase = "up" /\ boots < MaxStarts
  /\ boots' = boots + 1
  /\ EnterInit("route")
  /\ UNCHANGED file

Proceed(p, last) ==
  IF line < last THEN line' = line + 1 /\ UNCHANGED phase
                 ELSE line' = 1 /\ phase' = p

\* CREATE TABLE IF NOT EXISTS makes the latest shape or leaves the table as
\* it is.
CreateTable ==
  /\ phase = "script" /\ line <= Len(Creates)
  /\ tables' = tables \cup {Creates[line]}
  /\ line' = line + 1
  /\ UNCHANGED <<phase, entry, needs, missing, indexed, triggers, version,
                 blob, proposals, boots, held, swallowed>>

\* CREATE INDEX IF NOT EXISTS ends the first script.  The exception leaves
\* initDB: the process ends, or the route answers 500.
CreateIndex ==
  /\ phase = "script" /\ line = Len(Creates) + 1
  /\ line' = 1
  /\ IF indexed \/ <<Memories, "project_id">> \notin missing
     THEN /\ indexed' = TRUE
          /\ phase' = (IF needs THEN "alters" ELSE "blob")
     ELSE /\ phase' = (IF entry = "route" THEN "up" ELSE "dead")
          /\ UNCHANGED indexed
  /\ UNCHANGED <<entry, needs, tables, missing, triggers, version, blob,
                 proposals, boots, held, swallowed>>

AlterStamped ==
  /\ phase = "alters"
  /\ \/ missing' = missing \ {Alters[line]} /\ UNCHANGED swallowed
     \/ Alters[line] \in missing /\ swallowed' = TRUE /\ UNCHANGED missing
  /\ Proceed("blob", Len(Alters))
  /\ version' = SCHEMA_VERSION
  /\ UNCHANGED <<entry, needs, tables, indexed, triggers, blob, proposals,
                 boots, held>>

\* One ALTER of migrate_v0_v1: a column that is there is a duplicate, any
\* other error is logged, and either way the next one runs.
Alter ==
  /\ phase = "alters"
  /\ \/ missing' = missing \ {Alters[line]} /\ UNCHANGED swallowed
     \/ Alters[line] \in missing /\ swallowed' = TRUE /\ UNCHANGED missing
  /\ Proceed("blob", Len(Alters))
  /\ UNCHANGED <<entry, needs, tables, indexed, triggers, version, blob,
                 proposals, boots, held>>

\* migratePendingProposalBlob: an insert and a delete in one transaction, on
\* every start; an error is logged.
MoveBlob ==
  /\ phase = "blob" /\ phase' = "late"
  /\ \/ blob /\ proposals' = proposals + 1 /\ blob' = FALSE
     \/ UNCHANGED <<blob, proposals>>
  /\ UNCHANGED <<entry, line, needs, tables, missing, indexed, triggers,
                 version, boots, held, swallowed>>

\* The scripts of context_events and of the sync log: each trigger is dropped
\* and made again; an error is logged and leaves the ones not made yet out.
Late ==
  /\ phase = "late"
  /\ \/ line = 1 /\ triggers' = FALSE /\ line' = 2 /\ UNCHANGED <<phase, swallowed>>
     \/ line = 2 /\ triggers' = TRUE /\ line' = 1 /\ phase' = "stamp" /\ UNCHANGED swallowed
     \/ line' = 1 /\ phase' = "stamp" /\ swallowed' = TRUE /\ UNCHANGED triggers
  /\ UNCHANGED <<entry, needs, tables, missing, indexed, version, blob,
                 proposals, boots, held>>

\* setUserVersion, the last statement.  A profile run then exits.
Stamp ==
  /\ phase = "stamp"
  /\ version' = (IF needs THEN SCHEMA_VERSION ELSE version)
  /\ phase' = (IF entry = "profile" THEN "off" ELSE "up")
  /\ UNCHANGED <<entry, line, needs, tables, missing, indexed, triggers, blob,
                 proposals, boots, held, swallowed>>

\* The process is killed, or, once dead, has ended.
Kill ==
  /\ phase # "off"
  /\ phase' = "off" /\ line' = 1
  /\ UNCHANGED <<entry, needs, boots>> /\ UNCHANGED file

\* POST /restore replaces the file and exits.
Restore ==
  /\ phase = "up"
  /\ OldFile
  /\ phase' = "off"
  /\ UNCHANGED <<entry, line, needs, boots>>

SchemaNext ==
  \/ NewRelease \/ (\E e \in {"profile", "server"} : Start(e)) \/ Migrate
  \/ CreateTable \/ CreateIndex \/ Alter \/ MoveBlob \/ Late \/ Stamp
  \/ Kill \/ Restore

SchemaSpec == SchemaInit /\ [][SchemaNext]_hvars

-----------------------------------------------------------------------------
\* The version is a promise that survives crashes: wherever the earlier
\* starts ended, a stamped file has every column and every index of the
\* latest shape, and a server that serves has every table.  The exception is
\* an error initDB itself caught.
StampedIsCurrent ==
  /\ version = SCHEMA_VERSION /\ ~swallowed => missing = {} /\ indexed
  /\ phase = "up" /\ ~swallowed /\ version = SCHEMA_VERSION =>
       tables = Latest /\ triggers

\* The proposal that was waiting in the old file is there exactly once,
\* whichever starts were cut short.
ProposalKept == (IF blob THEN 1 ELSE 0) + proposals = held

SchemaSound == StampedIsCurrent /\ ProposalKept

\* The migration repairs the files of earlier releases ("a legacy DB missing
\* v1 columns", db.test.ts): no start of a file that has every table ends
\* before it.
LegacyBoots == ~(phase = "dead" /\ tables = Latest)
=============================================================================
