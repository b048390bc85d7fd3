----------------------------- MODULE StoreSchema -----------------------------
(***************************************************************************)
(* SqliteOrchestrationStore::initialize (odin-orchestrator/src/            *)
(* persistence.rs), which every program runs before it uses the database:  *)
(* statement by statement, each a transaction of its own, over a database  *)
(* of an earlier release, whose lifecycles lack a column and whose only    *)
(* lock snapshot is not keyed by run.  Several programs may be at it, and  *)
(* any may be killed after any statement.                                  *)
(***************************************************************************)
EXTENDS Naturals, FiniteSets

CONSTANTS
  Opener,      \* processes that open the database
  MaxKills,    \* bound
  MaxSaves     \* bound: snapshots saved by programs that are ready

ASSUME SchemaAssumption == {MaxKills, MaxSaves} \subseteq Nat

VARIABLES
  column,  \* agent_lifecycles has graph_root_id
  snapshots,   \* lock_snapshots: NoTable, or [keyed, rows]
  legacy,  \* lock_snapshots_legacy: NoTable, or its rows
  past,    \* rows of runs and agents: whether finished, and 30 days ago
  recorded,\* the versions are in orchestration_schema_migrations
  at,      \* program -> the statement it executes next
  kills, saves

schemavars == <<column, snapshots, legacy, past, recorded, at, kills, saves>>

NoTable == [keyed |-> FALSE, rows |-> {MaxSaves + 1}]
Table(keyed, rows) == [keyed |-> keyed, rows |-> rows]
Old == 0       \* the snapshot of the earlier release
Present(t) == t # NoTable
Rows == [finished : BOOLEAN, old : BOOLEAN]

SchemaInit ==
  /\ column = FALSE
  /\ snapshots = Table(FALSE, {Old}) /\ legacy = NoTable
  /\ past = Rows /\ recorded = FALSE
  /\ at = [p \in Opener |-> "start"]
  /\ kills = 0 /\ saves = 0

Goes(p, to) == at' = [at EXCEPT ![p] = to]
Tables(c, k, l) == column' = c /\ snapshots' = k /\ legacy' = l
Fails(p) == Goes(p, "failed") /\ Tables(column, snapshots, legacy)

(* pragma_table_info, then ALTER TABLE ADD COLUMN.                         *)
LookAtLifecycles(p) ==
  /\ at[p] \in {"start", "failed"}
  /\ Goes(p, IF column THEN "create locks" ELSE "add column")
  /\ Tables(column, snapshots, legacy)

AddColumn(p) ==
  /\ at[p] = "add column"
  /\ IF column THEN Fails(p) ELSE Goes(p, "create locks") /\ Tables(TRUE, snapshots, legacy)

CreateIfMissing(p) ==
  /\ at[p] = "create locks"
  /\ Goes(p, "look")
  /\ Tables(column, IF Present(snapshots) THEN snapshots ELSE Table(TRUE, {}), legacy)

LookAtLocks(p) ==
  /\ at[p] = "look"
  /\ Goes(p, IF snapshots.keyed THEN "record" ELSE "rename")
  /\ Tables(column, snapshots, legacy)

Rename(p) ==
  /\ at[p] = "rename"
  /\ IF Present(snapshots) /\ ~Present(legacy)
     THEN Goes(p, "create") /\ Tables(column, NoTable, Table(FALSE, snapshots.rows))
     ELSE Fails(p)

Create(p) ==
  /\ at[p] = "create"
  /\ IF Present(snapshots) THEN Fails(p)
     ELSE Goes(p, "copy") /\ Tables(column, Table(TRUE, {}), legacy)

(* Every row gets the key 'legacy': two of them are one too many.          *)
Copy(p) ==
  /\ at[p] = "copy"
  /\ IF Present(snapshots) /\ Present(legacy) /\ Cardinality(legacy.rows) <= 1
     THEN Goes(p, "drop") /\ Tables(column, Table(TRUE, snapshots.rows \cup legacy.rows), legacy)
     ELSE Fails(p)

DropLegacy(p) ==
  /\ at[p] = "drop"
  /\ IF Present(legacy) THEN Goes(p, "record") /\ Tables(column, snapshots, NoTable) ELSE Fails(p)

(* CREATE TABLE run_controls and the versions; the retention of old rows.  *)
RecordVersions(p) ==
  /\ at[p] = "record"
  /\ recorded' = TRUE
  /\ Goes(p, "sweep")
  /\ UNCHANGED <<column, snapshots, legacy, past, kills, saves>>

Sweep(p) ==
  /\ at[p] = "sweep"
  /\ past' = {row \in past : ~(row.finished /\ row.old)}
  /\ Goes(p, "ready")
  /\ UNCHANGED <<column, snapshots, legacy, recorded, kills, saves>>

Migrate(p) ==
  /\ \/ LookAtLifecycles(p) \/ AddColumn(p) \/ CreateIfMissing(p) \/ LookAtLocks(p)
     \/ Rename(p) \/ Create(p) \/ Copy(p) \/ DropLegacy(p)
  /\ UNCHANGED <<past, recorded, kills, saves>>

(* save_lock_snapshot of a program at work.                                *)
SaveSnapshot(p) ==
  /\ at[p] = "ready" /\ saves < MaxSaves
  /\ saves' = saves + 1
  /\ snapshots' = IF Present(snapshots) THEN Table(TRUE, snapshots.rows \cup {saves + 1}) ELSE snapshots
  /\ UNCHANGED <<column, legacy, past, recorded, at, kills>>

Kill(p) ==
  /\ at[p] # "start" /\ kills < MaxKills
  /\ kills' = kills + 1
  /\ Goes(p, "start")
  /\ UNCHANGED <<column, snapshots, legacy, past, recorded, saves>>

SchemaNext == \E p \in Opener :
  Migrate(p) \/ RecordVersions(p) \/ Sweep(p) \/ SaveSnapshot(p) \/ Kill(p)

SchemaSpec == SchemaInit /\ [][SchemaNext]_schemavars

-----------------------------------------------------------------------------
RowsOf(t) == IF Present(t) THEN t.rows ELSE {}

(* Through kills, failed statements and migrations by two programs at     *)
(* once, the earlier release's snapshot is always in one of the tables, a  *)
(* recorded version has its column, and no row of a run that is unfinished *)
(* or recent is deleted.                                                   *)
MigrationLosesNothing ==
  /\ Old \in RowsOf(snapshots) \cup RowsOf(legacy)
  /\ recorded => column
  /\ {row \in Rows : ~row.finished \/ ~row.old} \subseteq past

(* "Migrate the pre-audit singleton snapshot table without losing the last *)
(* snapshot" (persistence.rs:239-240): once a program is ready, the        *)
(* snapshot is where snapshots are read from.  Killed between the rename   *)
(* and the copy, the program never copies it: the next start creates the   *)
(* new table and takes the migration for done.                             *)
SnapshotMigrates == (\E p \in Opener : at[p] = "ready") => Old \in RowsOf(snapshots)
=============================================================================
