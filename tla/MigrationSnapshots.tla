------------------------- MODULE MigrationSnapshots -------------------------
(* Starting a new binary on an old database (internal/database/migrate.go, snapshot.go): a
   verified copy is taken first, the pending migrations commit one by one, and the copies
   are pruned on both exits. A container that restarts a failing migration goes round this
   loop, a newer binary may be shipped in the middle of it, and the process may be killed
   anywhere. Migrations are numbered in the order of their names. *)
EXTENDS Integers, FiniteSets

CONSTANTS MaxMigration, KeepSnapshots, MaxAttempts

ASSUME SnapshotAssumption ==
    MaxMigration \in Nat \ {0} /\ KeepSnapshots \in Nat \ {0, 1, 2} /\ MaxAttempts \in Nat

VARIABLES
    shipped,      \* the last migration of the installed binary
    applied,      \* the migrations recorded in schema_migrations are 1..applied
    base,         \* the same when the database was last migrated with success
    snapshots,    \* the copies: when, for which target, of which state, and whether whole
    migrating,    \* where RunMigrations is, and its pending list
    named,        \* the copy the last error told the operator to restore, 0 for none
    attempts,
    migrationNotes

migrationVars ==
    <<shipped, applied, base, snapshots, migrating, named, attempts, migrationNotes>>

Stopped == [step |-> "stopped", floor |-> 0, target |-> 0, at |-> 0]
Copies == {s \in snapshots : s.at = migrating.at}
Pristine == {s \in snapshots : s.whole /\ s.holds = base /\ s.target > base}

MigrationInit ==
    /\ shipped \in 1..MaxMigration /\ applied = 0 /\ base = 0 /\ snapshots = {}
    /\ migrating = Stopped /\ named = 0 /\ attempts = 0 /\ migrationNotes = {}

\* listPendingMigrations, and the copy begun under its name
StartMigrating ==
    /\ migrating = Stopped /\ applied < shipped /\ attempts < MaxAttempts
    /\ attempts' = attempts + 1
    /\ migrating' = [step |-> "copy", floor |-> applied + 1, target |-> shipped, at |-> attempts']
    /\ snapshots' = snapshots \cup
          {[at |-> attempts', target |-> shipped, holds |-> applied, whole |-> FALSE]}
    /\ migrationNotes' = migrationNotes \cup
          (IF applied > base /\ \A s \in Pristine : s.target <= applied THEN {"passed"} ELSE {})
    /\ UNCHANGED <<shipped, applied, base, named>>

\* SnapshotForMigration: no verified copy, no migration
CopyMade ==
    /\ migrating.step = "copy"
    /\ \/ /\ snapshots' = (snapshots \ Copies) \cup {[s EXCEPT !.whole = TRUE] : s \in Copies}
          /\ migrating' = [migrating EXCEPT !.step = "apply"]
       \/ snapshots' = snapshots \ Copies /\ migrating' = Stopped
    /\ UNCHANGED <<shipped, applied, base, named, attempts, migrationNotes>>

\* One migration and its row in schema_migrations, in one transaction, or neither.
ApplyMigration ==
    /\ migrating.step = "apply"
    /\ \/ applied < migrating.target /\ applied' = applied + 1 /\ UNCHANGED migrating
       \/ /\ applied < migrating.target /\ migrating' = [migrating EXCEPT !.step = "failed"]
          /\ UNCHANGED applied
       \/ /\ applied = migrating.target /\ migrating' = [migrating EXCEPT !.step = "done"]
          /\ UNCHANGED applied
    /\ UNCHANGED <<shipped, base, snapshots, named, attempts, migrationNotes>>

Oldest(S) == {s \in S : \A t \in S : s.at <= t.at}

\* mutant: only the oldest copy for the latest target is spared
ExemptOfTarget == Oldest({s \in snapshots : s.target = migrating.target})

\* the oldest copy for a target at or above the first pending migration, and the oldest
\* one for the current target
Exempt ==
    Oldest({s \in snapshots : s.target >= migrating.floor})
      \cup Oldest({s \in snapshots : s.target = migrating.target})

\* pruneMigrationSnapshots: the exempt, and the newest of the others in the slots left
Pruned(exempt) ==
    LET slots == KeepSnapshots - Cardinality(exempt)
        others == snapshots \ exempt
    IN  exempt \cup {s \in others : Cardinality({t \in others : t.at > s.at}) < slots}

PruneAfterFailure ==
    /\ migrating.step = "failed"
    /\ snapshots' = Pruned(Exempt) /\ named' = migrating.at /\ migrating' = Stopped
    /\ UNCHANGED <<shipped, applied, base, attempts, migrationNotes>>

\* the household uses the migrated database from here on
PruneAfterSuccess ==
    /\ migrating.step = "done"
    /\ snapshots' = Pruned({}) /\ named' = 0 /\ migrating' = Stopped
    /\ base' = applied /\ migrationNotes' = {}
    /\ UNCHANGED <<shipped, applied, attempts>>

\* A copy killed halfway bears a snapshot's name for good.
KillMigration ==
    /\ migrating # Stopped
    /\ migrating' = Stopped /\ named' = 0
    /\ migrationNotes' = migrationNotes \cup (IF migrating.step = "copy" THEN {"half"} ELSE {})
    /\ UNCHANGED <<shipped, applied, base, snapshots, attempts>>

ShipBinary ==
    /\ migrating = Stopped /\ shipped < MaxMigration /\ shipped' = shipped + 1
    /\ UNCHANGED <<applied, base, snapshots, migrating, named, attempts, migrationNotes>>

MigrationNext ==
    \/ StartMigrating \/ CopyMade \/ ApplyMigration \/ PruneAfterFailure \/ PruneAfterSuccess
    \/ KillMigration \/ ShipBinary

MigrationSpec == MigrationInit /\ [][MigrationNext]_migrationVars

MigrationTypeOK ==
    /\ shipped \in 1..MaxMigration /\ applied \in 0..MaxMigration /\ base \in 0..applied
    /\ \A s \in snapshots : s.at \in 1..attempts /\ s.target \in 1..MaxMigration
                            /\ s.holds \in 0..MaxMigration /\ s.whole \in BOOLEAN
    /\ migrating.step \in {"stopped", "copy", "apply", "failed", "done"}
    /\ {named, attempts} \subseteq 0..MaxAttempts /\ migrationNotes \subseteq {"passed", "half"}

(* Once a migration of an unfinished upgrade has committed, a whole copy of the database as
   it was before the upgrade is on disk, however often the upgrade was tried, killed, or
   carried on by a newer binary: unless a copy was killed halfway, or a newer binary got past
   the target the pristine copy is named for (failurePruneExemptions). *)
PristineSurvives == applied > base /\ migrationNotes = {} => Pristine # {}

(* What a failed start told the operator to restore is there, and whole, until the next
   start prunes; and a start that ended leaves no more copies than the bound and those that
   were left by killed starts since (the error of RunMigrations, migrationSnapshotKeep). *)
NamedIsOnDisk ==
    migrating = Stopped /\ named # 0 =>
        /\ \E s \in snapshots : s.at = named /\ s.whole
        /\ Cardinality(snapshots) <= KeepSnapshots

UpgradeCanBeUndone == PristineSurvives /\ NamedIsOnDisk

(* Of the copy taken before an unfinished upgrade the pruning promises that it survives a
   crash loop absolutely (pruneMigrationSnapshots; RunMigrations: a crash loop "never loses"
   it). *)
PristineAlwaysSurvives == applied > base => Pristine # {}
=============================================================================
