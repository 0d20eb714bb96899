------------------------------ MODULE Backups ------------------------------
(* The scheduled backups (internal/backup): one tick counts the live rows, copies the
   database, verifies the copy, and only then writes the checksum file that marks it
   trusted; retention runs on every way out of the tick, and the tick is published to the
   health check as one observation. The process may be killed between any two steps, any
   file operation may fail, and the host's clock may be set back, which makes the name of
   an earlier backup come round again. Names are the minutes they stand for. *)
EXTENDS Integers, FiniteSets, FiniteSetsExt

CONSTANTS
    LastMinute,                               \* bound of the clock
    DayMinutes, WeekMinutes, MonthMinutes,    \* lengths of the retention buckets
    KeepDaily, KeepWeekly, KeepMonthly, KeepCorrupt,
    MaxBackupFaults

ASSUME BackupAssumption ==
    /\ {LastMinute, KeepCorrupt, KeepWeekly, KeepMonthly, MaxBackupFaults} \subseteq Nat
    /\ {DayMinutes, WeekMinutes, MonthMinutes, KeepDaily} \subseteq Nat \ {0}

VARIABLES
    minute,        \* what the host's clock says
    files,         \* for each name, the file of that name: none, half written, or a copy
    sound,         \* the copies that passed their verification
    sidecars,      \* the names with a checksum file
    quarantined,   \* the names with a .corrupt file
    tick,          \* where the tick is, and its name
    doomed,        \* what retention has still to remove
    unremovable,   \* what it could not remove this tick
    status,        \* the published snapshot, {} before the first tick
    leftovers,     \* number of files ever left without a checksum file
    hadTrusted,    \* whether some backup was ever completed
    backupFaults

backupVars ==
    <<minute, files, sound, sidecars, quarantined, tick, doomed, unremovable, status,
      leftovers, hadTrusted, backupFaults>>

Minutes == 0..LastMinute
NoTick == [step |-> "idle", at |-> 0, outcome |-> "error"]
BackupFault == backupFaults < MaxBackupFaults /\ backupFaults' = backupFaults + 1
Backed == {m \in Minutes : files[m] # "none"}
Trusted == Backed \cap sidecars

\* scanBackupDir, with the outcome of the tick
Observed(outcome) ==
    [outcome |-> outcome, trusted |-> Cardinality(Trusted),
     quarantined |-> Cardinality(quarantined), stuck |-> unremovable]

BackupInit ==
    /\ minute = 0 /\ files = [m \in Minutes |-> "none"] /\ sound = {} /\ sidecars = {}
    /\ quarantined = {} /\ tick = NoTick /\ doomed = {} /\ unremovable = 0 /\ status = {}
    /\ leftovers = 0 /\ hadTrusted = FALSE /\ backupFaults = 0

\* The newest file of each of the newest `keep` buckets of that length.
KeptPerBucket(length, keep) ==
    LET newest == {m \in Backed : \A n \in Backed : n \div length = m \div length => n <= m}
    IN  {m \in newest : Cardinality({n \in newest : n > m}) < keep}

\* mutant: retention keeps buckets only, without the newest files whatever their bucket
KeptInBuckets ==
    KeptPerBucket(DayMinutes, KeepDaily) \cup KeptPerBucket(WeekMinutes, KeepWeekly)
      \cup KeptPerBucket(MonthMinutes, KeepMonthly)

\* Prune: what it keeps of the files that bear a backup's name, trusted or not
KeptBackups ==
    {m \in Backed : Cardinality({n \in Backed : n > m}) < KeepDaily}
      \cup KeptPerBucket(DayMinutes, KeepDaily) \cup KeptPerBucket(WeekMinutes, KeepWeekly)
      \cup KeptPerBucket(MonthMinutes, KeepMonthly)

\* mutant: a quarantined copy is never swept
KeptCorruptAll == quarantined

KeptCorrupt == {m \in quarantined : Cardinality({n \in quarantined : n > m}) < KeepCorrupt}

Doomed == {[name |-> m, corrupt |-> FALSE] : m \in Backed \ KeptBackups}
            \cup {[name |-> m, corrupt |-> TRUE] : m \in quarantined \ KeptCorrupt}

Clock ==
    /\ tick.step = "idle"
    /\ \/ minute < LastMinute /\ minute' = minute + 1 /\ UNCHANGED backupFaults
       \/ BackupFault /\ minute' \in 0..minute - 1
    /\ UNCHANGED <<files, sound, sidecars, quarantined, tick, doomed, unremovable, status,
                   leftovers, hadTrusted>>

\* runOnce up to the copy: counting the live rows may fail
StartTick ==
    /\ tick.step = "idle"
    /\ \/ tick' = [step |-> "copy", at |-> minute, outcome |-> "error"] /\ UNCHANGED backupFaults
       \/ BackupFault /\ tick' = [step |-> "prune", at |-> minute, outcome |-> "error"]
    /\ UNCHANGED <<minute, files, sound, sidecars, quarantined, doomed, unremovable, status,
                   leftovers, hadTrusted>>

\* Snapshot refuses a name that is taken, by a file or by a checksum file left behind.
NameIsFree(m) == files[m] = "none" /\ m \notin sidecars

Snapshot ==
    /\ tick.step = "copy"
    /\ IF NameIsFree(tick.at)
       THEN \/ /\ files' = [files EXCEPT ![tick.at] = "half"] /\ leftovers' = leftovers + 1
               /\ tick' = [tick EXCEPT !.step = "copying"] /\ UNCHANGED backupFaults
            \/ BackupFault /\ tick' = [tick EXCEPT !.step = "prune"] /\ UNCHANGED <<files, leftovers>>
       ELSE tick' = [tick EXCEPT !.step = "prune"] /\ UNCHANGED <<files, leftovers, backupFaults>>
    /\ UNCHANGED <<minute, sound, sidecars, quarantined, doomed, unremovable, status, hadTrusted>>

\* VACUUM INTO ends: a failure takes its half-written file away, or fails at that too
CopyEnds ==
    /\ tick.step = "copying"
    /\ \/ /\ files' = [files EXCEPT ![tick.at] = "copy"]
          /\ tick' = [tick EXCEPT !.step = "verify"] /\ UNCHANGED <<leftovers, backupFaults>>
       \/ /\ BackupFault /\ tick' = [tick EXCEPT !.step = "prune"]
          /\ \/ files' = [files EXCEPT ![tick.at] = "none"] /\ leftovers' = leftovers - 1
             \/ UNCHANGED <<files, leftovers>>
    /\ UNCHANGED <<minute, sound, sidecars, quarantined, doomed, unremovable, status, hadTrusted>>

\* A copy that fails its checks is renamed, or stays where it is when that fails too.
VerifyCopy ==
    /\ tick.step = "verify"
    /\ \/ /\ sound' = sound \cup {tick.at} /\ tick' = [tick EXCEPT !.step = "sidecar"]
          /\ UNCHANGED <<files, quarantined, leftovers, backupFaults>>
       \/ /\ BackupFault /\ tick' = [tick EXCEPT !.step = "prune", !.outcome = "verify_failed"]
          /\ \/ /\ files' = [files EXCEPT ![tick.at] = "none"]
                /\ quarantined' = quarantined \cup {tick.at} /\ leftovers' = leftovers - 1
             \/ UNCHANGED <<files, quarantined, leftovers>>
          /\ UNCHANGED sound
    /\ UNCHANGED <<minute, sidecars, doomed, unremovable, status, hadTrusted>>

\* written beside and renamed into place: it is there whole, or not at all
WriteSidecar ==
    /\ tick.step = "sidecar"
    /\ \/ /\ sidecars' = sidecars \cup {tick.at} /\ leftovers' = leftovers - 1
          /\ tick' = [tick EXCEPT !.step = "prune", !.outcome = "success"]
          /\ hadTrusted' = TRUE /\ UNCHANGED backupFaults
       \/ /\ BackupFault /\ tick' = [tick EXCEPT !.step = "prune"]
          /\ UNCHANGED <<sidecars, leftovers, hadTrusted>>
    /\ UNCHANGED <<minute, files, sound, quarantined, doomed, unremovable, status>>

StartPrune ==
    /\ tick.step = "prune"
    /\ doomed' = Doomed /\ unremovable' = 0 /\ tick' = [tick EXCEPT !.step = "pruning"]
    /\ UNCHANGED <<minute, files, sound, sidecars, quarantined, status, leftovers,
                   hadTrusted, backupFaults>>

\* One file of the sweep: its checksum file goes after it, and may fail to.
PruneFile ==
    /\ tick.step = "pruning"
    /\ \E d \in doomed :
          /\ doomed' = doomed \ {d}
          /\ \/ /\ files' = IF d.corrupt THEN files ELSE [files EXCEPT ![d.name] = "none"]
                /\ sound' = IF d.corrupt THEN sound ELSE sound \ {d.name}
                /\ quarantined' = IF d.corrupt THEN quarantined \ {d.name} ELSE quarantined
                /\ \/ /\ sidecars' = IF d.corrupt THEN sidecars ELSE sidecars \ {d.name}
                      /\ UNCHANGED backupFaults
                   \/ BackupFault /\ UNCHANGED sidecars
                /\ UNCHANGED unremovable
             \/ /\ BackupFault /\ unremovable' = unremovable + 1
                /\ UNCHANGED <<files, sound, quarantined, sidecars>>
    /\ UNCHANGED <<minute, tick, status, leftovers, hadTrusted>>

\* recordTick, after the sweep: the outcome and the scan in one critical section
RecordTick ==
    /\ tick.step = "pruning" /\ doomed = {}
    /\ status' = {Observed(tick.outcome)} /\ tick' = NoTick
    /\ UNCHANGED <<minute, files, sound, sidecars, quarantined, doomed, unremovable,
                   leftovers, hadTrusted, backupFaults>>

\* The process is killed; the loop ticks at once when it runs again.
KillBackup ==
    /\ tick.step # "idle" /\ BackupFault
    /\ tick' = NoTick /\ doomed' = {} /\ status' = {} /\ unremovable' = 0
    /\ UNCHANGED <<minute, files, sound, sidecars, quarantined, leftovers, hadTrusted>>

BackupNext ==
    \/ Clock \/ StartTick \/ Snapshot \/ CopyEnds \/ VerifyCopy \/ WriteSidecar \/ StartPrune
    \/ PruneFile \/ RecordTick \/ KillBackup

BackupTypeOK ==
    /\ minute \in Minutes /\ files \in [Minutes -> {"none", "half", "copy"}]
    /\ sound \cup sidecars \cup quarantined \subseteq Minutes
    /\ tick.step \in {"idle", "copy", "copying", "verify", "sidecar", "prune", "pruning"}
    /\ tick.at \in Minutes /\ tick.outcome \in {"error", "verify_failed", "success"}
    /\ \A d \in doomed : d.name \in Minutes /\ d.corrupt \in BOOLEAN
    /\ unremovable \in Nat /\ Cardinality(status) <= 1 /\ leftovers \in Nat /\ hadTrusted \in BOOLEAN
    /\ backupFaults \in 0..MaxBackupFaults

(* A file with a checksum file beside it is a copy that passed its verification, whatever
   was killed and whatever name came round again (Snapshot's refusals, WriteSidecar). *)
TrustedIsVerified == Trusted \subseteq {m \in sound : files[m] = "copy"}

(* As long as fewer files than KeepDaily were ever left without a checksum file, retention
   does not remove the last trusted backup: failed ticks, quarantined copies and clock
   changes never cost the only restore point (Prune, renameCorrupt). *)
LastRestorePointSurvives ==
    hadTrusted /\ leftovers < KeepDaily => Trusted # {}

(* The health check never pairs a tick that succeeded with a directory it did not leave,
   and a tick that could remove what it had to leaves no more quarantined copies than the
   bound, failed tick or not (runOnce's two deferred calls). *)
StatusTellsDirectory ==
    \A s \in status :
        /\ s.stuck = 0 => s.quarantined <= KeepCorrupt
        /\ tick.step = "idle" =>
              s.trusted = Cardinality(Trusted) /\ s.quarantined = Cardinality(quarantined)

BackupsHold == TrustedIsVerified /\ LastRestorePointSurvives /\ StatusTellsDirectory
=============================================================================
