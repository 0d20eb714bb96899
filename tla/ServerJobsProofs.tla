-------------------------- MODULE ServerJobsProofs --------------------------
(***************************************************************************)
(* Proofs about what the server does beside its requests: the over-budget  *)
(* push, the scheduled backups, the snapshots taken before a migration and *)
(* the limit on sign-ins.  Backups and snapshots are pruned by rank, so    *)
(* the lemmas on the newest few of a set come first.                       *)
(***************************************************************************)
EXTENDS BudgetAlerts, Backups, MigrationSnapshots, RateLimit, TLAPS, FiniteSetTheorems,
        SequenceTheorems, WellFoundedInduction

(***************************************************************************)
(* The least, the greatest, and the few of highest rank.                   *)
(***************************************************************************)
\* A non-empty set of naturals has a least element.
LEMMA LeastNatural ==
  ASSUME NEW T \in SUBSET Nat, T # {}
  PROVE  \E x \in T : \A y \in T : x <= y
<1> DEFINE R == OpToRel(<, Nat)
<1>1. \A x, y \in Nat : y < x => <<y, x>> \in R
  BY DEF OpToRel
<1>2. IsWellFoundedOn(R, Nat)
  BY NatLessThanWellFounded
<1> HIDE DEF R
<1>3. PICK x \in T : \A y \in T : ~(<<y, x>> \in R)
  BY <1>2, WFMin
<1>4. ASSUME NEW y \in T PROVE x <= y
  <2>1. x \in Nat /\ y \in Nat
    OBVIOUS
  <2>2. ~(y < x)
    BY <1>1, <1>3, <2>1, Zenon
  <2>3. QED
    BY <2>1, <2>2
<1>5. QED
  BY <1>4

\* A non-empty bounded set of naturals has a greatest one.
LEMMA GreatestNatural ==
  ASSUME NEW b \in Nat, NEW T \in SUBSET (0..b), T # {}
  PROVE  \E x \in T : \A y \in T : y <= x
<1> DEFINE U == {b - y : y \in T}
<1>1. U \in SUBSET Nat /\ U # {}
  <2>1. ASSUME NEW y \in T PROVE b - y \in Nat
    <3>1. y \in Nat /\ y <= b
      OBVIOUS
    <3>2. QED
      BY <3>1
  <2>2. QED
    BY <2>1
<1>2. PICK u \in U : \A v \in U : u <= v
  BY <1>1, LeastNatural
<1>3. PICK x \in T : u = b - x
  OBVIOUS
<1>4. ASSUME NEW y \in T PROVE y <= x
  <2>1. b - x <= b - y
    BY <1>2, <1>3
  <2>2. QED
    BY <2>1
<1>5. QED
  BY <1>4

\* Of a finite set whose elements differ in rank, at most k have fewer than k above them.
LEMMA TopFew ==
  ASSUME NEW S, IsFiniteSet(S), NEW k \in Nat, NEW rank \in [S -> Nat],
         \A m, n \in S : rank[m] = rank[n] => m = n,
         NEW K \in SUBSET S,
         \A m \in K : \E above \in SUBSET S :
            Cardinality(above) < k /\ \A n \in S : rank[n] > rank[m] => n \in above
  PROVE  Cardinality(K) <= k
<1>1. IsFiniteSet(K) /\ Cardinality(K) \in Nat
  BY FS_Subset, FS_CardinalityType
<1>2. CASE K = {}
  BY <1>2, FS_EmptySet
<1>3. CASE K # {}
  <2> DEFINE ranks == {rank[m] : m \in K}
  <2>1. ranks \in SUBSET Nat /\ ranks # {}
    BY <1>3
  <2>2. PICK r \in ranks : \A q \in ranks : r <= q
    <3> HIDE DEF ranks
    <3>1. QED
      BY <2>1, LeastNatural
  <2>3. PICK x \in K : r = rank[x]
    OBVIOUS
  <2>4. PICK above \in SUBSET S : /\ Cardinality(above) < k
                                 /\ \A n \in S : rank[n] > rank[x] => n \in above
    OBVIOUS
  <2>5. IsFiniteSet(above) /\ Cardinality(above) \in Nat
    BY FS_Subset, FS_CardinalityType
  <2>6. Cardinality(above \cup {x}) <= Cardinality(above) + 1 /\ IsFiniteSet(above \cup {x})
    <3>1. CASE x \in above
      <4>1. above \cup {x} = above
        BY <3>1
      <4>2. QED
        BY <4>1, <2>5
    <3>2. CASE x \notin above
      <4>1. IsFiniteSet(above \cup {x}) /\ Cardinality(above \cup {x}) = Cardinality(above) + 1
        BY <3>2, <2>5, FS_AddElement
      <4>2. QED
        BY <4>1, <2>5
    <3>3. QED
      BY <3>1, <3>2
  <2>7. K \subseteq above \cup {x}
    <3> SUFFICES ASSUME NEW y \in K, y # x PROVE rank[y] > rank[x]
      BY <2>4
    <3>1. rank[x] <= rank[y] /\ x \in S /\ y \in S
      BY <2>2, <2>3
    <3>2. rank[x] # rank[y] /\ rank[x] \in Nat /\ rank[y] \in Nat
      BY <3>1
    <3>3. QED
      BY <3>1, <3>2
  <2>8. Cardinality(K) <= Cardinality(above \cup {x}) /\ Cardinality(above \cup {x}) \in Nat
    BY <2>6, <2>7, FS_Subset, FS_CardinalityType
  <2>9. QED
    BY <1>1, <2>4, <2>5, <2>6, <2>8
<1>4. QED
  BY <1>2, <1>3

(***************************************************************************)
(* The scheduled backups.                                                  *)
(***************************************************************************)
BackupSpec == BackupInit /\ [][BackupNext]_backupVars

Ticks == [step : {"idle", "copy", "copying", "verify", "sidecar", "prune", "pruning"},
          at : Minutes, outcome : {"error", "verify_failed", "success"}]

BackupShapes ==
  /\ minute \in Minutes /\ files \in [Minutes -> {"none", "half", "copy"}]
  /\ sound \subseteq Minutes /\ sidecars \subseteq Minutes /\ quarantined \subseteq Minutes
  /\ tick \in Ticks
  /\ doomed \subseteq [name : Minutes, corrupt : BOOLEAN]
  /\ unremovable \in Nat /\ leftovers \in Nat /\ hadTrusted \in BOOLEAN

\* The file a tick works on, and the files a checksum vouches for.
InPlace ==
  /\ sound \subseteq {m \in Minutes : files[m] = "copy"}
  /\ Trusted \subseteq sound
  /\ tick.step = "copying" => files[tick.at] = "half" /\ tick.at \notin sidecars
  /\ tick.step = "verify" => /\ files[tick.at] = "copy"
                             /\ tick.at \notin sound /\ tick.at \notin sidecars
  /\ tick.step = "sidecar" => tick.at \in sound /\ tick.at \notin sidecars

\* Only a sweep has something left to remove.
SweepOnly == doomed # {} => tick.step = "pruning"

\* The file of the tick under way may still get its checksum file.
Unsealed == IF tick.step \in {"copying", "verify", "sidecar"} THEN 1 ELSE 0

\* Every file without a checksum file was counted.
Counted == Cardinality(Backed \ sidecars) <= leftovers

\* Some trusted backup is not to be swept, as long as few enough files were left without
\* a checksum for good.
SafeBackup(m) == [name |-> m, corrupt |-> FALSE] \notin doomed
RestorePoint ==
  hadTrusted /\ leftovers - Unsealed < KeepDaily => \E m \in Trusted : SafeBackup(m)

\* What the sweep leaves of the quarantine if nothing resists it.
Staying == {m \in quarantined : [name |-> m, corrupt |-> TRUE] \notin doomed}
Swept == tick.step = "pruning" /\ unremovable = 0 => Cardinality(Staying) <= KeepCorrupt

BackupInv ==
  BackupShapes /\ InPlace /\ SweepOnly /\ Counted /\ RestorePoint /\ Swept /\ StatusTellsDirectory

\* The bounds are numbers, and the sets of names finite.
LEMMA NamesFinite ==
  /\ Minutes \subseteq Nat /\ IsFiniteSet(Minutes) /\ Backed \subseteq Minutes
  /\ \A S \in SUBSET Minutes : IsFiniteSet(S) /\ Cardinality(S) \in Nat
  /\ LastMinute \in Nat /\ KeepDaily \in Nat \ {0} /\ KeepCorrupt \in Nat
<1>1. LastMinute \in Nat /\ KeepDaily \in Nat \ {0} /\ KeepCorrupt \in Nat
  BY BackupAssumption
<1>2. IsFiniteSet(Minutes) /\ Minutes \subseteq Nat
  BY <1>1, FS_Interval DEF Minutes
<1>3. QED
  BY <1>1, <1>2, FS_Subset, FS_CardinalityType DEF Backed

\* The newest trusted backup has only files without a checksum after it, so retention
\* keeps it while there are fewer of those than it keeps files.
LEMMA NewestTrustedKept ==
  ASSUME BackupShapes, Counted, leftovers < KeepDaily, Trusted # {}
  PROVE  \E m \in Trusted : m \in KeptBackups
<1>1. Trusted \in SUBSET (0..LastMinute) /\ Trusted \subseteq Backed /\ Backed \subseteq Minutes
  BY DEF Trusted, Backed, Minutes
<1>2. PICK m \in Trusted : \A n \in Trusted : n <= m
  BY <1>1, GreatestNatural, NamesFinite
<1> DEFINE newer == {n \in Backed : n > m}
<1>3. newer \subseteq Backed \ sidecars
  <2> SUFFICES ASSUME NEW n \in Backed, n > m, n \in sidecars PROVE FALSE
    OBVIOUS
  <2>1. n \in Trusted /\ n \in Nat /\ m \in Nat
    BY <1>1, NamesFinite DEF Trusted
  <2>2. QED
    BY <1>2, <2>1
<1>4. (Backed \ sidecars) \in SUBSET Minutes /\ newer \in SUBSET Minutes
  BY <1>1
<1> HIDE DEF newer
<1>5. Cardinality(newer) <= Cardinality(Backed \ sidecars)
  BY <1>3, <1>4, NamesFinite, FS_Subset
<1>6. Cardinality(newer) < KeepDaily
  <2>1. Cardinality(newer) \in Nat /\ Cardinality(Backed \ sidecars) \in Nat /\ leftovers \in Nat
        /\ KeepDaily \in Nat
    BY <1>4, NamesFinite DEF BackupShapes
  <2>2. QED
    BY <1>5, <2>1 DEF Counted
<1>7. QED
  BY <1>1, <1>6 DEF KeptBackups, newer

\* Quarantined copies that stay are few.
LEMMA FewStay ==
  ASSUME BackupShapes
  PROVE  Cardinality(KeptCorrupt) <= KeepCorrupt
<1> DEFINE rank == [m \in quarantined |-> m]
<1>1. quarantined \subseteq Nat /\ IsFiniteSet(quarantined) /\ KeepCorrupt \in Nat
  BY NamesFinite DEF BackupShapes
<1>2. rank \in [quarantined -> Nat] /\ \A m, n \in quarantined : rank[m] = rank[n] => m = n
  BY <1>1
<1>3. \A m \in KeptCorrupt : \E above \in SUBSET quarantined :
         /\ Cardinality(above) < KeepCorrupt
         /\ \A n \in quarantined : rank[n] > rank[m] => n \in above
  <2> SUFFICES ASSUME NEW m \in KeptCorrupt
               PROVE  \E above \in SUBSET quarantined :
                         /\ Cardinality(above) < KeepCorrupt
                         /\ \A n \in quarantined : rank[n] > rank[m] => n \in above
    OBVIOUS
  <2> DEFINE A == {n \in quarantined : n > m}
  <2>1. A \in SUBSET quarantined /\ Cardinality(A) < KeepCorrupt /\ m \in quarantined
    BY DEF KeptCorrupt
  <2>2. \A n \in quarantined : rank[n] > rank[m] => n \in A
    BY <2>1
  <2> HIDE DEF A
  <2>3. QED
    BY <2>1, <2>2
<1>4. KeptCorrupt \in SUBSET quarantined
  BY DEF KeptCorrupt
<1>5. (\A m, n \in quarantined : rank[m] = rank[n] => m = n) /\ rank \in [quarantined -> Nat]
  BY <1>2
<1> HIDE DEF rank
<1>6. QED
  BY <1>1, <1>3, <1>4, <1>5, TopFew

LEMMA BackupStarts == BackupInit => BackupInv
<1> SUFFICES ASSUME BackupInit PROVE BackupInv
  OBVIOUS
<1>1. 0 \in Minutes
  BY NamesFinite DEF Minutes
<1>2. Backed = {} /\ Trusted = {}
  BY DEF BackupInit, Backed, Trusted
<1>3. BackupShapes /\ InPlace /\ SweepOnly /\ Swept /\ StatusTellsDirectory
  BY <1>1, <1>2 DEF BackupInit, BackupShapes, InPlace, SweepOnly, Swept, StatusTellsDirectory,
                    Ticks, NoTick
<1>4. Counted /\ RestorePoint
  BY <1>2, FS_EmptySet DEF BackupInit, Counted, RestorePoint
<1>5. QED
  BY <1>3, <1>4 DEF BackupInv

\* What a step leaves in place when the files, their checksums and the sweep stay as they
\* are, and no file stops waiting for its checksum.
LEMMA FilesUntouched ==
  ASSUME BackupInv, UNCHANGED <<files, sidecars, leftovers, hadTrusted, doomed>>,
         Unsealed' <= Unsealed
  PROVE  Counted' /\ RestorePoint'
<1>1. Backed' = Backed /\ Trusted' = Trusted
  BY DEF Backed, Trusted
<1>2. Counted'
  BY <1>1 DEF BackupInv, Counted
<1>3. leftovers \in Nat /\ leftovers' = leftovers /\ Unsealed \in Nat /\ Unsealed' \in Nat /\ KeepDaily \in Nat
  BY NamesFinite DEF BackupInv, BackupShapes, Unsealed
<1>4. RestorePoint'
  <2>1. leftovers' - Unsealed' < KeepDaily => leftovers - Unsealed < KeepDaily
    <3> HIDE DEF Unsealed
    <3>1. \A l, p, q, k \in Nat : p <= q /\ l - p < k => l - q < k
      OBVIOUS
    <3>2. QED
      BY <1>3, <3>1, Zenon
  <2>2. QED
    BY <1>1, <2>1, Zenon DEF BackupInv, RestorePoint, SafeBackup
<1>5. QED
  BY <1>2, <1>4

\* A file without a checksum file that goes, uncounted, leaves the count right.
LEMMA UncountOne ==
  ASSUME BackupInv, NEW a \in Backed, a \notin sidecars,
         Backed' = Backed \ {a}, sidecars' = sidecars, leftovers' = leftovers - 1
  PROVE  Counted' /\ leftovers' \in Nat
<1>1. (Backed \ sidecars) \in SUBSET Minutes /\ (Backed' \ sidecars') \in SUBSET Minutes
  BY NamesFinite
<1>2. (Backed' \ sidecars') \cup {a} = Backed \ sidecars /\ a \notin Backed' \ sidecars'
  OBVIOUS
<1>3. Cardinality(Backed \ sidecars) = Cardinality(Backed' \ sidecars') + 1
  BY <1>1, <1>2, NamesFinite, FS_AddElement
<1>4. Cardinality(Backed' \ sidecars') \in Nat /\ leftovers \in Nat
  BY <1>1, NamesFinite DEF BackupInv, BackupShapes
<1>5. QED
  BY <1>3, <1>4 DEF BackupInv, Counted

\* A tick that gives up before its checksum file leaves its own file behind, if it has one.
LEMMA GivenUp ==
  ASSUME BackupInv, tick.step \in {"copy", "copying", "verify", "sidecar"},
         tick' = [tick EXCEPT !.step = "prune"]
           \/ tick' = [tick EXCEPT !.step = "prune", !.outcome = "verify_failed"],
         UNCHANGED <<minute, files, sound, sidecars, quarantined, doomed, unremovable, status,
                     leftovers, hadTrusted>>
  PROVE  BackupInv'
<1>1. tick \in Ticks /\ doomed = {}
  BY DEF BackupInv, BackupShapes, SweepOnly
<1>2. tick' \in Ticks /\ tick'.step = "prune"
  BY <1>1 DEF Ticks
<1>3. Counted' /\ RestorePoint'
  <2>1. Unsealed' = 0 /\ Unsealed \in Nat
    BY <1>2 DEF Unsealed
  <2>2. QED
    BY <2>1, FilesUntouched
<1>4. Trusted' = Trusted
  BY DEF Trusted, Backed
<1>5. BackupShapes'
  BY <1>2 DEF BackupInv, BackupShapes
<1>6. InPlace' /\ SweepOnly' /\ Swept' /\ StatusTellsDirectory'
  BY <1>1, <1>2, <1>4 DEF BackupInv, InPlace, SweepOnly, Swept, StatusTellsDirectory
<1>7. QED
  BY <1>3, <1>5, <1>6 DEF BackupInv

LEMMA ClockKeeps == ASSUME BackupInv, Clock PROVE BackupInv'
<1>1. UNCHANGED <<files, sound, sidecars, leftovers, hadTrusted, doomed, tick, quarantined,
                  unremovable, status>>
  BY DEF Clock
<1>2. Counted' /\ RestorePoint'
  <2>1. Unsealed' = Unsealed /\ Unsealed \in Nat
    BY <1>1 DEF Unsealed
  <2>2. QED
    BY <1>1, <2>1, FilesUntouched
<1>3. minute' \in Minutes
  BY NamesFinite DEF Clock, BackupFault, Minutes, BackupInv, BackupShapes
<1>4. Trusted' = Trusted /\ Staying' = Staying
  BY <1>1 DEF Trusted, Backed, Staying
<1>5. BackupShapes'
  BY <1>1, <1>3 DEF BackupInv, BackupShapes
<1>6. InPlace' /\ SweepOnly' /\ Swept' /\ StatusTellsDirectory'
  BY <1>1, <1>4 DEF BackupInv, InPlace, SweepOnly, Swept, StatusTellsDirectory
<1>7. QED
  BY <1>2, <1>5, <1>6 DEF BackupInv

LEMMA StartTickKeeps == ASSUME BackupInv, StartTick PROVE BackupInv'
<1>1. UNCHANGED <<minute, files, sound, sidecars, leftovers, hadTrusted, doomed, quarantined,
                  unremovable, status>> /\ tick.step = "idle"
  BY DEF StartTick
<1>2. \E st \in {"copy", "prune"} : tick' = [step |-> st, at |-> minute, outcome |-> "error"]
  BY DEF StartTick
<1>3. Counted' /\ RestorePoint'
  <2>1. Unsealed' = 0 /\ Unsealed = 0
    BY <1>1, <1>2 DEF Unsealed
  <2>2. QED
    BY <1>1, <2>1, FilesUntouched
<1>4. Trusted' = Trusted /\ doomed = {}
  BY <1>1 DEF Trusted, Backed, BackupInv, SweepOnly
<1>5. tick' \in Ticks /\ tick'.step \in {"copy", "prune"}
  BY <1>2 DEF BackupInv, BackupShapes, Ticks
<1>6. BackupShapes'
  BY <1>1, <1>5 DEF BackupInv, BackupShapes
<1>7. InPlace' /\ SweepOnly' /\ Swept' /\ StatusTellsDirectory'
  BY <1>1, <1>4, <1>5 DEF BackupInv, InPlace, SweepOnly, Swept, StatusTellsDirectory
<1>8. QED
  BY <1>3, <1>6, <1>7 DEF BackupInv

LEMMA SnapshotKeeps == ASSUME BackupInv, Snapshot PROVE BackupInv'
<1> DEFINE a == tick.at
<1>1. /\ UNCHANGED <<minute, sound, sidecars, quarantined, doomed, unremovable, status, hadTrusted>>
      /\ tick.step = "copy" /\ tick \in Ticks /\ a \in Minutes /\ doomed = {}
  BY DEF Snapshot, BackupInv, BackupShapes, Ticks, SweepOnly
<1>2. CASE /\ NameIsFree(a) /\ files' = [files EXCEPT ![a] = "half"]
           /\ leftovers' = leftovers + 1 /\ tick' = [tick EXCEPT !.step = "copying"]
  <2>1. Backed' = Backed \cup {a} /\ a \notin Backed /\ a \notin sidecars /\ a \notin sound
    BY <1>1, <1>2 DEF Backed, NameIsFree, BackupInv, BackupShapes, InPlace
  <2>2. Trusted' = Trusted
    BY <1>1, <2>1 DEF Trusted
  <2>3. tick' \in Ticks /\ tick'.step = "copying" /\ tick'.at = a
    BY <1>1, <1>2 DEF Ticks
  <2>4. BackupShapes'
    BY <1>1, <1>2, <2>3 DEF BackupInv, BackupShapes
  <2>5. InPlace' /\ SweepOnly' /\ Swept' /\ StatusTellsDirectory'
    BY <1>1, <1>2, <2>1, <2>2, <2>3
       DEF BackupInv, BackupShapes, InPlace, SweepOnly, Swept, StatusTellsDirectory
  <2>6. Counted'
    <3>1. Backed' \ sidecars' = (Backed \ sidecars) \cup {a} /\ a \notin Backed \ sidecars
      BY <1>1, <2>1
    <3>2. (Backed \ sidecars) \in SUBSET Minutes
      BY NamesFinite
    <3>3. Cardinality(Backed' \ sidecars') = Cardinality(Backed \ sidecars) + 1
      BY <3>1, <3>2, NamesFinite, FS_AddElement
    <3>4. Cardinality(Backed \ sidecars) \in Nat /\ leftovers \in Nat
      BY <3>2, NamesFinite DEF BackupInv, BackupShapes
    <3>5. QED
      BY <1>2, <3>3, <3>4 DEF BackupInv, Counted
  <2>7. RestorePoint'
    <3>1. leftovers' - Unsealed' = leftovers - Unsealed
      BY <1>1, <1>2, <2>3 DEF Unsealed, BackupInv, BackupShapes
    <3>2. QED
      BY <1>1, <2>2, <3>1 DEF BackupInv, RestorePoint, SafeBackup
  <2>8. QED
    BY <2>4, <2>5, <2>6, <2>7 DEF BackupInv
<1>3. CASE tick' = [tick EXCEPT !.step = "prune"] /\ UNCHANGED <<files, leftovers>>
  BY <1>1, <1>3, GivenUp
<1>4. QED
  BY <1>2, <1>3 DEF Snapshot

LEMMA CopyEndsKeeps == ASSUME BackupInv, CopyEnds PROVE BackupInv'
<1> DEFINE a == tick.at
<1>1. /\ UNCHANGED <<minute, sound, sidecars, quarantined, doomed, unremovable, status, hadTrusted>>
      /\ tick.step = "copying" /\ tick \in Ticks /\ a \in Minutes /\ doomed = {}
      /\ files[a] = "half" /\ a \notin sidecars /\ a \notin sound
  BY DEF CopyEnds, BackupInv, BackupShapes, Ticks, SweepOnly, InPlace
<1>2. CASE /\ files' = [files EXCEPT ![a] = "copy"]
           /\ tick' = [tick EXCEPT !.step = "verify"] /\ UNCHANGED leftovers
  <2>1. Backed' = Backed
    BY <1>1, <1>2 DEF Backed, BackupInv, BackupShapes
  <2>2. Trusted' = Trusted
    BY <1>1, <2>1 DEF Trusted
  <2>3. tick' \in Ticks /\ tick'.step = "verify" /\ tick'.at = a
    BY <1>1, <1>2 DEF Ticks
  <2>4. BackupShapes'
    BY <1>1, <1>2, <2>3 DEF BackupInv, BackupShapes
  <2>5. InPlace' /\ SweepOnly' /\ Swept' /\ StatusTellsDirectory'
    BY <1>1, <1>2, <2>2, <2>3
       DEF BackupInv, BackupShapes, InPlace, SweepOnly, Swept, StatusTellsDirectory
  <2>6. Counted'
    BY <1>1, <1>2, <2>1 DEF BackupInv, Counted
  <2>7. RestorePoint'
    <3>1. leftovers' - Unsealed' = leftovers - Unsealed
      BY <1>1, <1>2, <2>3 DEF Unsealed
    <3>2. QED
      BY <1>1, <2>2, <3>1 DEF BackupInv, RestorePoint, SafeBackup
  <2>8. QED
    BY <2>4, <2>5, <2>6, <2>7 DEF BackupInv
<1>3. CASE /\ files' = [files EXCEPT ![a] = "none"] /\ leftovers' = leftovers - 1
           /\ tick' = [tick EXCEPT !.step = "prune"]
  <2>1. Backed' = Backed \ {a} /\ a \in Backed
    BY <1>1, <1>3 DEF Backed, BackupInv, BackupShapes
  <2>2. Trusted' = Trusted
    BY <1>1, <2>1 DEF Trusted
  <2>3. tick' \in Ticks /\ tick'.step = "prune"
    BY <1>1, <1>3 DEF Ticks
  <2>4. Counted' /\ leftovers' \in Nat
    BY <1>1, <1>3, <2>1, UncountOne DEF BackupInv, Counted
  <2>5. BackupShapes'
    BY <1>1, <1>3, <2>3, <2>4 DEF BackupInv, BackupShapes
  <2>6. InPlace' /\ SweepOnly' /\ Swept' /\ StatusTellsDirectory'
    BY <1>1, <1>3, <2>2, <2>3
       DEF BackupInv, BackupShapes, InPlace, SweepOnly, Swept, StatusTellsDirectory
  <2>7. RestorePoint'
    <3>1. leftovers' - Unsealed' = leftovers - Unsealed
      BY <1>1, <1>3, <2>3 DEF Unsealed, BackupInv, BackupShapes
    <3>2. QED
      BY <1>1, <2>2, <3>1 DEF BackupInv, RestorePoint, SafeBackup
  <2>8. QED
    BY <2>4, <2>5, <2>6, <2>7 DEF BackupInv
<1>4. CASE tick' = [tick EXCEPT !.step = "prune"] /\ UNCHANGED <<files, leftovers>>
  BY <1>1, <1>4, GivenUp
<1>5. QED
  BY <1>2, <1>3, <1>4 DEF CopyEnds

LEMMA VerifyKeeps == ASSUME BackupInv, VerifyCopy PROVE BackupInv'
<1> DEFINE a == tick.at
<1>1. /\ UNCHANGED <<minute, sidecars, doomed, unremovable, status, hadTrusted>>
      /\ tick.step = "verify" /\ tick \in Ticks /\ a \in Minutes /\ doomed = {}
      /\ files[a] = "copy" /\ a \notin sidecars /\ a \notin sound
  BY DEF VerifyCopy, BackupInv, BackupShapes, Ticks, SweepOnly, InPlace
<1>2. CASE /\ sound' = sound \cup {a} /\ tick' = [tick EXCEPT !.step = "sidecar"]
           /\ UNCHANGED <<files, quarantined, leftovers>>
  <2>1. Trusted' = Trusted /\ Backed' = Backed
    BY <1>1, <1>2 DEF Backed, Trusted
  <2>2. tick' \in Ticks /\ tick'.step = "sidecar" /\ tick'.at = a
    BY <1>1, <1>2 DEF Ticks
  <2>3. BackupShapes'
    BY <1>1, <1>2, <2>2 DEF BackupInv, BackupShapes
  <2>4. InPlace' /\ SweepOnly' /\ Swept' /\ StatusTellsDirectory'
    BY <1>1, <1>2, <2>1, <2>2
       DEF BackupInv, BackupShapes, InPlace, SweepOnly, Swept, StatusTellsDirectory
  <2>5. Counted' /\ RestorePoint'
    <3>1. Unsealed' = 1 /\ Unsealed = 1
      BY <1>1, <2>2 DEF Unsealed
    <3>2. QED
      BY <1>1, <1>2, <3>1, FilesUntouched
  <2>6. QED
    BY <2>3, <2>4, <2>5 DEF BackupInv
<1>3. CASE /\ files' = [files EXCEPT ![a] = "none"] /\ leftovers' = leftovers - 1
           /\ quarantined' = quarantined \cup {a} /\ UNCHANGED sound
           /\ tick' = [tick EXCEPT !.step = "prune", !.outcome = "verify_failed"]
  <2>1. Backed' = Backed \ {a} /\ a \in Backed
    BY <1>1, <1>3 DEF Backed, BackupInv, BackupShapes
  <2>2. Trusted' = Trusted
    BY <1>1, <2>1 DEF Trusted
  <2>3. tick' \in Ticks /\ tick'.step = "prune"
    BY <1>1, <1>3 DEF Ticks
  <2>4. Counted' /\ leftovers' \in Nat
    BY <1>1, <1>3, <2>1, UncountOne DEF BackupInv, Counted
  <2>5. BackupShapes'
    BY <1>1, <1>3, <2>3, <2>4 DEF BackupInv, BackupShapes
  <2>6. InPlace' /\ SweepOnly' /\ Swept' /\ StatusTellsDirectory'
    BY <1>1, <1>3, <2>2, <2>3
       DEF BackupInv, BackupShapes, InPlace, SweepOnly, Swept, StatusTellsDirectory
  <2>7. RestorePoint'
    <3>1. leftovers' - Unsealed' = leftovers - Unsealed
      BY <1>1, <1>3, <2>3 DEF Unsealed, BackupInv, BackupShapes
    <3>2. QED
      BY <1>1, <2>2, <3>1 DEF BackupInv, RestorePoint, SafeBackup
  <2>8. QED
    BY <2>4, <2>5, <2>6, <2>7 DEF BackupInv
<1>4. CASE /\ tick' = [tick EXCEPT !.step = "prune", !.outcome = "verify_failed"]
           /\ UNCHANGED <<files, leftovers, quarantined, sound>>
  BY <1>1, <1>4, GivenUp
<1>5. QED
  BY <1>2, <1>3, <1>4 DEF VerifyCopy

LEMMA SidecarKeeps == ASSUME BackupInv, WriteSidecar PROVE BackupInv'
<1> DEFINE a == tick.at
<1>1. /\ UNCHANGED <<minute, files, sound, quarantined, doomed, unremovable, status>>
      /\ tick.step = "sidecar" /\ tick \in Ticks /\ a \in Minutes /\ doomed = {}
      /\ a \in sound /\ a \notin sidecars /\ files[a] = "copy"
  BY DEF WriteSidecar, BackupInv, BackupShapes, Ticks, SweepOnly, InPlace
<1>2. CASE /\ sidecars' = sidecars \cup {a} /\ leftovers' = leftovers - 1 /\ hadTrusted' = TRUE
           /\ tick' = [tick EXCEPT !.step = "prune", !.outcome = "success"]
  <2>1. Backed' = Backed /\ a \in Backed /\ Trusted' = Trusted \cup {a}
    BY <1>1, <1>2 DEF Backed, Trusted
  <2>2. tick' \in Ticks /\ tick'.step = "prune"
    BY <1>1, <1>2 DEF Ticks
  <2>3. Counted' /\ leftovers' \in Nat
    <3>1. (Backed \ sidecars) \in SUBSET Minutes /\ (Backed' \ sidecars') \in SUBSET Minutes
      BY <2>1, NamesFinite
    <3>2. (Backed' \ sidecars') \cup {a} = Backed \ sidecars /\ a \notin Backed' \ sidecars'
      BY <1>1, <1>2, <2>1
    <3>3. Cardinality(Backed \ sidecars) = Cardinality(Backed' \ sidecars') + 1
      BY <3>1, <3>2, NamesFinite, FS_AddElement
    <3>4. Cardinality(Backed' \ sidecars') \in Nat /\ leftovers \in Nat
      BY <3>1, NamesFinite DEF BackupInv, BackupShapes
    <3>5. QED
      BY <1>2, <3>3, <3>4 DEF BackupInv, Counted
  <2>4. BackupShapes'
    BY <1>1, <1>2, <2>2, <2>3 DEF BackupInv, BackupShapes
  <2>5. InPlace' /\ SweepOnly' /\ Swept' /\ StatusTellsDirectory'
    BY <1>1, <1>2, <2>1, <2>2
       DEF BackupInv, BackupShapes, InPlace, SweepOnly, Swept, StatusTellsDirectory
  <2>6. RestorePoint'
    BY <1>1, <2>1 DEF RestorePoint, SafeBackup
  <2>7. QED
    BY <2>3, <2>4, <2>5, <2>6 DEF BackupInv
<1>3. CASE tick' = [tick EXCEPT !.step = "prune"] /\ UNCHANGED <<sidecars, leftovers, hadTrusted>>
  BY <1>1, <1>3, GivenUp
<1>4. QED
  BY <1>2, <1>3 DEF WriteSidecar

LEMMA StartPruneKeeps == ASSUME BackupInv, StartPrune PROVE BackupInv'
<1>1. /\ UNCHANGED <<minute, files, sound, sidecars, quarantined, status, leftovers, hadTrusted>>
      /\ tick.step = "prune" /\ tick \in Ticks /\ doomed' = Doomed /\ unremovable' = 0
      /\ tick' = [tick EXCEPT !.step = "pruning"]
  BY DEF StartPrune, BackupInv, BackupShapes
<1>2. Backed' = Backed /\ Trusted' = Trusted
  BY <1>1 DEF Backed, Trusted
<1>3. tick' \in Ticks /\ tick'.step = "pruning" /\ Unsealed' = 0 /\ Unsealed = 0
  BY <1>1 DEF Ticks, Unsealed
<1>4. Doomed \subseteq [name : Minutes, corrupt : BOOLEAN]
  <2>1. quarantined \subseteq Minutes /\ Backed \subseteq Minutes
    BY NamesFinite DEF BackupInv, BackupShapes
  <2>2. ASSUME NEW m \in Minutes, NEW c \in BOOLEAN
        PROVE  [name |-> m, corrupt |-> c] \in [name : Minutes, corrupt : BOOLEAN]
    OBVIOUS
  <2>3. QED
    BY <2>1, <2>2, Zenon DEF Doomed
<1>5. BackupShapes'
  BY <1>1, <1>3, <1>4 DEF BackupInv, BackupShapes
<1>6. InPlace' /\ SweepOnly' /\ Counted'
  BY <1>1, <1>2, <1>3 DEF BackupInv, InPlace, SweepOnly, Counted
<1>7. StatusTellsDirectory'
  BY <1>1, <1>3 DEF BackupInv, StatusTellsDirectory
<1>8. Swept'
  <2>1. Staying' = KeptCorrupt
    <3>1. \A m \in quarantined : [name |-> m, corrupt |-> TRUE] \in Doomed <=> m \notin KeptCorrupt
      BY DEF Doomed
    <3>2. KeptCorrupt \subseteq quarantined
      BY DEF KeptCorrupt
    <3>3. QED
      BY <1>1, <3>1, <3>2 DEF Staying
  <2>2. QED
    BY <2>1, FewStay DEF Swept, BackupInv
<1>9. RestorePoint'
  <2> SUFFICES ASSUME hadTrusted, leftovers < KeepDaily
               PROVE  \E m \in Trusted : [name |-> m, corrupt |-> FALSE] \notin Doomed
    <3>1. leftovers \in Nat /\ leftovers' - Unsealed' = leftovers
      BY <1>1, <1>3 DEF BackupInv, BackupShapes
    <3>2. QED
      BY <1>1, <1>2, <3>1 DEF RestorePoint, SafeBackup
  <2>1. leftovers - Unsealed < KeepDaily
    BY <1>3 DEF BackupInv, BackupShapes
  <2>2. Trusted # {}
    BY <2>1 DEF BackupInv, RestorePoint
  <2>3. PICK m \in Trusted : m \in KeptBackups
    BY <2>2, NewestTrustedKept DEF BackupInv
  <2>4. [name |-> m, corrupt |-> FALSE] \notin Doomed
    BY <2>3 DEF Doomed
  <2>5. QED
    BY <2>4
<1>10. QED
  BY <1>5, <1>6, <1>7, <1>8, <1>9 DEF BackupInv

LEMMA PruneFileKeeps == ASSUME BackupInv, PruneFile PROVE BackupInv'
<1>1. UNCHANGED <<minute, tick, status, leftovers, hadTrusted>> /\ tick.step = "pruning"
      /\ tick \in Ticks /\ Unsealed = 0 /\ Unsealed' = 0
  BY DEF PruneFile, BackupInv, BackupShapes, Unsealed
<1>2. PICK d \in doomed :
         /\ doomed' = doomed \ {d}
         /\ \/ /\ files' = IF d.corrupt THEN files ELSE [files EXCEPT ![d.name] = "none"]
               /\ sound' = IF d.corrupt THEN sound ELSE sound \ {d.name}
               /\ quarantined' = IF d.corrupt THEN quarantined \ {d.name} ELSE quarantined
               /\ sidecars' \in {sidecars, IF d.corrupt THEN sidecars ELSE sidecars \ {d.name}}
               /\ UNCHANGED unremovable
            \/ /\ unremovable' = unremovable + 1
               /\ UNCHANGED <<files, sound, quarantined, sidecars>>
  BY DEF PruneFile
<1>3. d \in [name : Minutes, corrupt : BOOLEAN] /\ d.name \in Minutes /\ d.corrupt \in BOOLEAN
  BY DEF BackupInv, BackupShapes
<1>4. SweepOnly' /\ StatusTellsDirectory'
  BY <1>1 DEF BackupInv, SweepOnly, StatusTellsDirectory
<1>5. CASE unremovable' = unremovable + 1 /\ UNCHANGED <<files, sound, quarantined, sidecars>>
  <2>1. Backed' = Backed /\ Trusted' = Trusted
    BY <1>5 DEF Backed, Trusted
  <2>2. BackupShapes' /\ unremovable' # 0
    BY <1>1, <1>2, <1>5 DEF BackupInv, BackupShapes
  <2>3. InPlace' /\ Counted' /\ Swept'
    BY <1>1, <1>5, <2>1, <2>2 DEF BackupInv, InPlace, Counted, Swept
  <2>4. RestorePoint'
    BY <1>1, <1>2, <2>1 DEF BackupInv, RestorePoint, SafeBackup
  <2>5. QED
    BY <1>4, <2>2, <2>3, <2>4 DEF BackupInv
<1>6. CASE /\ d.corrupt = TRUE /\ quarantined' = quarantined \ {d.name}
           /\ UNCHANGED <<files, sound, sidecars, unremovable>>
  <2>1. Backed' = Backed /\ Trusted' = Trusted
    BY <1>6 DEF Backed, Trusted
  <2>2. BackupShapes'
    BY <1>1, <1>2, <1>6 DEF BackupInv, BackupShapes
  <2>3. InPlace' /\ Counted'
    BY <1>1, <1>6, <2>1 DEF BackupInv, InPlace, Counted
  <2>4. RestorePoint'
    BY <1>1, <1>2, <2>1 DEF BackupInv, RestorePoint, SafeBackup
  <2>5. Staying' = Staying
    <3>1. d = [name |-> d.name, corrupt |-> TRUE]
      BY <1>3, <1>6
    <3>2. \A m \in quarantined' : [name |-> m, corrupt |-> TRUE] \in doomed' <=>
                                  [name |-> m, corrupt |-> TRUE] \in doomed
      BY <1>2, <1>6, <3>1
    <3>3. d.name \notin Staying
      BY <3>1 DEF Staying
    <3>4. QED
      BY <1>6, <3>2, <3>3 DEF Staying
  <2>6. Swept'
    BY <1>1, <1>6, <2>5 DEF BackupInv, Swept
  <2>7. QED
    BY <1>4, <2>2, <2>3, <2>4, <2>6 DEF BackupInv
<1>7. CASE /\ d.corrupt = FALSE /\ files' = [files EXCEPT ![d.name] = "none"]
           /\ sound' = sound \ {d.name} /\ sidecars' \in {sidecars, sidecars \ {d.name}}
           /\ UNCHANGED <<quarantined, unremovable>>
  <2>1. Backed' = Backed \ {d.name} /\ Trusted' = Trusted \ {d.name}
    BY <1>3, <1>7 DEF Backed, Trusted, BackupInv, BackupShapes
  <2>2. BackupShapes'
    BY <1>1, <1>2, <1>3, <1>7 DEF BackupInv, BackupShapes
  <2>3. InPlace'
    BY <1>1, <1>3, <1>7, <2>1 DEF BackupInv, BackupShapes, InPlace
  <2>4. Counted'
    <3>1. Backed' \ sidecars' \subseteq Backed \ sidecars
      BY <1>7, <2>1
    <3>2. (Backed \ sidecars) \in SUBSET Minutes /\ (Backed' \ sidecars') \in SUBSET Minutes
      BY <3>1, NamesFinite
    <3>3. Cardinality(Backed' \ sidecars') <= Cardinality(Backed \ sidecars)
      BY <3>1, <3>2, NamesFinite, FS_Subset
    <3>4. Cardinality(Backed' \ sidecars') \in Nat /\ Cardinality(Backed \ sidecars) \in Nat
          /\ leftovers \in Nat
      BY <3>2, NamesFinite DEF BackupInv, BackupShapes
    <3>5. QED
      BY <1>1, <3>3, <3>4 DEF BackupInv, Counted
  <2>5. d = [name |-> d.name, corrupt |-> FALSE]
    BY <1>3, <1>7
  <2>6. \A m \in Trusted : SafeBackup(m) => m # d.name
    BY <2>5 DEF SafeBackup
  <2>7. RestorePoint'
    BY <1>1, <1>2, <2>1, <2>6 DEF BackupInv, RestorePoint, SafeBackup
  <2>8. \A m : [name |-> m, corrupt |-> TRUE] # d
    BY <1>7
  <2>9. Staying' = Staying
    BY <1>2, <1>7, <2>8 DEF Staying
  <2>10. Swept'
    BY <1>1, <1>7, <2>9 DEF BackupInv, Swept
  <2>11. QED
    BY <1>4, <2>2, <2>3, <2>4, <2>7, <2>10 DEF BackupInv
<1>8. QED
  BY <1>2, <1>3, <1>5, <1>6, <1>7

LEMMA RecordKeeps == ASSUME BackupInv, RecordTick PROVE BackupInv'
<1>1. /\ UNCHANGED <<minute, files, sound, sidecars, quarantined, doomed, unremovable,
                     leftovers, hadTrusted>>
      /\ tick.step = "pruning" /\ doomed = {} /\ tick' = NoTick /\ tick'.step = "idle"
      /\ tick \in Ticks /\ Unsealed = 0 /\ Unsealed' = 0 /\ status' = {Observed(tick.outcome)}
  BY DEF RecordTick, BackupInv, BackupShapes, Unsealed, NoTick
<1>2. Trusted' = Trusted /\ Backed' = Backed
  BY <1>1 DEF Trusted, Backed
<1>3. Counted' /\ RestorePoint'
  BY <1>1, FilesUntouched
<1>4. BackupShapes'
  <2>1. tick' \in Ticks
    BY <1>1, NamesFinite DEF NoTick, Ticks, Minutes
  <2>2. QED
    BY <1>1, <2>1 DEF BackupInv, BackupShapes
<1>5. InPlace' /\ SweepOnly' /\ Swept'
  BY <1>1, <1>2 DEF BackupInv, InPlace, SweepOnly, Swept
<1>6. StatusTellsDirectory'
  <2>1. Staying = quarantined
    BY <1>1 DEF Staying
  <2>2. unremovable = 0 => Cardinality(quarantined) <= KeepCorrupt
    BY <1>1, <2>1 DEF BackupInv, Swept
  <2>3. \A s \in status' : /\ s.stuck = unremovable /\ s.trusted = Cardinality(Trusted)
                           /\ s.quarantined = Cardinality(quarantined)
    BY <1>1 DEF Observed
  <2>4. QED
    BY <1>1, <1>2, <2>2, <2>3 DEF StatusTellsDirectory
<1>7. QED
  BY <1>3, <1>4, <1>5, <1>6 DEF BackupInv

LEMMA KillBackupKeeps == ASSUME BackupInv, KillBackup PROVE BackupInv'
<1>1. /\ UNCHANGED <<minute, files, sound, sidecars, quarantined, leftovers, hadTrusted>>
      /\ doomed' = {} /\ tick' = NoTick /\ tick'.step = "idle" /\ unremovable' = 0
      /\ tick \in Ticks /\ Unsealed' = 0 /\ status' = {}
  BY DEF KillBackup, BackupInv, BackupShapes, Unsealed, NoTick
<1>2. Trusted' = Trusted /\ Backed' = Backed
  BY <1>1 DEF Trusted, Backed
<1>3. Counted'
  BY <1>1, <1>2 DEF BackupInv, Counted
<1>4. BackupShapes'
  <2>1. tick' \in Ticks
    BY <1>1, NamesFinite DEF NoTick, Ticks, Minutes
  <2>2. QED
    BY <1>1, <2>1 DEF BackupInv, BackupShapes
<1>5. InPlace' /\ SweepOnly' /\ Swept' /\ StatusTellsDirectory'
  BY <1>1, <1>2 DEF BackupInv, InPlace, SweepOnly, Swept, StatusTellsDirectory
<1>6. RestorePoint'
  <2>1. leftovers \in Nat /\ Unsealed \in Nat /\ KeepDaily \in Nat /\ leftovers' - Unsealed' = leftovers
    BY <1>1, NamesFinite DEF BackupInv, BackupShapes, Unsealed
  <2>2. leftovers < KeepDaily => leftovers - Unsealed < KeepDaily
    BY <2>1
  <2>3. QED
    BY <1>1, <1>2, <2>1, <2>2, Zenon DEF BackupInv, RestorePoint, SafeBackup
<1>7. QED
  BY <1>3, <1>4, <1>5, <1>6 DEF BackupInv

LEMMA BackupStep == BackupInv /\ [BackupNext]_backupVars => BackupInv'
<1> SUFFICES ASSUME BackupInv, [BackupNext]_backupVars PROVE BackupInv'
  OBVIOUS
<1>1. CASE UNCHANGED backupVars
  BY <1>1 DEF backupVars, BackupInv, BackupShapes, InPlace, SweepOnly, Counted, RestorePoint,
              SafeBackup, Swept, Staying, StatusTellsDirectory, Unsealed, Trusted, Backed
<1>2. QED
  BY <1>1, ClockKeeps, StartTickKeeps, SnapshotKeeps, CopyEndsKeeps, VerifyKeeps, SidecarKeeps,
     StartPruneKeeps, PruneFileKeeps, RecordKeeps, KillBackupKeeps DEF BackupNext

LEMMA BackupInvHolds == BackupInv => BackupsHold
<1> SUFFICES ASSUME BackupInv PROVE BackupsHold
  OBVIOUS
<1>1. TrustedIsVerified
  BY DEF BackupInv, InPlace, TrustedIsVerified
<1>2. LastRestorePointSurvives
  <2>1. leftovers \in Nat /\ Unsealed \in Nat /\ KeepDaily \in Nat
    BY NamesFinite DEF BackupInv, BackupShapes, Unsealed
  <2>2. leftovers < KeepDaily => leftovers - Unsealed < KeepDaily
    BY <2>1
  <2>3. QED
    BY <2>2 DEF BackupInv, RestorePoint, LastRestorePointSurvives
<1>3. QED
  BY <1>1, <1>2 DEF BackupsHold, BackupInv

\* Every trusted backup is a verified copy; the last one survives retention as long as few
\* files were left without a checksum; and the health check tells the directory the tick
\* left (internal/backup).
THEOREM BackupsAreSafe == BackupSpec => []BackupsHold
<1>1. BackupInit => BackupInv
  BY BackupStarts
<1>2. BackupInv /\ [BackupNext]_backupVars => BackupInv'
  BY BackupStep
<1>3. BackupInv => BackupsHold
  BY BackupInvHolds
<1>4. QED
  BY <1>1, <1>2, <1>3, PTL DEF BackupSpec

\* The backups are of their type: one published snapshot at most, and no more faults than allowed.
BackupBounds == backupFaults \in 0..MaxBackupFaults /\ \A x, y \in status : x = y

LEMMA BackupBoundsKept == ASSUME BackupBounds, [BackupNext]_backupVars PROVE BackupBounds'
<1>1. backupFaults \in Nat /\ MaxBackupFaults \in Nat
  BY BackupAssumption DEF BackupBounds
<1>2. ASSUME BackupFault \/ backupFaults' = backupFaults, status' \in {status, {}} PROVE BackupBounds'
  BY <1>1, <1>2 DEF BackupBounds, BackupFault
<1>3. CASE Clock \/ StartTick \/ Snapshot \/ CopyEnds \/ VerifyCopy
  BY <1>2, <1>3 DEF Clock, StartTick, Snapshot, CopyEnds, VerifyCopy
<1>4. CASE WriteSidecar \/ StartPrune \/ PruneFile \/ KillBackup
  BY <1>2, <1>4 DEF WriteSidecar, StartPrune, PruneFile, KillBackup
<1>5. CASE RecordTick
  <2>1. backupFaults' = backupFaults /\ status' = {Observed(tick.outcome)}
    BY <1>5 DEF RecordTick
  <2>2. QED
    BY <2>1 DEF BackupBounds
<1>6. CASE UNCHANGED backupVars
  BY <1>2, <1>6 DEF backupVars
<1>7. QED
  BY <1>3, <1>4, <1>5, <1>6 DEF BackupNext

LEMMA BackupsTyped == BackupSpec => []BackupTypeOK
<1>1. BackupInit => BackupInv /\ BackupBounds
  BY BackupStarts, BackupAssumption DEF BackupInit, BackupBounds
<1>2. BackupInv /\ BackupBounds /\ [BackupNext]_backupVars => BackupInv' /\ BackupBounds'
  BY BackupStep, BackupBoundsKept
<1>3. BackupInv /\ BackupBounds => BackupTypeOK
  <2> SUFFICES ASSUME BackupInv, BackupBounds PROVE BackupTypeOK
    OBVIOUS
  <2>1. Cardinality(status) <= 1
    <3>1. CASE status = {}
      BY <3>1, FS_EmptySet
    <3>2. CASE status # {}
      <4>1. PICK x : status = {x}
        BY <3>2 DEF BackupBounds
      <4>2. QED
        BY <4>1, FS_Singleton
    <3>3. QED
      BY <3>1, <3>2
  <2>2. BackupShapes
    BY DEF BackupInv
  <2>3. /\ tick.step \in {"idle", "copy", "copying", "verify", "sidecar", "prune", "pruning"}
        /\ tick.at \in Minutes /\ tick.outcome \in {"error", "verify_failed", "success"}
    BY <2>2 DEF BackupShapes, Ticks
  <2>4. \A d \in doomed : d.name \in Minutes /\ d.corrupt \in BOOLEAN
    BY <2>2 DEF BackupShapes
  <2>5. QED
    BY <2>1, <2>2, <2>3, <2>4 DEF BackupTypeOK, BackupShapes, BackupBounds
<1>4. QED
  BY <1>1, <1>2, <1>3, PTL DEF BackupSpec

(***************************************************************************)
(* The snapshots taken before a migration.                                 *)
(***************************************************************************)
CopyShapes ==
  /\ snapshots \subseteq
       [at : 1..attempts, target : 1..shipped, holds : 0..applied, whole : BOOLEAN]
  /\ IsFiniteSet(snapshots) /\ \A s, t \in snapshots : s.at = t.at => s = t
  /\ attempts \in Nat /\ base \in Nat /\ applied \in Nat /\ shipped \in Nat /\ named \in Nat
  /\ base <= applied /\ applied <= shipped
  /\ migrating \in [step : {"stopped", "copy", "apply", "failed", "done"},
                    floor : Nat, target : Nat, at : Nat]

\* The copy a run begins with: whole unless it is being made, and of the database at the
\* run's first pending migration.
OwnCopy(s) ==
  /\ s.at = attempts /\ s.target = shipped /\ s.holds = migrating.floor - 1
  /\ s.whole <=> migrating.step # "copy"

Underway ==
  /\ migrating.step = "stopped" => migrating = Stopped
  /\ migrating.step # "stopped" =>
        /\ migrating.at = attempts /\ migrating.target = shipped
        /\ base < migrating.floor /\ migrating.floor <= applied + 1 /\ migrating.floor <= shipped
        /\ \E s \in snapshots : OwnCopy(s)
  /\ migrating.step = "copy" => migrating.floor = applied + 1
  /\ migrating.step = "done" => applied = shipped

\* Later copies hold no less, and none that a later upgrade could need holds less than the
\* database the upgrade began with.
InOrder ==
  /\ \A s, t \in snapshots : s.at <= t.at => s.holds <= t.holds
  /\ \A s \in snapshots : s.target > base => s.holds >= base

WholeUnlessKilled ==
  "half" \notin migrationNotes =>
    \A s \in snapshots : s.target > base =>
       s.whole \/ (migrating.step = "copy" /\ s.at = migrating.at)

\* The pristine copy is one the prunings of this run spare.
PristineAhead ==
  migrationNotes = {} =>
    /\ applied > base => Pristine # {}
    /\ migrating.step \in {"apply", "failed"} \/ (migrating.step = "copy" /\ applied > base) =>
         \E p \in Pristine : p.target >= migrating.floor

NamedKept ==
  migrating.step \in {"stopped", "copy"} /\ named # 0 =>
    /\ \E s \in snapshots : s.at = named /\ s.whole /\ s.at # migrating.at
    /\ Cardinality({s \in snapshots : s.at # migrating.at}) <= KeepSnapshots

MigrationInv ==
  CopyShapes /\ Underway /\ InOrder /\ WholeUnlessKilled /\ PristineAhead /\ NamedKept

LEMMA MigrationStarts == MigrationInit => MigrationInv
<1> SUFFICES ASSUME MigrationInit PROVE MigrationInv
  OBVIOUS
<1>1. shipped \in Nat /\ snapshots = {} /\ migrating = Stopped /\ migrating.step = "stopped"
      /\ migrating.at = 0 /\ named = 0 /\ attempts = 0 /\ applied = 0 /\ base = 0
  BY SnapshotAssumption DEF MigrationInit, Stopped
<1>2. migrating \in [step : {"stopped", "copy", "apply", "failed", "done"},
                     floor : Nat, target : Nat, at : Nat]
  BY <1>1 DEF Stopped
<1>3. CopyShapes
  BY <1>1, <1>2, FS_EmptySet DEF CopyShapes
<1>4. Underway /\ InOrder /\ WholeUnlessKilled /\ PristineAhead /\ NamedKept
  BY <1>1 DEF Underway, InOrder, WholeUnlessKilled, PristineAhead, NamedKept, Pristine
<1>5. QED
  BY <1>3, <1>4 DEF MigrationInv

\* What a snapshot is.
LEMMA CopyFields ==
  ASSUME CopyShapes, NEW s \in snapshots
  PROVE  /\ s.at \in Nat /\ s.target \in Nat /\ s.holds \in Nat /\ s.whole \in BOOLEAN
         /\ s.at >= 1 /\ s.at <= attempts /\ s.target >= 1 /\ s.target <= shipped
         /\ s.holds <= applied
         /\ s = [at |-> s.at, target |-> s.target, holds |-> s.holds, whole |-> s.whole]
BY DEF CopyShapes

LEMMA StartMigratingKeeps == ASSUME MigrationInv, StartMigrating PROVE MigrationInv'
<1> DEFINE c == [at |-> attempts + 1, target |-> shipped, holds |-> applied, whole |-> FALSE]
<1>1. /\ migrating = Stopped /\ applied < shipped /\ attempts' = attempts + 1
      /\ migrating' = [step |-> "copy", floor |-> applied + 1, target |-> shipped,
                       at |-> attempts + 1]
      /\ snapshots' = snapshots \cup {c} /\ UNCHANGED <<shipped, applied, base, named>>
  BY DEF StartMigrating
<1>2. /\ migrating'.step = "copy" /\ migrating'.floor = applied + 1
      /\ migrating'.target = shipped /\ migrating'.at = attempts + 1
      /\ migrating.step = "stopped" /\ migrating.at = 0
  BY <1>1 DEF Stopped
<1>3. /\ c.at = attempts + 1 /\ c.target = shipped /\ c.holds = applied /\ c.whole = FALSE
      /\ c \in snapshots'
  BY <1>1
<1>4. /\ attempts \in Nat /\ base \in Nat /\ applied \in Nat /\ shipped \in Nat
      /\ base <= applied /\ named \in Nat
  BY DEF MigrationInv, CopyShapes
<1>5. \A s \in snapshots : /\ s.at \in Nat /\ s.holds \in Nat /\ s.at >= 1 /\ s.at <= attempts
                           /\ s.holds <= applied /\ s.at # attempts + 1
  BY <1>4, CopyFields DEF MigrationInv
<1>6. snapshots' \subseteq
        [at : 1..attempts', target : 1..shipped', holds : 0..applied', whole : BOOLEAN]
  <2>1. \A s \in snapshots :
          s \in [at : 1..(attempts + 1), target : 1..shipped, holds : 0..applied, whole : BOOLEAN]
    BY <1>4 DEF MigrationInv, CopyShapes
  <2>2. c \in [at : 1..(attempts + 1), target : 1..shipped, holds : 0..applied, whole : BOOLEAN]
    BY <1>1, <1>4
  <2> HIDE DEF c
  <2>3. QED
    BY <1>1, <2>1, <2>2
<1>7. CopyShapes'
  <2>1. IsFiniteSet(snapshots')
    BY <1>1, FS_AddElement DEF MigrationInv, CopyShapes
  <2>2. migrating' \in [step : {"stopped", "copy", "apply", "failed", "done"},
                        floor : Nat, target : Nat, at : Nat]
    BY <1>1, <1>4
  <2>3. \A s, t \in snapshots : s.at = t.at => s = t
    BY DEF MigrationInv, CopyShapes
  <2> HIDE DEF c
  <2>4. \A s, t \in snapshots' : s.at = t.at => s = t
    BY <1>1, <1>3, <1>5, <2>3
  <2>5. applied <= shipped
    BY DEF MigrationInv, CopyShapes
  <2>6. QED
    BY <1>1, <1>4, <1>6, <2>1, <2>2, <2>4, <2>5 DEF CopyShapes
<1> HIDE DEF c
<1>8. Underway'
  <2>1. \E s \in snapshots' :
          /\ s.at = attempts' /\ s.target = shipped' /\ s.holds = migrating'.floor - 1
          /\ s.whole <=> migrating'.step # "copy"
    BY <1>1, <1>2, <1>3, <1>4
  <2>2. /\ migrating'.at = attempts' /\ migrating'.target = shipped' /\ base' < migrating'.floor
        /\ migrating'.floor <= applied' + 1 /\ migrating'.floor <= shipped'
        /\ migrating'.floor = applied' + 1 /\ migrating'.step = "copy"
    BY <1>1, <1>2, <1>4
  <2>3. QED
    BY <2>1, <2>2 DEF Underway, OwnCopy
<1>9. InOrder'
  <2>1. \A s, t \in snapshots : s.at <= t.at => s.holds <= t.holds
    BY DEF MigrationInv, InOrder
  <2>2. \A s \in snapshots : s.target > base => s.holds >= base
    BY DEF MigrationInv, InOrder
  <2>3. ASSUME NEW s \in snapshots', NEW t \in snapshots', s.at <= t.at
        PROVE  s.holds <= t.holds
    BY <1>1, <1>3, <1>4, <1>5, <2>1, <2>3
  <2>4. \A s \in snapshots' : s.target > base => s.holds >= base
    BY <1>1, <1>3, <1>4, <2>2
  <2>5. QED
    BY <1>1, <2>3, <2>4 DEF InOrder
<1>10. WholeUnlessKilled'
  BY <1>1, <1>2, <1>3 DEF StartMigrating, MigrationInv, WholeUnlessKilled
<1>11. PristineAhead'
  <2> SUFFICES ASSUME migrationNotes' = {}, applied > base
               PROVE  \E p \in Pristine' : p.target >= applied + 1
    BY <1>1, <1>2 DEF PristineAhead
  <2>1. PICK p \in Pristine : ~(p.target <= applied)
    BY DEF StartMigrating
  <2>2. p \in Pristine' /\ p \in snapshots
    BY <1>1, <2>1 DEF Pristine
  <2>3. p.target \in Nat
    BY <2>2, CopyFields DEF MigrationInv
  <2>4. QED
    BY <1>4, <2>1, <2>2, <2>3
<1>12. NamedKept'
  <2> SUFFICES ASSUME named # 0
               PROVE  /\ \E s \in snapshots' : s.at = named /\ s.whole /\ s.at # attempts + 1
                      /\ Cardinality({s \in snapshots' : s.at # attempts + 1}) <= KeepSnapshots
    BY <1>1, <1>2 DEF NamedKept
  <2>1. /\ \E s \in snapshots : s.at = named /\ s.whole
        /\ Cardinality({s \in snapshots : s.at # migrating.at}) <= KeepSnapshots
    BY <1>2 DEF MigrationInv, NamedKept
  <2>2. {s \in snapshots : s.at # migrating.at} = snapshots
    BY <1>2, <1>5
  <2>3. {s \in snapshots' : s.at # attempts + 1} = snapshots
    BY <1>1, <1>3, <1>5
  <2>4. QED
    BY <1>1, <1>5, <2>1, <2>2, <2>3
<1>13. QED
  BY <1>7, <1>8, <1>9, <1>10, <1>11, <1>12 DEF MigrationInv

\* Nothing but the notes can go wrong when a run ends and copies went, as long as what the
\* last error named and, of an unfinished upgrade, a pristine copy stay.
LEMMA RunEnds ==
  ASSUME MigrationInv, snapshots' \in SUBSET snapshots, migrating' = Stopped,
         UNCHANGED <<shipped, applied, attempts>>,
         base' = base \/ (base' = applied /\ applied = shipped), named' \in Nat
  PROVE  CopyShapes' /\ Underway' /\ InOrder'
<1>1. /\ attempts \in Nat /\ base \in Nat /\ applied \in Nat /\ shipped \in Nat
      /\ base <= applied /\ applied <= shipped /\ IsFiniteSet(snapshots)
  BY DEF MigrationInv, CopyShapes
<1>2. migrating' \in [step : {"stopped", "copy", "apply", "failed", "done"},
                      floor : Nat, target : Nat, at : Nat] /\ migrating'.step = "stopped"
  BY DEF Stopped
<1>3. IsFiniteSet(snapshots')
  BY <1>1, FS_Subset
<1>4. CopyShapes'
  BY <1>1, <1>2, <1>3 DEF MigrationInv, CopyShapes
<1>5. Underway'
  BY <1>2 DEF Underway
<1>6. InOrder'
  <2>1. \A s \in snapshots : s.target \in Nat /\ s.target <= shipped
    BY CopyFields DEF MigrationInv
  <2>2. \A s \in snapshots' : s.target > base' => s.holds >= base'
    BY <1>1, <2>1 DEF MigrationInv, InOrder
  <2>3. QED
    BY <2>2 DEF MigrationInv, InOrder
<1>7. QED
  BY <1>4, <1>5, <1>6

LEMMA CopyMadeKeeps == ASSUME MigrationInv, CopyMade PROVE MigrationInv'
<1>1. /\ UNCHANGED <<shipped, applied, base, named, attempts, migrationNotes>>
      /\ migrating.step = "copy" /\ migrating.at = attempts /\ migrating.target = shipped
      /\ migrating.floor = applied + 1 /\ base < migrating.floor /\ migrating.floor <= shipped
  BY DEF CopyMade, MigrationInv, Underway
<1>2. /\ attempts \in Nat /\ base \in Nat /\ applied \in Nat /\ shipped \in Nat
      /\ base <= applied /\ applied <= shipped /\ named \in Nat /\ IsFiniteSet(snapshots)
  BY DEF MigrationInv, CopyShapes
<1>3. PICK c \in snapshots : OwnCopy(c)
  BY <1>1 DEF MigrationInv, Underway
<1>4. c.at = attempts /\ c.target = shipped /\ c.holds = applied /\ ~c.whole
  BY <1>1, <1>2, <1>3 DEF OwnCopy
<1>5. Copies = {c}
  BY <1>1, <1>4 DEF Copies, MigrationInv, CopyShapes
<1>6. \A s \in snapshots : s # c => s.at # attempts
  BY <1>4 DEF MigrationInv, CopyShapes
<1>7. CASE snapshots' = snapshots \ Copies /\ migrating' = Stopped
  <2>1. CopyShapes' /\ Underway' /\ InOrder'
    BY <1>1, <1>2, <1>7, RunEnds
  <2>2. migrating'.step = "stopped" /\ migrating'.at = 0 /\ snapshots' = snapshots \ {c}
    BY <1>5, <1>7 DEF Stopped
  <2>3. WholeUnlessKilled'
    BY <1>1, <1>6, <2>2 DEF MigrationInv, WholeUnlessKilled
  <2>4. PristineAhead'
    <3>1. Pristine' = Pristine
      BY <1>1, <1>4, <2>2 DEF Pristine
    <3>2. QED
      BY <1>1, <2>2, <3>1 DEF MigrationInv, PristineAhead
  <2>5. NamedKept'
    <3> SUFFICES ASSUME named # 0
                 PROVE  /\ \E s \in snapshots' : s.at = named /\ s.whole /\ s.at # 0
                        /\ Cardinality({s \in snapshots' : s.at # 0}) <= KeepSnapshots
      BY <1>1, <2>2 DEF NamedKept
    <3>1. /\ \E s \in snapshots : s.at = named /\ s.whole /\ s.at # attempts
          /\ Cardinality({s \in snapshots : s.at # attempts}) <= KeepSnapshots
      BY <1>1 DEF MigrationInv, NamedKept
    <3>2. \A s \in snapshots : s.at \in Nat /\ s.at >= 1
      BY CopyFields DEF MigrationInv
    <3>3. {s \in snapshots : s.at # attempts} = snapshots'
      BY <1>4, <1>6, <2>2
    <3>4. {s \in snapshots' : s.at # 0} = snapshots'
      BY <2>2, <3>2
    <3>5. QED
      BY <1>4, <2>2, <3>1, <3>3, <3>4
  <2>6. QED
    BY <2>1, <2>3, <2>4, <2>5 DEF MigrationInv
<1>8. CASE /\ snapshots' = (snapshots \ Copies) \cup {[s EXCEPT !.whole = TRUE] : s \in Copies}
           /\ migrating' = [migrating EXCEPT !.step = "apply"]
  <2> DEFINE d == [at |-> c.at, target |-> c.target, holds |-> c.holds, whole |-> TRUE]
  <2>1. /\ migrating'.step = "apply" /\ migrating'.at = attempts /\ migrating'.target = shipped
        /\ migrating'.floor = applied + 1
        /\ migrating' \in [step : {"stopped", "copy", "apply", "failed", "done"},
                           floor : Nat, target : Nat, at : Nat]
    BY <1>1, <1>8 DEF MigrationInv, CopyShapes
  <2>2. snapshots' = (snapshots \ {c}) \cup {d}
    <3>1. [c EXCEPT !.whole = TRUE] = d
      <4> DEFINE e == [c EXCEPT !.whole = TRUE]
                 Shaped == [at : 1..attempts, target : 1..shipped, holds : 0..applied, whole : BOOLEAN]
      <4>1. c \in Shaped
        BY DEF MigrationInv, CopyShapes
      <4>2. e \in Shaped /\ d \in Shaped
        BY <4>1
      <4>3. /\ e.at = d.at /\ e.target = d.target /\ e.holds = d.holds /\ e.whole = d.whole
        BY <4>1
      <4>4. \A r, q \in Shaped : /\ r.at = q.at /\ r.target = q.target
                                /\ r.holds = q.holds /\ r.whole = q.whole => r = q
        OBVIOUS
      <4> HIDE DEF e, d, Shaped
      <4>5. e = d
        BY <4>2, <4>3, <4>4
      <4>6. QED
        BY <4>5 DEF e
    <3>2. {[s EXCEPT !.whole = TRUE] : s \in Copies} = {d}
      BY <1>5, <3>1
    <3>3. QED
      BY <1>5, <1>8, <3>2
  <2>3. d.at = attempts /\ d.target = shipped /\ d.holds = applied /\ d.whole = TRUE
    BY <1>4
  <2>4. CopyShapes'
    <3>1. IsFiniteSet(snapshots')
      <4>1. IsFiniteSet(snapshots \ {c})
        BY <1>2, FS_Subset
      <4>2. QED
        BY <2>2, <4>1, FS_AddElement
    <3>2. d \in [at : 1..attempts, target : 1..shipped, holds : 0..applied, whole : BOOLEAN]
      BY CopyFields, <1>2 DEF MigrationInv, CopyShapes
    <3> HIDE DEF d
    <3>3. snapshots' \subseteq
            [at : 1..attempts, target : 1..shipped, holds : 0..applied, whole : BOOLEAN]
      BY <2>2, <3>2 DEF MigrationInv, CopyShapes
    <3>4. \A s, t \in snapshots' : s.at = t.at => s = t
      BY <1>6, <2>2, <2>3 DEF MigrationInv, CopyShapes
    <3>5. QED
      BY <1>1, <1>2, <2>1, <3>1, <3>3, <3>4 DEF CopyShapes
  <2> HIDE DEF d
  <2>5. Underway'
    <3>1. \E s \in snapshots' :
            /\ s.at = attempts' /\ s.target = shipped' /\ s.holds = migrating'.floor - 1
            /\ s.whole <=> migrating'.step # "copy"
      BY <1>1, <1>2, <2>1, <2>2, <2>3
    <3>2. QED
      BY <1>1, <1>2, <2>1, <3>1 DEF Underway, OwnCopy
  <2>6. InOrder'
    <3>1. \A s, t \in snapshots : s.at <= t.at => s.holds <= t.holds
      BY DEF MigrationInv, InOrder
    <3>2. \A s \in snapshots : s.target > base => s.holds >= base
      BY DEF MigrationInv, InOrder
    <3>3. ASSUME NEW s \in snapshots', NEW t \in snapshots', s.at <= t.at
          PROVE  s.holds <= t.holds
      BY <1>2, <1>4, <2>2, <2>3, <3>1, <3>3
    <3>4. \A s \in snapshots' : s.target > base => s.holds >= base
      BY <1>2, <2>2, <2>3, <3>2
    <3>5. QED
      BY <1>1, <3>3, <3>4 DEF InOrder
  <2>7. WholeUnlessKilled'
    <3>1. "half" \notin migrationNotes =>
            \A s \in snapshots : s.target > base => s.whole \/ s.at = attempts
      BY <1>1 DEF MigrationInv, WholeUnlessKilled
    <3>2. "half" \notin migrationNotes => \A s \in snapshots' : s.target > base => s.whole
      BY <1>6, <2>2, <2>3, <3>1
    <3>3. QED
      BY <1>1, <3>2 DEF WholeUnlessKilled
  <2>8. PristineAhead'
    <3> SUFFICES ASSUME migrationNotes = {} PROVE \E p \in Pristine' : p.target >= applied + 1
      BY <1>1, <2>1 DEF PristineAhead
    <3>1. CASE applied > base
      <4>1. PICK p \in Pristine : p.target >= applied + 1
        BY <1>1, <3>1 DEF MigrationInv, PristineAhead
      <4>2. p \in Pristine'
        BY <1>1, <1>4, <2>2, <4>1 DEF Pristine
      <4>3. QED
        BY <4>1, <4>2
    <3>2. CASE applied = base
      <4>1. d \in Pristine'
        BY <1>1, <1>2, <2>2, <2>3, <3>2 DEF Pristine
      <4>2. QED
        BY <1>1, <2>3, <4>1
    <3>3. QED
      BY <1>2, <3>1, <3>2
  <2>9. NamedKept'
    BY <2>1 DEF NamedKept
  <2>10. QED
    BY <2>4, <2>5, <2>6, <2>7, <2>8, <2>9 DEF MigrationInv
<1>9. QED
  BY <1>7, <1>8 DEF CopyMade

LEMMA ApplyKeeps == ASSUME MigrationInv, ApplyMigration PROVE MigrationInv'
<1>1. /\ UNCHANGED <<shipped, base, snapshots, named, attempts, migrationNotes>>
      /\ migrating.step = "apply" /\ migrating.at = attempts /\ migrating.target = shipped
      /\ base < migrating.floor /\ migrating.floor <= applied + 1 /\ migrating.floor <= shipped
  BY DEF ApplyMigration, MigrationInv, Underway
<1>2. /\ attempts \in Nat /\ base \in Nat /\ applied \in Nat /\ shipped \in Nat
      /\ base <= applied /\ applied <= shipped /\ migrating.floor \in Nat
  BY DEF MigrationInv, CopyShapes
<1>3. /\ applied' \in {applied, applied + 1} /\ applied' <= shipped
      /\ \/ migrating' = [migrating EXCEPT !.step = "apply"]
         \/ migrating' = [migrating EXCEPT !.step = "failed"]
         \/ migrating' = [migrating EXCEPT !.step = "done"] /\ applied' = shipped
  <2>1. CASE applied < migrating.target /\ applied' = applied + 1 /\ UNCHANGED migrating
    <3>1. migrating' = [migrating EXCEPT !.step = "apply"]
      BY <1>1, <2>1 DEF MigrationInv, CopyShapes
    <3>2. applied' = applied + 1 /\ applied' <= shipped
      BY <1>1, <1>2, <2>1
    <3>3. QED
      BY <3>1, <3>2
  <2>2. CASE migrating' = [migrating EXCEPT !.step = "failed"] /\ UNCHANGED applied
    BY <1>1, <1>2, <2>2
  <2>3. CASE /\ applied = migrating.target /\ migrating' = [migrating EXCEPT !.step = "done"]
             /\ UNCHANGED applied
    BY <1>1, <1>2, <2>3
  <2>4. QED
    BY <2>1, <2>2, <2>3 DEF ApplyMigration
<1>4. /\ migrating'.at = attempts /\ migrating'.target = shipped
      /\ migrating'.floor = migrating.floor /\ migrating'.step \in {"apply", "failed", "done"}
      /\ migrating'.step = "done" => applied' = shipped
      /\ migrating' \in [step : {"stopped", "copy", "apply", "failed", "done"},
                         floor : Nat, target : Nat, at : Nat]
  BY <1>1, <1>3 DEF MigrationInv, CopyShapes
<1>5. applied' \in Nat /\ base <= applied' /\ applied <= applied' /\ applied' <= shipped
  BY <1>2, <1>3
<1>6. CopyShapes'
  <2>1. snapshots \subseteq
          [at : 1..attempts, target : 1..shipped, holds : 0..applied', whole : BOOLEAN]
    BY <1>2, <1>5 DEF MigrationInv, CopyShapes
  <2>2. QED
    BY <1>1, <1>4, <1>5, <2>1 DEF MigrationInv, CopyShapes
<1>7. Underway'
  BY <1>1, <1>2, <1>4, <1>5 DEF MigrationInv, Underway, OwnCopy
<1>8. InOrder'
  BY <1>1 DEF MigrationInv, InOrder
<1>9. WholeUnlessKilled' /\ NamedKept'
  BY <1>1, <1>4 DEF MigrationInv, WholeUnlessKilled, NamedKept
<1>10. PristineAhead'
  <2> SUFFICES ASSUME migrationNotes = {}
               PROVE  Pristine' # {} /\ \E p \in Pristine' : p.target >= migrating.floor
    BY <1>1, <1>4 DEF PristineAhead
  <2>1. \E p \in Pristine : p.target >= migrating.floor
    BY <1>1 DEF MigrationInv, PristineAhead
  <2>2. Pristine' = Pristine
    BY <1>1 DEF Pristine
  <2>3. QED
    BY <2>1, <2>2
<1>11. QED
  BY <1>6, <1>7, <1>8, <1>9, <1>10 DEF MigrationInv

LEMMA KillMigrationKeeps == ASSUME MigrationInv, KillMigration PROVE MigrationInv'
<1>1. /\ UNCHANGED <<shipped, applied, base, snapshots, attempts>> /\ named' = 0
      /\ migrating' = Stopped /\ migrating'.step = "stopped"
      /\ migrationNotes \subseteq migrationNotes'
      /\ migrating.step = "copy" => "half" \in migrationNotes'
  BY DEF KillMigration, Stopped
<1>2. CopyShapes' /\ Underway' /\ InOrder'
  BY <1>1, RunEnds
<1>3. WholeUnlessKilled'
  BY <1>1 DEF MigrationInv, WholeUnlessKilled
<1>4. PristineAhead' /\ NamedKept'
  <2>1. Pristine' = Pristine /\ (migrationNotes' = {} => migrationNotes = {})
    BY <1>1 DEF Pristine
  <2>2. QED
    BY <1>1, <2>1 DEF MigrationInv, PristineAhead, NamedKept
<1>5. QED
  BY <1>2, <1>3, <1>4 DEF MigrationInv

LEMMA ShipKeeps == ASSUME MigrationInv, ShipBinary PROVE MigrationInv'
<1>1. /\ UNCHANGED <<applied, base, snapshots, migrating, named, attempts, migrationNotes>>
      /\ migrating = Stopped /\ migrating.step = "stopped" /\ shipped' = shipped + 1
  BY DEF ShipBinary, Stopped
<1>2. applied \in Nat /\ shipped \in Nat /\ applied <= shipped
  BY DEF MigrationInv, CopyShapes
<1>3. CopyShapes'
  <2>1. snapshots \subseteq
          [at : 1..attempts, target : 1..shipped', holds : 0..applied, whole : BOOLEAN]
    BY <1>1, <1>2 DEF MigrationInv, CopyShapes
  <2>2. QED
    BY <1>1, <1>2, <2>1 DEF MigrationInv, CopyShapes
<1>4. Pristine' = Pristine
  BY <1>1 DEF Pristine
<1>5. Underway' /\ InOrder' /\ WholeUnlessKilled' /\ PristineAhead' /\ NamedKept'
  BY <1>1, <1>4 DEF MigrationInv, Underway, InOrder, WholeUnlessKilled, PristineAhead, NamedKept
<1>6. QED
  BY <1>3, <1>5 DEF MigrationInv

\* What is oldest in a set of copies is one copy, and there is one if the set has any.
LEMMA OneOldest ==
  ASSUME CopyShapes, NEW S \in SUBSET snapshots
  PROVE  /\ Oldest(S) \subseteq S /\ IsFiniteSet(Oldest(S)) /\ Cardinality(Oldest(S)) <= 1
         /\ S # {} => \E o \in Oldest(S) : \A t \in S : o.at <= t.at
<1>1. Oldest(S) \subseteq S /\ \A o \in Oldest(S) : \A t \in S : o.at <= t.at
  BY DEF Oldest
<1>2. \A s \in S : s.at \in Nat
  BY CopyFields
<1>3. \A o, u \in Oldest(S) : o = u
  <2> SUFFICES ASSUME NEW o \in Oldest(S), NEW u \in Oldest(S) PROVE o = u
    OBVIOUS
  <2>1. o.at <= u.at /\ u.at <= o.at /\ o.at \in Nat /\ u.at \in Nat
    BY <1>1, <1>2
  <2>2. o.at = u.at
    BY <2>1
  <2>3. QED
    BY <1>1, <2>2 DEF CopyShapes
<1>4. IsFiniteSet(Oldest(S)) /\ Cardinality(Oldest(S)) <= 1
  <2>1. CASE Oldest(S) = {}
    BY <2>1, FS_EmptySet
  <2>2. CASE Oldest(S) # {}
    <3>1. PICK o \in Oldest(S) : TRUE
      BY <2>2
    <3>2. Oldest(S) = {o}
      BY <1>3, <3>1
    <3>3. IsFiniteSet(Oldest(S)) /\ Cardinality(Oldest(S)) = 1
      BY <3>2, FS_Singleton, Zenon
    <3>4. QED
      BY <3>3
  <2>3. QED
    BY <2>1, <2>2
<1>5. ASSUME S # {} PROVE \E o \in Oldest(S) : \A t \in S : o.at <= t.at
  <2> DEFINE ats == {s.at : s \in S}
  <2>1. ats \in SUBSET Nat /\ ats # {}
    BY <1>2, <1>5
  <2>2. PICK a \in ats : \A b \in ats : a <= b
    <3> HIDE DEF ats
    <3>1. QED
      BY <2>1, LeastNatural
  <2>3. PICK o \in S : a = o.at
    OBVIOUS
  <2>4. \A t \in S : o.at <= t.at
    BY <2>2, <2>3
  <2>5. o \in Oldest(S)
    BY <2>4 DEF Oldest
  <2>6. QED
    BY <2>4, <2>5
<1>6. QED
  BY <1>1, <1>4, <1>5

\* The exempt copies leave a slot, to which the newest copy of all has the first claim.
LEMMA PruningKeeps ==
  ASSUME CopyShapes, NEW E \in SUBSET snapshots, Cardinality(E) <= 2
  PROVE  /\ Pruned(E) \in SUBSET snapshots /\ E \subseteq Pruned(E)
         /\ Cardinality(Pruned(E)) <= KeepSnapshots
         /\ \A s \in snapshots : (\A t \in snapshots : t.at <= s.at) => s \in Pruned(E)
<1> DEFINE others == snapshots \ E
           slots == KeepSnapshots - Cardinality(E)
           newer(s) == {t \in others : t.at > s.at}
           kept == {s \in others : Cardinality(newer(s)) < slots}
           rank == [s \in others |-> s.at]
<1>1. Pruned(E) = E \cup kept
  BY DEF Pruned
<1>2. IsFiniteSet(E) /\ IsFiniteSet(others) /\ Cardinality(E) \in Nat
  BY FS_Subset, FS_CardinalityType DEF CopyShapes
<1>3. slots \in Nat /\ slots >= 1 /\ Cardinality(E) + slots = KeepSnapshots /\ KeepSnapshots \in Nat
  <2>1. KeepSnapshots \in Nat /\ KeepSnapshots >= 3
    BY SnapshotAssumption
  <2>2. QED
    BY <1>2, <2>1
<1>4. \A s \in snapshots : s.at \in Nat
  BY CopyFields
<1>5. rank \in [others -> Nat]
  BY <1>4
<1>6. \A s, t \in others : rank[s] = rank[t] => s = t
  BY DEF CopyShapes
<1>7. \A s \in kept : \E above \in SUBSET others :
         Cardinality(above) < slots /\ \A t \in others : rank[t] > rank[s] => t \in above
  <2> SUFFICES ASSUME NEW s \in kept
               PROVE  \E above \in SUBSET others :
                        Cardinality(above) < slots /\ \A t \in others : rank[t] > rank[s] => t \in above
    OBVIOUS
  <2>1. newer(s) \in SUBSET others /\ Cardinality(newer(s)) < slots /\ s \in others
    OBVIOUS
  <2>2. \A t \in others : rank[t] > rank[s] => t \in newer(s)
    BY <2>1
  <2> HIDE DEF newer, slots, rank, others, kept
  <2>3. QED
    BY <2>1, <2>2
<1>8. kept \in SUBSET others /\ IsFiniteSet(kept)
  BY <1>2, FS_Subset
<1>9. Cardinality(kept) <= slots
  <2> HIDE DEF rank, others, kept, slots
  <2>1. QED
    BY <1>2, <1>3, <1>5, <1>6, <1>7, <1>8, TopFew
<1>10. Cardinality(E \cup kept) <= KeepSnapshots
  <2> HIDE DEF kept, slots
  <2>1. /\ Cardinality(E \cup kept) = Cardinality(E) + Cardinality(kept) - Cardinality(E \cap kept)
        /\ IsFiniteSet(E \cap kept)
    BY <1>2, <1>8, FS_Union, FS_Intersection
  <2>2. Cardinality(kept) \in Nat /\ Cardinality(E \cap kept) \in Nat
    BY <1>8, <2>1, FS_CardinalityType
  <2>3. QED
    BY <1>2, <1>3, <1>9, <2>1, <2>2
<1>11. ASSUME NEW s \in snapshots, \A t \in snapshots : t.at <= s.at
       PROVE  s \in E \cup kept
  <2> SUFFICES ASSUME s \notin E PROVE s \in kept
    OBVIOUS
  <2>1. newer(s) = {}
    BY <1>4, <1>11
  <2>2. Cardinality(newer(s)) = 0
    <3> HIDE DEF newer
    <3>1. QED
      BY <2>1, FS_EmptySet
  <2>3. Cardinality(newer(s)) < slots
    <3> HIDE DEF newer, slots
    <3>1. QED
      BY <1>3, <2>2
  <2>4. QED
    BY <2>3
<1> HIDE DEF kept
<1>12. QED
  BY <1>1, <1>8, <1>10, <1>11

LEMMA PruneAfterFailureKeeps == ASSUME MigrationInv, PruneAfterFailure PROVE MigrationInv'
<1> DEFINE above == {s \in snapshots : s.target >= migrating.floor}
           current == {s \in snapshots : s.target = migrating.target}
<1>1. /\ migrating.step = "failed" /\ snapshots' = Pruned(Exempt) /\ named' = attempts
      /\ migrating' = Stopped /\ migrating'.step = "stopped" /\ migrating'.at = 0
      /\ UNCHANGED <<shipped, applied, base, attempts, migrationNotes>>
      /\ migrating.target = shipped /\ base < migrating.floor
  BY DEF PruneAfterFailure, Stopped, MigrationInv, Underway
<1>2. /\ attempts \in Nat /\ base \in Nat /\ migrating.floor \in Nat /\ CopyShapes
  BY DEF MigrationInv, CopyShapes
<1>3. Exempt = Oldest(above) \cup Oldest(current)
  BY DEF Exempt
<1>4. above \in SUBSET snapshots /\ current \in SUBSET snapshots
  OBVIOUS
<1>5. \A s \in snapshots : s \in above <=> s.target >= migrating.floor
  OBVIOUS
<1> HIDE DEF above, current
<1>6. /\ Oldest(above) \subseteq above /\ IsFiniteSet(Oldest(above))
      /\ Cardinality(Oldest(above)) <= 1
      /\ Oldest(current) \subseteq current /\ IsFiniteSet(Oldest(current))
      /\ Cardinality(Oldest(current)) <= 1
      /\ above # {} => \E o \in Oldest(above) : \A t \in above : o.at <= t.at
  BY <1>2, <1>4, OneOldest
<1>7. Exempt \in SUBSET snapshots /\ Cardinality(Exempt) <= 2
  <2>1. /\ Cardinality(Exempt) = Cardinality(Oldest(above)) + Cardinality(Oldest(current))
                                   - Cardinality(Oldest(above) \cap Oldest(current))
        /\ IsFiniteSet(Oldest(above) \cap Oldest(current))
    BY <1>3, <1>6, FS_Union, FS_Intersection
  <2>2. /\ Cardinality(Oldest(above)) \in Nat /\ Cardinality(Oldest(current)) \in Nat
        /\ Cardinality(Oldest(above) \cap Oldest(current)) \in Nat
    BY <1>6, <2>1, FS_CardinalityType
  <2>3. QED
    BY <1>3, <1>4, <1>6, <2>1, <2>2
<1>8. /\ snapshots' \in SUBSET snapshots /\ Exempt \subseteq snapshots'
      /\ Cardinality(snapshots') <= KeepSnapshots
      /\ \A s \in snapshots : (\A t \in snapshots : t.at <= s.at) => s \in snapshots'
  BY <1>1, <1>2, <1>7, PruningKeeps
<1>9. CopyShapes' /\ Underway' /\ InOrder'
  BY <1>1, <1>2, <1>8, RunEnds
<1>10. WholeUnlessKilled'
  BY <1>1, <1>8 DEF MigrationInv, WholeUnlessKilled
<1>11. PristineAhead'
  <2> SUFFICES ASSUME migrationNotes = {} PROVE Pristine' # {}
    BY <1>1 DEF PristineAhead
  <2>1. PICK p \in Pristine : p.target >= migrating.floor
    BY <1>1 DEF MigrationInv, PristineAhead
  <2>2. p \in snapshots /\ p.holds = base /\ p \in above
    BY <1>5, <2>1 DEF Pristine
  <2>3. PICK o \in Oldest(above) : \A t \in above : o.at <= t.at
    BY <1>6, <2>2
  <2>4. o \in snapshots /\ o \in snapshots' /\ o.target >= migrating.floor /\ o.at <= p.at
    BY <1>3, <1>4, <1>5, <1>6, <1>8, <2>2, <2>3
  <2>5. o.target \in Nat /\ o.holds \in Nat
    BY <1>2, <2>4, CopyFields
  <2>6. o.target > base
    BY <1>1, <1>2, <2>4, <2>5
  <2>7. o.holds = base
    <3>1. o.holds <= base /\ o.holds >= base
      BY <2>2, <2>4, <2>6 DEF MigrationInv, InOrder
    <3>2. QED
      BY <1>2, <2>5, <3>1
  <2>8. o.whole
    BY <1>1, <2>4, <2>6 DEF MigrationInv, WholeUnlessKilled
  <2>9. QED
    BY <1>1, <2>4, <2>6, <2>7, <2>8 DEF Pristine
<1>12. NamedKept'
  <2>1. PICK c \in snapshots : OwnCopy(c)
    BY <1>1 DEF MigrationInv, Underway
  <2>2. c.at = attempts /\ c.whole
    BY <1>1, <2>1 DEF OwnCopy
  <2>3. \A s \in snapshots : s.at \in Nat /\ s.at >= 1 /\ s.at <= c.at
    BY <1>2, <2>2, CopyFields
  <2>4. c \in snapshots' /\ c.at # 0
    BY <1>8, <2>3
  <2>5. {s \in snapshots' : s.at # migrating'.at} = snapshots'
    BY <1>1, <1>8, <2>3
  <2>6. QED
    BY <1>1, <1>8, <2>2, <2>4, <2>5 DEF NamedKept
<1>13. QED
  BY <1>9, <1>10, <1>11, <1>12 DEF MigrationInv

LEMMA PruneAfterSuccessKeeps == ASSUME MigrationInv, PruneAfterSuccess PROVE MigrationInv'
<1>1. /\ snapshots' = Pruned({}) /\ named' = 0 /\ migrating' = Stopped
      /\ migrating'.step = "stopped" /\ base' = applied /\ applied = shipped
      /\ UNCHANGED <<shipped, applied, attempts>>
  BY DEF PruneAfterSuccess, Stopped, MigrationInv, Underway
<1>2. CopyShapes /\ applied \in Nat
  BY DEF MigrationInv, CopyShapes
<1>3. snapshots' \in SUBSET snapshots
  BY <1>1 DEF Pruned
<1>4. CopyShapes' /\ Underway' /\ InOrder'
  BY <1>1, <1>3, RunEnds
<1>5. WholeUnlessKilled'
  <2>1. \A s \in snapshots' : s.target \in Nat /\ s.target <= shipped
    BY <1>2, <1>3, CopyFields
  <2>2. QED
    BY <1>1, <1>2, <2>1 DEF WholeUnlessKilled
<1>6. PristineAhead' /\ NamedKept'
  BY <1>1, <1>2 DEF PristineAhead, NamedKept
<1>7. QED
  BY <1>4, <1>5, <1>6 DEF MigrationInv

LEMMA MigrationStep == MigrationInv /\ [MigrationNext]_migrationVars => MigrationInv'
<1> SUFFICES ASSUME MigrationInv, [MigrationNext]_migrationVars PROVE MigrationInv'
  OBVIOUS
<1>1. CASE UNCHANGED migrationVars
  BY <1>1 DEF migrationVars, MigrationInv, CopyShapes, Underway, OwnCopy, InOrder,
              WholeUnlessKilled, PristineAhead, NamedKept, Pristine
<1>2. QED
  BY <1>1, StartMigratingKeeps, CopyMadeKeeps, ApplyKeeps, PruneAfterFailureKeeps,
     PruneAfterSuccessKeeps, KillMigrationKeeps, ShipKeeps DEF MigrationNext

LEMMA MigrationInvHolds == MigrationInv => UpgradeCanBeUndone
<1> SUFFICES ASSUME MigrationInv PROVE UpgradeCanBeUndone
  OBVIOUS
<1>1. PristineSurvives
  BY DEF MigrationInv, PristineAhead, PristineSurvives
<1>2. NamedIsOnDisk
  <2> SUFFICES ASSUME migrating = Stopped, named # 0
               PROVE  /\ \E s \in snapshots : s.at = named /\ s.whole
                      /\ Cardinality(snapshots) <= KeepSnapshots
    BY DEF NamedIsOnDisk
  <2>1. migrating.step = "stopped" /\ migrating.at = 0
    BY DEF Stopped
  <2>2. {s \in snapshots : s.at # migrating.at} = snapshots
    BY <2>1, CopyFields DEF MigrationInv
  <2>3. QED
    BY <2>1, <2>2 DEF MigrationInv, NamedKept
<1>3. QED
  BY <1>1, <1>2 DEF UpgradeCanBeUndone

\* A database that an unfinished upgrade has changed can be put back as it was, from a whole
\* copy on disk, unless a copy was killed halfway or a newer binary got past its target; and
\* what a failed start named is there (internal/database: RunMigrations,
\* pruneMigrationSnapshots).
THEOREM UpgradesCanBeUndone == MigrationSpec => []UpgradeCanBeUndone
<1>1. MigrationInit => MigrationInv
  BY MigrationStarts
<1>2. MigrationInv /\ [MigrationNext]_migrationVars => MigrationInv'
  BY MigrationStep
<1>3. MigrationInv => UpgradeCanBeUndone
  BY MigrationInvHolds
<1>4. QED
  BY <1>1, <1>2, <1>3, PTL DEF MigrationSpec

\* The migrations are of their type: no more of them than there are, no more starts than allowed.
MigrationBounds ==
  /\ shipped \in 1..MaxMigration /\ attempts \in 0..MaxAttempts /\ named \in 0..attempts
  /\ migrationNotes \subseteq {"passed", "half"}

LEMMA MigrationBoundsKept ==
  ASSUME MigrationInv, MigrationBounds, [MigrationNext]_migrationVars
  PROVE  MigrationBounds'
<1>1. /\ MaxMigration \in Nat /\ MaxAttempts \in Nat /\ shipped \in Nat /\ attempts \in Nat /\ named \in Nat
      /\ migrating.step # "stopped" => migrating.at = attempts
  BY SnapshotAssumption DEF MigrationInv, CopyShapes, Underway
<1>2. ASSUME UNCHANGED <<shipped, attempts>>, named' \in {0, named, attempts},
             migrationNotes' \subseteq migrationNotes \cup {"passed", "half"}
      PROVE  MigrationBounds'
  BY <1>1, <1>2 DEF MigrationBounds
<1>3. CASE StartMigrating
  BY <1>1, <1>3 DEF StartMigrating, MigrationBounds
<1>4. CASE ShipBinary
  BY <1>1, <1>4 DEF ShipBinary, MigrationBounds
<1>5. CASE CopyMade \/ ApplyMigration \/ PruneAfterSuccess \/ KillMigration
  BY <1>2, <1>5 DEF CopyMade, ApplyMigration, PruneAfterSuccess, KillMigration
<1>6. CASE PruneAfterFailure
  BY <1>1, <1>2, <1>6 DEF PruneAfterFailure
<1>7. CASE UNCHANGED migrationVars
  BY <1>2, <1>7 DEF migrationVars
<1>8. QED
  BY <1>3, <1>4, <1>5, <1>6, <1>7 DEF MigrationNext

LEMMA MigrationTyped == MigrationSpec => []MigrationTypeOK
<1>1. MigrationInit => MigrationInv /\ MigrationBounds
  BY MigrationStarts, SnapshotAssumption DEF MigrationInit, MigrationBounds
<1>2. MigrationInv /\ MigrationBounds /\ [MigrationNext]_migrationVars => MigrationInv' /\ MigrationBounds'
  BY MigrationStep, MigrationBoundsKept
<1>3. MigrationInv /\ MigrationBounds => MigrationTypeOK
  <2> SUFFICES ASSUME MigrationInv, MigrationBounds PROVE MigrationTypeOK
    OBVIOUS
  <2>1. /\ CopyShapes /\ base <= applied /\ applied <= shipped /\ base \in Nat /\ applied \in Nat
        /\ MaxMigration \in Nat /\ MaxAttempts \in Nat
    BY SnapshotAssumption DEF MigrationInv, CopyShapes
  <2>2. \A s \in snapshots : /\ s.at \in 1..attempts /\ s.target \in 1..shipped
                             /\ s.holds \in 0..applied /\ s.whole \in BOOLEAN
    BY <2>1 DEF CopyShapes
  <2>3. migrating.step \in {"stopped", "copy", "apply", "failed", "done"}
    BY <2>1 DEF CopyShapes
  <2>4. QED
    BY <2>1, <2>2, <2>3 DEF MigrationTypeOK, MigrationBounds
<1>4. QED
  BY <1>1, <1>2, <1>3, PTL DEF MigrationSpec

(***************************************************************************)
(* The over-budget push, for any cells, writers and limits: a crossing is  *)
(* told once however the evaluations of its writers overlap, wherever the  *)
(* process dies and whatever quiet hours silence.                          *)
(***************************************************************************)
AlertSpec == AlertInit /\ [][AlertNext]_alertVars

Awaiting(s) == {s[i] : i \in DOMAIN s}
Notes == {"latched", "skipped", "stale", "dropped"}
Evaluation == [step : {"none", "settings", "read", "act"}, todo : Seq(AlertCells),
               quiet : BOOLEAN, over : BOOLEAN, crossed : SUBSET AlertCells]

\* Types; an evaluation that has read a cell still has it at the head of its list.
Shapes ==
  /\ spent \in [AlertCells -> Nat] /\ spendLimit \in [AlertCells -> Nat]
  /\ latched \subseteq AlertCells /\ quietHours \in BOOLEAN
  /\ evaluations \in [AlertWriters -> Evaluation]
  /\ \A w \in AlertWriters : evaluations[w].step = "act" => evaluations[w].todo # <<>>
  /\ pushed \in [AlertCells -> Nat]
  /\ alertNotes \in [AlertCells -> SUBSET Notes]

Crosses(w, c) == c \in evaluations[w].crossed
NobodyCrosses(c) == \A w \in AlertWriters : ~Crosses(w, c)

\* A cell with a push to go out has had none, and one evaluation has it to send.
OneToSend(c) ==
  /\ pushed[c] <= 1
  /\ \A w \in AlertWriters : Crosses(w, c) => pushed[c] = 0
  /\ \A v, w \in AlertWriters : Crosses(v, c) /\ Crosses(w, c) => v = w

\* Until a latch is set, nothing was sent for a cell over its limit, or is going to be.
LatchComesFirst(c) ==
  Over(c) /\ c \notin latched => pushed[c] = 0 /\ NobodyCrosses(c)

\* A latch that is this crossing's own stands for a push that was sent or will be.
LatchIsTold(c) ==
  Over(c) /\ c \in latched /\ alertNotes[c] \subseteq {"skipped"}
    => pushed[c] = 1 \/ ~NobodyCrosses(c)

\* A cell over its limit is latched unless somebody has yet to look at it.
OverIsLookedAt(c) ==
  Over(c) /\ alertNotes[c] = {}
    => c \in latched \/ \E w \in AlertWriters : c \in Awaiting(evaluations[w].todo)

CellInv(c) ==
  /\ "stale" \notin alertNotes[c] => OneToSend(c) /\ LatchComesFirst(c)
  /\ LatchIsTold(c)
  /\ OverIsLookedAt(c)

AlertInv == Shapes /\ \A c \in AlertCells : CellInv(c)

\* What the invariant is for.
LEMMA InvTellsOnce == AlertInv => AlertOnce
BY DEF AlertInv, Shapes, CellInv, OneToSend, LatchIsTold, OverIsLookedAt, NobodyCrosses,
       Crosses, AlertOnce, Pending, Awaiting, Over

(***************************************************************************)
(* The lists of cells to do.                                               *)
(***************************************************************************)
\* Taking the head off a list of cells leaves the others on it.
LEMMA HeadAndTail ==
  ASSUME NEW s \in Seq(AlertCells), s # <<>>
  PROVE  /\ Head(s) \in AlertCells /\ Tail(s) \in Seq(AlertCells)
         /\ \A c \in Awaiting(s) : c = Head(s) \/ c \in Awaiting(Tail(s))
<1>1. Head(s) \in AlertCells /\ Tail(s) \in Seq(AlertCells)
  OBVIOUS
<1>2. ASSUME NEW i \in DOMAIN s, s[i] # Head(s)
      PROVE  i - 1 \in DOMAIN Tail(s) /\ s[i] = Tail(s)[i - 1]
  BY <1>2
<1>3. QED
  BY <1>1, <1>2 DEF Awaiting

(***************************************************************************)
(* The initial states.                                                     *)
(***************************************************************************)
LEMMA InitSound == AlertInit => AlertInv
<1> SUFFICES ASSUME AlertInit PROVE AlertInv
  OBVIOUS
<1>1. PICK l \in SpendLimits : spendLimit = [c \in AlertCells |-> l]
  BY AlertAssumption DEF AlertInit
<1> l \in Nat
  BY AlertAssumption
<1>2. Shapes
  <2>1. NoEvaluation \in Evaluation
    BY DEF Evaluation, NoEvaluation
  <2>2. NoEvaluation.step # "act"
    BY DEF NoEvaluation
  <2>3. spent \in [AlertCells -> Nat] /\ pushed \in [AlertCells -> Nat]
    BY DEF AlertInit
  <2>4. spendLimit \in [AlertCells -> Nat]
    BY <1>1
  <2>5. QED
    BY <2>1, <2>2, <2>3, <2>4 DEF AlertInit, Shapes
<1>3. ASSUME NEW c \in AlertCells PROVE CellInv(c)
  <2>1. ~Over(c)
    <3>1. spent[c] = 0 /\ spendLimit[c] = l
      BY <1>1 DEF AlertInit
    <3>2. QED
      BY <3>1 DEF Over
  <2>2. NobodyCrosses(c) /\ pushed[c] = 0
    BY DEF AlertInit, NoEvaluation, NobodyCrosses, Crosses
  <2>3. QED
    BY <2>1, <2>2
    DEF CellInv, OneToSend, LatchComesFirst, LatchIsTold, OverIsLookedAt, NobodyCrosses
<1>4. QED
  BY <1>2, <1>3 DEF AlertInv

(***************************************************************************)
(* A write. Only a cell whose spending grows can cross its limit, and that *)
(* cell is on the list of the evaluation the write begins.                 *)
(***************************************************************************)
LEMMA WriteShapes ==
  ASSUME Shapes, NEW w \in AlertWriters, WriteSpending(w)
  PROVE  /\ Shapes'
         /\ \A c \in AlertCells : ~Over(c) /\ Over(c)' => c \in Awaiting(evaluations'[w].todo)
         /\ evaluations[w] = NoEvaluation /\ evaluations'[w].crossed = {}
         /\ \A v \in AlertWriters : v # w => evaluations'[v] = evaluations[v]
<1>1. PICK c \in AlertCells, d \in AlertCells, kind \in {"create", "delete", "move"} :
        /\ kind = "move" <=> c # d
        /\ kind \in {"delete", "move"} => spent[c] > 0
        /\ spent' = CASE kind = "create" -> [spent EXCEPT ![c] = @ + 1]
                      [] kind = "delete" -> [spent EXCEPT ![c] = @ - 1]
                      [] kind = "move" -> [spent EXCEPT ![c] = @ - 1, ![d] = @ + 1]
        /\ evaluations' = [evaluations EXCEPT ![w] =
              [NoEvaluation EXCEPT !.step = "settings",
                                   !.todo = IF c = d THEN <<c>> ELSE <<c, d>>]]
  BY DEF WriteSpending
<1>2. /\ spent' \in [AlertCells -> Nat]
      /\ \A b \in AlertCells : b \notin {c, d} => spent'[b] = spent[b]
      /\ kind # "create" => c = d \/ spent'[c] < spent[c]
      /\ kind = "delete" => spent'[c] < spent[c]
  BY <1>1 DEF Shapes
<1>3. evaluations'[w] = [NoEvaluation EXCEPT !.step = "settings",
                                            !.todo = IF c = d THEN <<c>> ELSE <<c, d>>]
      /\ \A v \in AlertWriters : v # w => evaluations'[v] = evaluations[v]
  BY <1>1 DEF Shapes
<1>4. evaluations'[w] = [step |-> "settings", todo |-> IF c = d THEN <<c>> ELSE <<c, d>>,
                        quiet |-> FALSE, over |-> FALSE, crossed |-> {}]
  BY <1>3 DEF NoEvaluation
<1>5. evaluations'[w] \in Evaluation /\ c \in Awaiting(evaluations'[w].todo)
      /\ d \in Awaiting(evaluations'[w].todo)
  <2>1. CASE c = d
    <3>1. <<c>> \in Seq(AlertCells) /\ c \in Awaiting(<<c>>)
      BY DEF Awaiting
    <3>2. QED
      BY <2>1, <3>1, <1>4 DEF Evaluation
  <2>2. CASE c # d
    <3>1. <<c, d>> \in Seq(AlertCells) /\ c \in Awaiting(<<c, d>>) /\ d \in Awaiting(<<c, d>>)
      BY DEF Awaiting
    <3>2. QED
      BY <2>2, <3>1, <1>4 DEF Evaluation
  <2>3. QED
    BY <2>1, <2>2
<1>6. evaluations' \in [AlertWriters -> Evaluation]
  BY <1>1, <1>3, <1>5 DEF Shapes
<1>7. pushed' \in [AlertCells -> Nat] /\ alertNotes' \in [AlertCells -> SUBSET Notes]
  BY DEF WriteSpending, Shapes, AtCrossing, Notes
<1>8. Shapes'
  BY ZenonT(30), <1>2, <1>3, <1>4, <1>6, <1>7 DEF WriteSpending, Shapes
<1>9. ASSUME NEW b \in AlertCells, ~Over(b), Over(b)' PROVE b \in {c, d}
  BY <1>2, <1>9 DEF WriteSpending, Over, Shapes
<1>10. \A b \in AlertCells : ~Over(b) /\ Over(b)' => b \in Awaiting(evaluations'[w].todo)
  BY <1>5, <1>9
<1>11. evaluations[w] = NoEvaluation
  BY DEF WriteSpending
<1>12. evaluations'[w].crossed = {}
  BY <1>4
<1>13. QED
  BY <1>3, <1>8, <1>10, <1>11, <1>12

LEMMA WriteSound ==
  ASSUME AlertInv, NEW w \in AlertWriters, WriteSpending(w)
  PROVE  AlertInv'
<1> USE DEF AlertInv
<1>1. Shapes' /\ evaluations[w].crossed = {} /\ evaluations'[w].crossed = {}
      /\ evaluations[w].todo = <<>>
  BY WriteShapes DEF NoEvaluation
<1>2. ASSUME NEW c \in AlertCells PROVE CellInv(c)'
  <2>1. \A v \in AlertWriters : Crosses(v, c)' <=> Crosses(v, c)
    BY <1>1, WriteShapes DEF Crosses
  <2>2. /\ pushed'[c] = IF c \in Crossing(spent') THEN 0 ELSE pushed[c]
        /\ alertNotes'[c] = alertNotes[c] \cup (IF c \in Crossing(spent') THEN AtCrossing(c) ELSE {})
        /\ latched' = latched
        /\ c \in Crossing(spent') <=> ~Over(c) /\ Over(c)'
    BY DEF WriteSpending, Crossing, OverAt, Over
  <2>3. CellInv(c)
    OBVIOUS
  <2>4. CASE ~Over(c) /\ Over(c)'
    <3>1. pushed'[c] = 0 /\ alertNotes'[c] = alertNotes[c] \cup AtCrossing(c)
      BY <2>2, <2>4
    <3>2. "stale" \notin alertNotes'[c] => \A v \in AlertWriters : ~Crosses(v, c)
      BY <3>1 DEF AtCrossing, Crosses
    <3>3. "stale" \notin alertNotes'[c] => (OneToSend(c) /\ LatchComesFirst(c))'
      BY <2>1, <3>1, <3>2 DEF OneToSend, LatchComesFirst, NobodyCrosses
    <3>4. LatchIsTold(c)'
      BY <2>2, <3>1 DEF LatchIsTold, AtCrossing
    <3>5. OverIsLookedAt(c)'
      BY <2>4, WriteShapes DEF OverIsLookedAt
    <3>6. QED
      BY <3>3, <3>4, <3>5 DEF CellInv
  <2>5. CASE ~(~Over(c) /\ Over(c)')
    <3>1. pushed'[c] = pushed[c] /\ alertNotes'[c] = alertNotes[c]
      BY <2>2, <2>5
    <3>2. \A v \in AlertWriters :
            c \in Awaiting(evaluations[v].todo) => c \in Awaiting(evaluations'[v].todo)
      BY <1>1, WriteShapes DEF Awaiting
    <3>3. QED
      BY <2>1, <2>2, <2>3, <2>5, <3>1, <3>2
      DEF CellInv, OneToSend, LatchComesFirst, LatchIsTold, OverIsLookedAt, NobodyCrosses
  <2>6. QED
    BY <2>4, <2>5
<1>3. QED
  BY <1>1, <1>2

(***************************************************************************)
(* The steps of an evaluation. Each changes one writer's record, and what  *)
(* it changes of a cell is the latch, the push or the note of that cell.   *)
(***************************************************************************)
LEMMA SettingsSound ==
  ASSUME AlertInv, NEW w \in AlertWriters, ReadSettings(w)
  PROVE  AlertInv'
<1> USE DEF AlertInv
<1>1. \/ evaluations' = [evaluations EXCEPT ![w].step = "read", ![w].quiet = quietHours]
      \/ evaluations' = [evaluations EXCEPT ![w].step = "read"]
  BY DEF ReadSettings
<1>2. /\ evaluations' \in [AlertWriters -> Evaluation]
      /\ \A v \in AlertWriters : /\ evaluations'[v].todo = evaluations[v].todo
                                /\ evaluations'[v].crossed = evaluations[v].crossed
                                /\ evaluations'[v].step \in {evaluations[v].step, "read"}
  <2>1. evaluations \in [AlertWriters -> Evaluation] /\ quietHours \in BOOLEAN
    BY DEF Shapes
  <2>2. CASE evaluations' = [evaluations EXCEPT ![w].step = "read", ![w].quiet = quietHours]
    BY ZenonT(30), <2>1, <2>2 DEF Evaluation
  <2>3. CASE evaluations' = [evaluations EXCEPT ![w].step = "read"]
    BY <2>1, <2>3 DEF Evaluation
  <2>4. QED
    BY <1>1, <2>2, <2>3
<1>3. UNCHANGED <<spent, spendLimit, latched, quietHours, pushed, alertNotes>>
  BY DEF ReadSettings
<1>4. Shapes'
  BY <1>2, <1>3 DEF Shapes
<1>5. ASSUME NEW c \in AlertCells PROVE CellInv(c)'
  <2>1. CellInv(c)
    OBVIOUS
  <2>2. QED
    BY <1>2, <1>3, <2>1
    DEF CellInv, OneToSend, LatchComesFirst, LatchIsTold, OverIsLookedAt, NobodyCrosses,
        Crosses, Over
<1>6. QED
  BY <1>4, <1>5

LEMMA ReadingSound ==
  ASSUME AlertInv, NEW w \in AlertWriters, CellOverBudget(w)
  PROVE  AlertInv'
<1> DEFINE e == evaluations[w]
           h == Head(e.todo)
<1> USE DEF AlertInv
<1>1. /\ e \in Evaluation /\ e.todo \in Seq(AlertCells) /\ e.todo # <<>>
      /\ UNCHANGED <<spent, spendLimit, latched, quietHours, pushed>>
  BY DEF CellOverBudget, Shapes, Evaluation
<1>2. h \in AlertCells /\ Tail(e.todo) \in Seq(AlertCells)
      /\ \A c \in Awaiting(e.todo) : c = h \/ c \in Awaiting(Tail(e.todo))
  BY <1>1, HeadAndTail
<1>3. CASE evaluations' = [evaluations EXCEPT ![w].step = "act", ![w].over = Over(h)]
           /\ alertNotes' = alertNotes
  <2>1. Over(h) \in BOOLEAN
    BY DEF Over
  <2>2. /\ evaluations' \in [AlertWriters -> Evaluation]
        /\ \A v \in AlertWriters : /\ evaluations'[v].todo = evaluations[v].todo
                                  /\ evaluations'[v].crossed = evaluations[v].crossed
                                  /\ v # w => evaluations'[v].step = evaluations[v].step
    <3>1. evaluations \in [AlertWriters -> Evaluation]
      BY DEF Shapes
    <3>2. LET f == [evaluations[w] EXCEPT !.step = "act", !.over = Over(h)]
          IN  /\ f \in Evaluation /\ f.todo = evaluations[w].todo /\ f.crossed = evaluations[w].crossed
              /\ evaluations' = [evaluations EXCEPT ![w] = f]
      BY <1>3, <2>1, <3>1 DEF Evaluation
    <3>3. QED
      BY <3>1, <3>2
  <2>3. Shapes'
    BY <1>1, <1>3, <2>2 DEF Shapes
  <2>4. ASSUME NEW c \in AlertCells PROVE CellInv(c)'
    <3>1. CellInv(c)
      OBVIOUS
    <3>2. QED
      BY <1>1, <1>3, <2>2, <3>1
      DEF CellInv, OneToSend, LatchComesFirst, LatchIsTold, OverIsLookedAt, NobodyCrosses,
          Crosses, Over
  <2>5. QED
    BY <2>3, <2>4
<1>4. CASE evaluations' = [evaluations EXCEPT ![w].todo = Tail(@)] /\ alertNotes' = Noted({h}, "skipped")
  <2>1. /\ evaluations' \in [AlertWriters -> Evaluation]
        /\ evaluations'[w].todo = Tail(e.todo) /\ evaluations'[w].step = e.step
        /\ \A v \in AlertWriters : /\ v # w => evaluations'[v] = evaluations[v]
                                  /\ evaluations'[v].crossed = evaluations[v].crossed
    BY <1>2, <1>4 DEF Shapes, Evaluation
  <2>2. e.step = "read"
    BY DEF CellOverBudget
  <2>3. /\ alertNotes' \in [AlertCells -> SUBSET Notes]
        /\ \A c \in AlertCells :
              alertNotes'[c] = alertNotes[c] \cup (IF c = h THEN {"skipped"} ELSE {})
    BY <1>2, <1>4 DEF Noted, Shapes, Notes
  <2>4. Shapes'
    BY <1>1, <2>1, <2>2, <2>3 DEF Shapes
  <2>5. ASSUME NEW c \in AlertCells PROVE CellInv(c)'
    <3>1. CellInv(c)
      OBVIOUS
    <3>2. \A v \in AlertWriters : c # h /\ c \in Awaiting(evaluations[v].todo)
            => c \in Awaiting(evaluations'[v].todo)
      BY <1>2, <2>1
    <3>3. Over(c)' <=> Over(c)
      BY <1>1 DEF Over
    <3>4. \A v \in AlertWriters : Crosses(v, c)' <=> Crosses(v, c)
      BY <2>1 DEF Crosses
    <3>5. "stale" \notin alertNotes'[c] => (OneToSend(c) /\ LatchComesFirst(c))'
      BY <1>1, <2>3, <3>1, <3>3, <3>4
      DEF CellInv, OneToSend, LatchComesFirst, NobodyCrosses
    <3>6. LatchIsTold(c)'
      BY <1>1, <2>3, <3>1, <3>3, <3>4 DEF CellInv, LatchIsTold, NobodyCrosses
    <3>7. OverIsLookedAt(c)'
      BY <1>1, <2>3, <3>1, <3>2, <3>3 DEF CellInv, OverIsLookedAt
    <3>8. QED
      BY <3>5, <3>6, <3>7 DEF CellInv
  <2>6. QED
    BY <2>4, <2>5
<1>5. QED
  BY <1>3, <1>4 DEF CellOverBudget

\* The cell acted on: what is set or cleared, noted and left to send.
LEMMA ActingSound ==
  ASSUME AlertInv, NEW w \in AlertWriters, ActOnCell(w)
  PROVE  AlertInv'
<1> DEFINE e == evaluations[w]
           h == Head(e.todo)
<1> USE DEF AlertInv
<1>1. /\ e \in Evaluation /\ e.todo \in Seq(AlertCells) /\ e.todo # <<>>
      /\ UNCHANGED <<spent, spendLimit, quietHours, pushed>>
  BY DEF ActOnCell, Shapes, Evaluation
<1>2. h \in AlertCells /\ Tail(e.todo) \in Seq(AlertCells)
      /\ \A c \in Awaiting(e.todo) : c = h \/ c \in Awaiting(Tail(e.todo))
  BY <1>1, HeadAndTail
<1>3. PICK X \in SUBSET {h} :
        /\ evaluations' = [evaluations EXCEPT ![w] =
              [e EXCEPT !.step = "read", !.todo = Tail(e.todo), !.crossed = @ \cup X]]
        /\ X # {} => h \in latched' /\ h \notin latched /\ (Over(h) \/ "stale" \in alertNotes'[h])
        /\ h \in latched' => X # {} \/ h \in latched
        /\ \A c \in AlertCells \ {h} :
              alertNotes'[c] = alertNotes[c] /\ (c \in latched' <=> c \in latched)
        /\ latched' \subseteq AlertCells
        /\ alertNotes' \in [AlertCells -> SUBSET Notes]
        /\ alertNotes[h] \cap {"stale", "dropped"} \subseteq alertNotes'[h]
        /\ "latched" \in alertNotes[h] => "latched" \in alertNotes'[h] \/ h \notin latched'
        /\ h \in latched' \/ alertNotes'[h] # {} \/ ~Over(h)
        /\ h \in latched /\ h \notin latched' /\ Over(h) => "stale" \in alertNotes'[h]
  <2> DEFINE done == [e EXCEPT !.step = "read", !.todo = Tail(e.todo)]
             stale == IF e.over # Over(h) THEN {"stale"} ELSE {}
             settled == alertNotes[h] \ {"skipped"}
  <2>0. /\ alertNotes \in [AlertCells -> SUBSET Notes] /\ latched \subseteq AlertCells
        /\ {"stale", "skipped"} \subseteq Notes /\ e.over \in BOOLEAN
    BY <1>1 DEF Shapes, Notes, Evaluation
  <2>1. done = [e EXCEPT !.step = "read", !.todo = Tail(e.todo), !.crossed = @ \cup {}]
    BY <1>1 DEF Evaluation
  <2>2. CASE /\ ~e.over /\ latched' = latched \ {h}
             /\ alertNotes' = [alertNotes EXCEPT ![h] = (settled \ {"latched"}) \cup stale]
             /\ evaluations' = [evaluations EXCEPT ![w] = done]
    <3>1. alertNotes'[h] = (settled \ {"latched"}) \cup stale
      BY <1>2, <2>0, <2>2
    <3>2. /\ \A c \in AlertCells \ {h} :
                alertNotes'[c] = alertNotes[c] /\ (c \in latched' <=> c \in latched)
          /\ alertNotes' \in [AlertCells -> SUBSET Notes]
      BY <1>2, <2>0, <2>2
    <3>3. /\ h \notin latched' /\ latched' \subseteq AlertCells
          /\ alertNotes[h] \cap {"stale", "dropped"} \subseteq alertNotes'[h]
          /\ Over(h) => "stale" \in alertNotes'[h]
      BY <1>2, <2>0, <2>2, <3>1
    <3>4. WITNESS {} \in SUBSET {h}
    <3>5. QED
      BY <2>1, <2>2, <3>2, <3>3
  <2>3. CASE /\ e.over /\ ~e.quiet /\ latched' = latched \cup {h}
             /\ alertNotes' = [alertNotes EXCEPT ![h] = settled \cup stale]
             /\ evaluations' = [evaluations EXCEPT ![w] =
                   [done EXCEPT !.crossed = @ \cup (IF FreshlyLatched(h) THEN {h} ELSE {})]]
    <3> DEFINE X == IF FreshlyLatched(h) THEN {h} ELSE {}
    <3>1. alertNotes'[h] = settled \cup stale
      BY <1>2, <2>0, <2>3
    <3>2. [done EXCEPT !.crossed = @ \cup X]
            = [e EXCEPT !.step = "read", !.todo = Tail(e.todo), !.crossed = @ \cup X]
      BY <1>1 DEF Evaluation
    <3>3. X # {} <=> h \notin latched
      BY DEF FreshlyLatched
    <3> HIDE DEF X
    <3>4. X \in SUBSET {h}
      BY DEF X
    <3>5. evaluations' = [evaluations EXCEPT ![w] =
            [e EXCEPT !.step = "read", !.todo = Tail(e.todo), !.crossed = @ \cup X]]
      BY <2>3, <3>2 DEF X
    <3>6. /\ \A c \in AlertCells \ {h} :
                alertNotes'[c] = alertNotes[c] /\ (c \in latched' <=> c \in latched)
          /\ alertNotes' \in [AlertCells -> SUBSET Notes]
      BY <1>2, <2>0, <2>3
    <3>7. /\ h \in latched' /\ latched' \subseteq AlertCells
          /\ alertNotes[h] \cap {"latched", "stale", "dropped"} \subseteq alertNotes'[h]
          /\ Over(h) \/ "stale" \in alertNotes'[h]
      BY <1>2, <2>0, <2>3, <3>1
    <3>8. WITNESS X \in SUBSET {h}
    <3>9. QED
      BY <3>3, <3>5, <3>6, <3>7
  <2>4. CASE /\ alertNotes' = Noted({h}, "skipped") /\ latched' = latched
             /\ evaluations' = [evaluations EXCEPT ![w] = done]
    <3>1. \A c \in AlertCells :
            alertNotes'[c] = alertNotes[c] \cup (IF c = h THEN {"skipped"} ELSE {})
      BY <1>2, <2>4 DEF Noted
    <3>2. alertNotes' \in [AlertCells -> SUBSET Notes]
      BY <2>0, <2>4 DEF Noted
    <3>3. /\ alertNotes[h] \subseteq alertNotes'[h] /\ alertNotes'[h] # {}
          /\ \A c \in AlertCells \ {h} :
                alertNotes'[c] = alertNotes[c] /\ (c \in latched' <=> c \in latched)
      BY <1>2, <2>4, <3>1
    <3>4. /\ h \in latched' <=> h \in latched
          /\ latched' \subseteq AlertCells
          /\ evaluations' = [evaluations EXCEPT ![w] = done]
      BY <2>0, <2>4
    <3>5. WITNESS {} \in SUBSET {h}
    <3>6. QED
      BY <2>1, <3>2, <3>3, <3>4
  <2>5. \/ /\ ~e.over /\ latched' = latched \ {h}
           /\ alertNotes' = [alertNotes EXCEPT ![h] = (settled \ {"latched"}) \cup stale]
           /\ evaluations' = [evaluations EXCEPT ![w] = done]
        \/ /\ e.over /\ ~e.quiet /\ latched' = latched \cup {h}
           /\ alertNotes' = [alertNotes EXCEPT ![h] = settled \cup stale]
           /\ evaluations' = [evaluations EXCEPT ![w] =
                 [done EXCEPT !.crossed = @ \cup (IF FreshlyLatched(h) THEN {h} ELSE {})]]
        \/ /\ alertNotes' = Noted({h}, "skipped") /\ latched' = latched
           /\ evaluations' = [evaluations EXCEPT ![w] = done]
    BY DEF ActOnCell
  <2>6. QED
    BY <2>2, <2>3, <2>4, <2>5
<1>4. /\ evaluations' \in [AlertWriters -> Evaluation]
      /\ evaluations'[w].todo = Tail(e.todo) /\ evaluations'[w].step = "read"
      /\ evaluations'[w].crossed = e.crossed \cup X
      /\ \A v \in AlertWriters : v # w => evaluations'[v] = evaluations[v]
  BY <1>1, <1>2, <1>3 DEF Shapes, Evaluation
<1>5. Shapes'
  BY <1>1, <1>3, <1>4 DEF Shapes
<1>6. ASSUME NEW c \in AlertCells PROVE CellInv(c)'
  <2>1. CellInv(c) /\ (Over(c)' <=> Over(c))
    BY <1>1 DEF Over
  <2>2. CASE c # h
    <3>1. \A v \in AlertWriters : Crosses(v, c)' <=> Crosses(v, c)
      BY <1>4, <2>2 DEF Crosses
    <3>2. \A v \in AlertWriters :
            c \in Awaiting(evaluations[v].todo) => c \in Awaiting(evaluations'[v].todo)
      BY <1>2, <1>4, <2>2
    <3>3. alertNotes'[c] = alertNotes[c] /\ (c \in latched' <=> c \in latched)
      BY <1>3, <2>2
    <3>4. QED
      BY <1>1, <2>1, <3>1, <3>2, <3>3
      DEF CellInv, OneToSend, LatchComesFirst, LatchIsTold, OverIsLookedAt, NobodyCrosses
  <2>3. CASE c = h
    <3>1. \A v \in AlertWriters : Crosses(v, c)' <=> Crosses(v, c) \/ (v = w /\ c \in X)
      BY <1>4, <2>3 DEF Crosses
    <3>2. X = {} \/ X = {c}
      BY <2>3
    <3>3. "stale" \notin alertNotes'[c] => (OneToSend(c) /\ LatchComesFirst(c))'
      BY <1>1, <1>3, <2>1, <2>3, <3>1, <3>2
      DEF CellInv, OneToSend, LatchComesFirst, NobodyCrosses
    <3>4. LatchIsTold(c)'
      <4>1. CASE X = {c}
        BY <3>1, <4>1 DEF LatchIsTold, NobodyCrosses
      <4>2. CASE X = {} /\ c \in latched'
        <5>1. alertNotes'[c] \subseteq {"skipped"} => alertNotes[c] \subseteq {"skipped"}
          BY <1>3, <2>3, <4>2 DEF Shapes, Notes
        <5>2. QED
          BY <1>1, <1>3, <2>1, <2>3, <3>1, <4>2, <5>1 DEF CellInv, LatchIsTold, NobodyCrosses
      <4>3. QED
        BY <3>2, <4>1, <4>2 DEF LatchIsTold
    <3>5. OverIsLookedAt(c)'
      BY <1>3, <2>1, <2>3 DEF OverIsLookedAt
    <3>6. QED
      BY <3>3, <3>4, <3>5 DEF CellInv
  <2>4. QED
    BY <2>2, <2>3
<1>7. QED
  BY <1>5, <1>6

\* The end of an evaluation: its crossings are told, or noted as dropped.
LEMMA SendingSound ==
  ASSUME AlertInv, NEW w \in AlertWriters, SendAlert(w)
  PROVE  AlertInv'
<1> USE DEF AlertInv
<1>1. /\ UNCHANGED <<spent, spendLimit, latched, quietHours>>
      /\ evaluations[w].todo = <<>>
      /\ evaluations' = [evaluations EXCEPT ![w] = NoEvaluation]
  BY DEF SendAlert
<1>2. NoEvaluation \in Evaluation /\ NoEvaluation.crossed = {} /\ NoEvaluation.step = "none"
  BY DEF NoEvaluation, Evaluation
<1>3. /\ evaluations' \in [AlertWriters -> Evaluation]
      /\ \A c \in AlertCells : ~Crosses(w, c)'
      /\ \A v \in AlertWriters : v # w => evaluations'[v] = evaluations[v]
      /\ evaluations'[w].step = "none"
  BY <1>1, <1>2 DEF Shapes, Crosses
<1>4. \/ /\ alertNotes' = alertNotes
         /\ pushed' = [c \in AlertCells |-> pushed[c] + (IF Crosses(w, c) THEN 1 ELSE 0)]
      \/ /\ pushed' = pushed
         /\ alertNotes' = [c \in AlertCells |->
                               alertNotes[c] \cup (IF Crosses(w, c) THEN {"dropped"} ELSE {})]
  BY DEF SendAlert, Noted, Crosses
<1> HIDE DEF AlertInv
<1>5. pushed' \in [AlertCells -> Nat] /\ alertNotes' \in [AlertCells -> SUBSET Notes]
  <2>1. /\ pushed \in [AlertCells -> Nat] /\ alertNotes \in [AlertCells -> SUBSET Notes]
        /\ "dropped" \in Notes
    BY DEF AlertInv, Shapes, Notes
  <2>2. CASE /\ alertNotes' = alertNotes
             /\ pushed' = [c \in AlertCells |-> pushed[c] + (IF Crosses(w, c) THEN 1 ELSE 0)]
    <3>1. \A c \in AlertCells : pushed[c] + (IF Crosses(w, c) THEN 1 ELSE 0) \in Nat
      BY <2>1
    <3>2. QED
      BY <2>1, <2>2, <3>1
  <2>3. CASE /\ pushed' = pushed
             /\ alertNotes' = [c \in AlertCells |->
                                  alertNotes[c] \cup (IF Crosses(w, c) THEN {"dropped"} ELSE {})]
    BY <2>1, <2>3
  <2>4. QED
    BY <1>4, <2>2, <2>3
<1> USE DEF AlertInv
<1>6. Shapes'
  BY <1>1, <1>3, <1>5 DEF Shapes
<1>7. ASSUME NEW c \in AlertCells PROVE CellInv(c)'
  <2>1. CellInv(c) /\ (Over(c)' <=> Over(c)) /\ pushed[c] \in Nat
    BY <1>1 DEF Over, Shapes
  <2>2. \A v \in AlertWriters : Crosses(v, c)' <=> v # w /\ Crosses(v, c)
    BY <1>3 DEF Crosses
  <2>3. \A v \in AlertWriters :
          c \in Awaiting(evaluations[v].todo) => c \in Awaiting(evaluations'[v].todo)
    BY <1>1, <1>3 DEF Awaiting
  <2>4. alertNotes[c] \subseteq alertNotes'[c]
    BY <1>4
  <2>5. OverIsLookedAt(c)'
    BY <1>1, <2>1, <2>3, <2>4 DEF CellInv, OverIsLookedAt
  <2>6. CASE ~Crosses(w, c)
    <3>1. alertNotes'[c] = alertNotes[c] /\ pushed'[c] = pushed[c]
      <4>1. alertNotes'[c] = alertNotes[c]
        BY <1>4, <2>6
      <4>2. pushed'[c] = pushed[c] \/ pushed'[c] = pushed[c] + 0
        BY <1>4, <2>6
      <4>3. QED
        BY <2>1, <4>1, <4>2
    <3>2. \A v \in AlertWriters : Crosses(v, c)' <=> Crosses(v, c)
      BY <2>2, <2>6
    <3>3. QED
      BY <1>1, <2>1, <2>5, <3>1, <3>2
      DEF CellInv, OneToSend, LatchComesFirst, LatchIsTold, NobodyCrosses
  <2>7. CASE Crosses(w, c)
    <3>1. \/ alertNotes'[c] = alertNotes[c] /\ pushed'[c] = pushed[c] + 1
          \/ "dropped" \in alertNotes'[c] /\ pushed'[c] = pushed[c]
      BY <1>4, <2>7
    <3>2. "stale" \notin alertNotes'[c]
            => pushed[c] = 0 /\ NobodyCrosses(c)' /\ (Over(c) => c \in latched)
      BY <2>1, <2>2, <2>4, <2>7 DEF CellInv, OneToSend, LatchComesFirst, NobodyCrosses
    <3>3. "stale" \notin alertNotes'[c] => (OneToSend(c) /\ LatchComesFirst(c))'
      BY <1>1, <2>1, <3>1, <3>2 DEF OneToSend, LatchComesFirst, NobodyCrosses
    <3>4. LatchIsTold(c)'
      BY <1>1, <2>1, <3>1, <3>2 DEF LatchIsTold
    <3>5. QED
      BY <2>5, <3>3, <3>4 DEF CellInv
  <2>8. QED
    BY <2>6, <2>7
<1>8. QED
  BY <1>6, <1>7

(***************************************************************************)
(* What happens around the evaluations.                                    *)
(***************************************************************************)
LEMMA LimitSound ==
  ASSUME AlertInv, PutLimit
  PROVE  AlertInv'
<1> USE DEF AlertInv
<1>1. PICK b \in AlertCells, l \in SpendLimits :
        LET rises == spent[b] > l /\ ~Over(b)
        IN  /\ spendLimit' = [spendLimit EXCEPT ![b] = l]
            /\ pushed' = [pushed EXCEPT ![b] = IF rises THEN 0 ELSE @]
            /\ alertNotes' = [alertNotes EXCEPT ![b] =
                                 @ \cup (IF rises THEN AtCrossing(b) \cup {"skipped"} ELSE {})]
  BY DEF PutLimit
<1>2. UNCHANGED <<spent, latched, evaluations, quietHours>>
  BY DEF PutLimit
<1>3. l \in Nat
  BY AlertAssumption
<1>4. Shapes'
  BY <1>1, <1>2, <1>3 DEF Shapes, AtCrossing, Notes
<1>5. ASSUME NEW c \in AlertCells PROVE CellInv(c)'
  <2>1. CellInv(c) /\ \A v \in AlertWriters : Crosses(v, c)' <=> Crosses(v, c)
    BY <1>2 DEF Crosses
  <2>2. CASE ~Over(c) /\ Over(c)'
    <3>1. pushed'[c] = 0 /\ alertNotes'[c] = alertNotes[c] \cup AtCrossing(c) \cup {"skipped"}
      BY <1>1, <1>2, <1>3, <2>2 DEF Shapes, Over
    <3>2. "stale" \notin alertNotes'[c] => \A v \in AlertWriters : ~Crosses(v, c)
      BY <3>1 DEF AtCrossing, Crosses
    <3>3. "stale" \notin alertNotes'[c] => (OneToSend(c) /\ LatchComesFirst(c))'
      BY <2>1, <3>1, <3>2 DEF OneToSend, LatchComesFirst, NobodyCrosses
    <3>4. LatchIsTold(c)' /\ OverIsLookedAt(c)'
      BY <1>2, <3>1 DEF LatchIsTold, AtCrossing, OverIsLookedAt
    <3>5. QED
      BY <3>3, <3>4 DEF CellInv
  <2>3. CASE ~(~Over(c) /\ Over(c)')
    <3>1. (pushed'[c] = pushed[c] /\ alertNotes'[c] = alertNotes[c]) \/ ~Over(c)'
      BY <1>1, <1>2, <1>3, <2>3 DEF Shapes, Over
    <3>2. pushed'[c] \in {pushed[c], 0} /\ alertNotes[c] \subseteq alertNotes'[c]
      BY <1>1 DEF Shapes
    <3>3. "stale" \notin alertNotes'[c] => OneToSend(c)'
      BY <2>1, <3>2 DEF CellInv, OneToSend
    <3>4. Over(c)' => Over(c) /\ pushed'[c] = pushed[c] /\ alertNotes'[c] = alertNotes[c]
      BY <2>3, <3>1
    <3>5. QED
      BY <1>2, <2>1, <3>3, <3>4
      DEF CellInv, LatchComesFirst, LatchIsTold, OverIsLookedAt, NobodyCrosses
  <2>4. QED
    BY <2>2, <2>3
<1>6. QED
  BY <1>4, <1>5

\* A step that leaves the cells, the latches and the lists alone.
LEMMA QuietSound ==
  ASSUME AlertInv, quietHours' \in BOOLEAN,
         UNCHANGED <<spent, spendLimit, latched, evaluations, pushed, alertNotes>>
  PROVE  AlertInv'
BY DEF AlertInv, Shapes, CellInv, OneToSend, LatchComesFirst, LatchIsTold, OverIsLookedAt,
       NobodyCrosses, Crosses, Over

LEMMA KillSound ==
  ASSUME AlertInv, KillEvaluations
  PROVE  AlertInv'
<1> USE DEF AlertInv
<1>1. /\ UNCHANGED <<spent, spendLimit, latched, quietHours, pushed>>
      /\ evaluations' = [w \in AlertWriters |-> NoEvaluation]
      /\ \A c \in AlertCells : alertNotes'[c] = alertNotes[c] \cup
            (IF Pending(c) THEN {IF c \in latched THEN "dropped" ELSE "skipped"} ELSE {})
  BY DEF KillEvaluations
<1>2. NoEvaluation \in Evaluation /\ NoEvaluation.crossed = {} /\ NoEvaluation.step = "none"
  BY DEF NoEvaluation, Evaluation
<1>3. alertNotes' \in [AlertCells -> SUBSET Notes]
  BY DEF KillEvaluations, Shapes, Notes
<1>4. Shapes'
  BY <1>1, <1>2, <1>3 DEF Shapes
<1>5. ASSUME NEW c \in AlertCells PROVE CellInv(c)'
  <2>1. CellInv(c) /\ (Over(c)' <=> Over(c)) /\ alertNotes[c] \subseteq alertNotes'[c]
    BY <1>1 DEF Over
  <2>2. NobodyCrosses(c)'
    BY <1>1, <1>2 DEF NobodyCrosses, Crosses
  <2>3. "stale" \notin alertNotes'[c] => (OneToSend(c) /\ LatchComesFirst(c))'
    BY <1>1, <2>1, <2>2 DEF CellInv, OneToSend, LatchComesFirst, NobodyCrosses
  <2>4. LatchIsTold(c)'
    <3>1. CASE Pending(c)
      BY <1>1, <3>1 DEF LatchIsTold
    <3>2. CASE ~Pending(c)
      BY <1>1, <2>1, <3>2
      DEF CellInv, LatchIsTold, NobodyCrosses, Crosses, Pending
    <3>3. QED
      BY <3>1, <3>2
  <2>5. OverIsLookedAt(c)'
    <3>1. CASE Pending(c)
      BY <1>1, <3>1 DEF OverIsLookedAt
    <3>2. CASE ~Pending(c)
      BY <1>1, <2>1, <3>2 DEF CellInv, OverIsLookedAt, Pending, Awaiting
    <3>3. QED
      BY <3>1, <3>2
  <2>6. QED
    BY <2>3, <2>4, <2>5 DEF CellInv
<1>6. QED
  BY <1>4, <1>5

(***************************************************************************)
(* The invariant, and the theorem it is for.                               *)
(***************************************************************************)
LEMMA StepSound == AlertInv /\ [AlertNext]_alertVars => AlertInv'
<1> SUFFICES ASSUME AlertInv, [AlertNext]_alertVars PROVE AlertInv'
  OBVIOUS
<1>1. CASE UNCHANGED alertVars
  <2>1. quietHours' \in BOOLEAN
        /\ UNCHANGED <<spent, spendLimit, latched, evaluations, pushed, alertNotes>>
    BY <1>1 DEF alertVars, AlertInv, Shapes
  <2>2. QED
    BY <2>1, QuietSound
<1>2. CASE \E w \in AlertWriters :
         WriteSpending(w) \/ ReadSettings(w) \/ CellOverBudget(w) \/ ActOnCell(w) \/ SendAlert(w)
  BY <1>2, WriteSound, SettingsSound, ReadingSound, ActingSound, SendingSound
<1>3. CASE PutLimit
  BY <1>3, LimitSound
<1>4. CASE QuietHoursTurn
  <2>1. quietHours' \in BOOLEAN
        /\ UNCHANGED <<spent, spendLimit, latched, evaluations, pushed, alertNotes>>
    BY <1>4 DEF QuietHoursTurn, AlertInv, Shapes
  <2>2. QED
    BY <2>1, QuietSound
<1>5. CASE KillEvaluations
  BY <1>5, KillSound
<1>6. QED
  BY <1>1, <1>2, <1>3, <1>4, <1>5 DEF AlertNext

(* A crossing is told once, for any cells, writers, limits and amounts of spending: a cell
   over its limit that no evaluation is looking at has had its one push, but for the
   exceptions AlertOnce names (evaluateBudgetAlerts and the INSERT ... ON CONFLICT DO
   NOTHING of its latch). *)
THEOREM CrossingsAreToldOnce == AlertSpec => []AlertOnce
<1>1. AlertSpec => []AlertInv
  BY InitSound, StepSound, PTL DEF AlertSpec
<1>2. QED
  BY <1>1, InvTellsOnce, PTL

\* The alerts are of their type: a write spends on a cell once at most, and pushes once.
Evaluating == {w \in AlertWriters : evaluations[w].step # "none"}

AlertBounds ==
  /\ alertBudget \in [writes : 0..MaxAlertWrites, changes : Nat]
  /\ spendLimit \in [AlertCells -> SpendLimits]
  /\ \A c \in AlertCells : /\ spent[c] <= alertBudget.writes
                           /\ pushed[c] + Cardinality(Evaluating) <= alertBudget.writes

LEMMA AlertBoundsKept == ASSUME AlertInv, AlertBounds, [AlertNext]_alertVars PROVE AlertBounds'
<1>1. /\ Shapes /\ MaxAlertWrites \in Nat /\ MaxAlertChanges \in Nat /\ IsFiniteSet(AlertWriters)
      /\ alertBudget \in [writes : 0..MaxAlertWrites, changes : Nat]
  BY AlertAssumption DEF AlertInv, AlertBounds
<1>2. IsFiniteSet(Evaluating) /\ Cardinality(Evaluating) \in Nat
  BY <1>1, FS_Subset, FS_CardinalityType DEF Evaluating
<1>3. NoEvaluation.step = "none"
  BY DEF NoEvaluation
<1>4. ASSUME AlertChange \/ alertBudget' = alertBudget
      PROVE  alertBudget' \in [writes : 0..MaxAlertWrites, changes : Nat] /\ alertBudget'.writes = alertBudget.writes
  BY <1>1, <1>4 DEF AlertChange
<1>5. ASSUME AlertChange \/ alertBudget' = alertBudget, Evaluating' \subseteq Evaluating, spent' = spent,
             spendLimit' \in [AlertCells -> SpendLimits],
             \A c \in AlertCells : pushed'[c] \in {0, pushed[c]}
      PROVE  AlertBounds'
  <2>1. Cardinality(Evaluating') \in Nat /\ Cardinality(Evaluating') <= Cardinality(Evaluating)
    BY <1>2, <1>5, FS_Subset, FS_CardinalityType
  <2>2. /\ alertBudget' \in [writes : 0..MaxAlertWrites, changes : Nat] /\ alertBudget'.writes = alertBudget.writes
        /\ alertBudget.writes \in Nat
    BY <1>1, <1>4, <1>5
  <2>3. ASSUME NEW c \in AlertCells
        PROVE  spent'[c] <= alertBudget'.writes /\ pushed'[c] + Cardinality(Evaluating') <= alertBudget'.writes
    <3>1. /\ spent[c] \in Nat /\ pushed[c] \in Nat /\ spent[c] <= alertBudget.writes
          /\ pushed[c] + Cardinality(Evaluating) <= alertBudget.writes
      BY <1>1 DEF Shapes, AlertBounds
    <3>2. QED
      BY <1>2, <1>5, <2>1, <2>2, <3>1
  <2>4. QED
    BY <1>5, <2>2, <2>3 DEF AlertBounds
<1>6. ASSUME NEW w \in AlertWriters, ReadSettings(w) \/ CellOverBudget(w) \/ ActOnCell(w) PROVE AlertBounds'
  <2>1. /\ AlertChange \/ alertBudget' = alertBudget
        /\ UNCHANGED <<spent, spendLimit, pushed>>
    BY <1>6 DEF ReadSettings, CellOverBudget, ActOnCell
  <2>2. evaluations[w].step # "none" /\ \E e : evaluations' = [evaluations EXCEPT ![w] = e]
    BY <1>6 DEF ReadSettings, CellOverBudget, ActOnCell
  <2>3. Evaluating' \subseteq Evaluating
    BY <1>1, <2>2 DEF Evaluating, Shapes
  <2>4. QED
    BY <1>5, <2>1, <2>3 DEF AlertBounds
<1>7. ASSUME NEW w \in AlertWriters, WriteSpending(w) PROVE AlertBounds'
  <2>1. /\ alertBudget.writes < MaxAlertWrites /\ alertBudget' = [alertBudget EXCEPT !.writes = @ + 1]
        /\ evaluations[w] = NoEvaluation /\ spendLimit' = spendLimit
        /\ pushed' = [c \in AlertCells |-> IF c \in Crossing(spent') THEN 0 ELSE pushed[c]]
    BY <1>7 DEF WriteSpending
  <2>2. /\ alertBudget' \in [writes : 0..MaxAlertWrites, changes : Nat]
        /\ alertBudget'.writes = alertBudget.writes + 1 /\ alertBudget.writes \in Nat
    BY <1>1, <2>1
  <2>3. Evaluating' \subseteq Evaluating \cup {w}
    <3>1. \A v \in AlertWriters : v # w => evaluations'[v] = evaluations[v]
      BY <1>1, <1>7, WriteShapes
    <3>2. QED
      BY <3>1 DEF Evaluating
  <2>4. IsFiniteSet(Evaluating \cup {w}) /\ Cardinality(Evaluating \cup {w}) <= Cardinality(Evaluating) + 1
    BY <1>2, FS_AddElement
  <2>5. Cardinality(Evaluating') \in Nat /\ Cardinality(Evaluating') <= Cardinality(Evaluating) + 1
    BY <1>2, <2>3, <2>4, FS_Subset, FS_CardinalityType
  <2>6. PICK c \in AlertCells, d \in AlertCells, kind \in {"create", "delete", "move"} :
          /\ kind = "move" <=> c # d
          /\ spent' = CASE kind = "create" -> [spent EXCEPT ![c] = @ + 1]
                        [] kind = "delete" -> [spent EXCEPT ![c] = @ - 1]
                        [] kind = "move" -> [spent EXCEPT ![c] = @ - 1, ![d] = @ + 1]
    BY <1>7 DEF WriteSpending
  <2>7. \A b \in AlertCells : spent'[b] <= spent[b] + 1
    BY SMTT(20), <1>1, <2>6 DEF Shapes
  <2>8. ASSUME NEW b \in AlertCells
        PROVE  spent'[b] <= alertBudget'.writes /\ pushed'[b] + Cardinality(Evaluating') <= alertBudget'.writes
    <3>1. /\ spent[b] \in Nat /\ pushed[b] \in Nat /\ spent[b] <= alertBudget.writes
          /\ pushed[b] + Cardinality(Evaluating) <= alertBudget.writes
      BY <1>1 DEF Shapes, AlertBounds
    <3>2. pushed'[b] \in {0, pushed[b]}
      BY <2>1
    <3>3. spent'[b] \in Nat
      BY <1>1, <1>7, WriteShapes DEF Shapes
    <3>4. QED
      BY <1>2, <2>2, <2>5, <2>7, <3>1, <3>2, <3>3
  <2>9. QED
    BY <2>1, <2>2, <2>8 DEF AlertBounds
<1>8. ASSUME NEW w \in AlertWriters, SendAlert(w) PROVE AlertBounds'
  <2>1. /\ AlertChange \/ alertBudget' = alertBudget
        /\ UNCHANGED <<spent, spendLimit>> /\ evaluations[w].step = "read"
        /\ evaluations' = [evaluations EXCEPT ![w] = NoEvaluation]
        /\ \/ pushed' = [c \in AlertCells |-> pushed[c] + (IF c \in evaluations[w].crossed THEN 1 ELSE 0)]
           \/ pushed' = pushed
    BY <1>8 DEF SendAlert
  <2>2. w \in Evaluating /\ Evaluating' = Evaluating \ {w}
    BY <1>1, <1>3, <2>1 DEF Evaluating, Shapes
  <2>3. Cardinality(Evaluating') = Cardinality(Evaluating) - 1
    BY <1>2, <2>2, FS_RemoveElement
  <2>4. /\ alertBudget' \in [writes : 0..MaxAlertWrites, changes : Nat] /\ alertBudget'.writes = alertBudget.writes
        /\ alertBudget.writes \in Nat
    BY <1>1, <1>4, <2>1
  <2>5. ASSUME NEW b \in AlertCells
        PROVE  spent'[b] <= alertBudget'.writes /\ pushed'[b] + Cardinality(Evaluating') <= alertBudget'.writes
    <3>1. /\ spent[b] \in Nat /\ pushed[b] \in Nat /\ spent[b] <= alertBudget.writes
          /\ pushed[b] + Cardinality(Evaluating) <= alertBudget.writes
      BY <1>1 DEF Shapes, AlertBounds
    <3>2. pushed'[b] \in {pushed[b], pushed[b] + 1}
      BY <2>1, <3>1
    <3>3. QED
      BY <1>2, <2>1, <2>3, <2>4, <3>1, <3>2
  <2>6. QED
    BY <2>1, <2>4, <2>5 DEF AlertBounds
<1>9. CASE PutLimit
  <2>1. PICK c \in AlertCells, l \in SpendLimits :
          /\ spendLimit' = [spendLimit EXCEPT ![c] = l]
          /\ \E rises \in BOOLEAN : pushed' = [pushed EXCEPT ![c] = IF rises THEN 0 ELSE @]
    BY <1>9 DEF PutLimit
  <2>2. AlertChange /\ UNCHANGED <<spent, evaluations>>
    BY <1>9 DEF PutLimit
  <2>3. \A b \in AlertCells : pushed'[b] \in {0, pushed[b]}
    BY <1>1, <2>1 DEF Shapes
  <2>4. spendLimit' \in [AlertCells -> SpendLimits]
    BY <2>1 DEF AlertBounds
  <2>5. Evaluating' = Evaluating
    BY <2>2 DEF Evaluating
  <2>6. QED
    BY <1>5, <2>2, <2>3, <2>4, <2>5
<1>10. CASE QuietHoursTurn \/ UNCHANGED alertVars
  <2>1. UNCHANGED <<spent, spendLimit, evaluations, pushed>> /\ (AlertChange \/ alertBudget' = alertBudget)
    BY <1>10 DEF QuietHoursTurn, alertVars
  <2>2. Evaluating' = Evaluating
    BY <2>1 DEF Evaluating
  <2>3. QED
    BY <1>5, <2>1, <2>2 DEF AlertBounds
<1>11. CASE KillEvaluations
  <2>1. /\ UNCHANGED <<spent, spendLimit, pushed>> /\ AlertChange
        /\ evaluations' = [w \in AlertWriters |-> NoEvaluation]
    BY <1>11 DEF KillEvaluations
  <2>2. Evaluating' \subseteq Evaluating
    BY <1>3, <2>1 DEF Evaluating
  <2>3. QED
    BY <1>5, <2>1, <2>2 DEF AlertBounds
<1>12. QED
  BY <1>6, <1>7, <1>8, <1>9, <1>10, <1>11 DEF AlertNext

LEMMA AlertsTyped == AlertSpec => []AlertTypeOK
<1>1. AlertInit => AlertInv /\ AlertBounds
  <2> SUFFICES ASSUME AlertInit PROVE AlertBounds
    BY InitSound
  <2>1. spendLimit \in [AlertCells -> SpendLimits]
    <3>1. (CHOOSE l \in SpendLimits : \A k \in SpendLimits : l <= k) \in SpendLimits
      BY AlertAssumption
    <3>2. QED
      BY <3>1 DEF AlertInit
  <2>2. alertBudget = [writes |-> 0, changes |-> 0] /\ MaxAlertWrites \in Nat
    BY AlertAssumption DEF AlertInit
  <2>3. Evaluating = {}
    BY DEF AlertInit, Evaluating, NoEvaluation
  <2>4. Cardinality({}) = 0
    BY FS_EmptySet
  <2>5. \A c \in AlertCells : spent[c] = 0 /\ pushed[c] = 0
    BY DEF AlertInit
  <2>6. QED
    BY <2>1, <2>2, <2>3, <2>4, <2>5 DEF AlertBounds
<1>2. AlertInv /\ AlertBounds /\ [AlertNext]_alertVars => AlertInv' /\ AlertBounds'
  BY StepSound, AlertBoundsKept
<1>3. AlertInv /\ AlertBounds => AlertTypeOK
  <2> SUFFICES ASSUME AlertInv, AlertBounds PROVE AlertTypeOK
    OBVIOUS
  <2>1. Shapes /\ MaxAlertWrites \in Nat /\ Cardinality(Evaluating) \in Nat
    <3>1. IsFiniteSet(Evaluating)
      BY AlertAssumption, FS_Subset DEF Evaluating
    <3>2. QED
      BY <3>1, AlertAssumption, FS_CardinalityType DEF AlertInv
  <2>2. spent \in [AlertCells -> 0..MaxAlertWrites] /\ pushed \in [AlertCells -> 0..MaxAlertWrites]
    <3>1. \A c \in AlertCells : spent[c] \in 0..MaxAlertWrites /\ pushed[c] \in 0..MaxAlertWrites
      BY <2>1 DEF Shapes, AlertBounds
    <3>2. QED
      BY <2>1, <3>1 DEF Shapes
  <2>3. \A w \in AlertWriters : /\ evaluations[w].step \in {"none", "settings", "read", "act"}
                                /\ evaluations[w].crossed \subseteq AlertCells
    BY <2>1 DEF Shapes, Evaluation
  <2>4. \A c \in AlertCells : alertNotes[c] \subseteq {"latched", "skipped", "stale", "dropped"}
    BY <2>1 DEF Shapes, Notes
  <2>5. QED
    BY <2>1, <2>2, <2>3, <2>4 DEF AlertTypeOK, Shapes, AlertBounds
<1>4. QED
  BY <1>1, <1>2, <1>3, PTL DEF AlertSpec

(***************************************************************************)
(* The rolling-window limiter of the sign-in: its hits are ordered in time, so *)
(* what trimming leaves is what is after the edge of the window, and every *)
(* failure of the window is one of them.                                   *)
(***************************************************************************)
LimiterSpec == RateLimitInit /\ [][RateLimitNext]_rateLimitVars

\* Where the entries of s after the time h begin, and how many there are if none before is.
IsFirst(s, h, i) ==
  /\ i \in 1..(Len(s) + 1)
  /\ i <= Len(s) => s[i] > h
  /\ \A j \in 1..(i - 1) : s[j] <= h
FirstAfter(s, h) == CHOOSE i \in Nat : IsFirst(s, h, i)
CountAfter(s, h) == Len(s) + 1 - FirstAfter(s, h)

LEMMA FirstAfterIs ==
  ASSUME NEW s \in Seq(Nat), NEW h \in Int
  PROVE  /\ FirstAfter(s, h) \in Nat /\ IsFirst(s, h, FirstAfter(s, h))
         /\ \A i \in Nat : IsFirst(s, h, i) => i = FirstAfter(s, h)
         /\ CountAfter(s, h) \in 0..Len(s)
<1>1. Len(s) \in Nat /\ \A i \in 1..Len(s) : s[i] \in Nat
  BY LenProperties, ElementOfSeq
<1> DEFINE T == {i \in 1..(Len(s) + 1) : i <= Len(s) => s[i] > h}
<1>2. T \in SUBSET Nat /\ Len(s) + 1 \in T
  BY <1>1
<1>3. PICK i \in T : \A j \in T : i <= j
  BY <1>2, LeastNatural
<1>4. i \in Nat /\ IsFirst(s, h, i)
  BY <1>1, <1>3 DEF IsFirst
<1>5. FirstAfter(s, h) \in Nat /\ IsFirst(s, h, FirstAfter(s, h))
  BY <1>4 DEF FirstAfter
<1>6. ASSUME NEW j \in Nat, NEW k \in Nat, IsFirst(s, h, j), IsFirst(s, h, k) PROVE j = k
  <2>1. ASSUME NEW m \in Nat, NEW n \in Nat, IsFirst(s, h, m), IsFirst(s, h, n) PROVE ~(m < n)
    <3>1. SUFFICES ASSUME m < n PROVE FALSE
      OBVIOUS
    <3>2. m \in 1..(n - 1) /\ m <= Len(s) /\ m \in 1..Len(s)
      BY <1>1, <2>1, <3>1 DEF IsFirst
    <3>3. s[m] <= h /\ s[m] > h /\ s[m] \in Nat
      BY <1>1, <2>1, <3>2 DEF IsFirst
    <3>4. QED
      BY <3>3
  <2>2. QED
    BY <1>6, <2>1
<1>7. FirstAfter(s, h) \in 1..(Len(s) + 1)
  BY <1>5 DEF IsFirst
<1>8. CountAfter(s, h) \in 0..Len(s)
  BY <1>1, <1>7 DEF CountAfter
<1>9. QED
  BY <1>5, <1>6, <1>8

\* Later, no more of them are after the time.
LEMMA CountFalls ==
  ASSUME NEW s \in Seq(Nat), NEW h \in Int, NEW k \in Int, h <= k
  PROVE  CountAfter(s, k) <= CountAfter(s, h)
<1> DEFINE m == FirstAfter(s, h)
           n == FirstAfter(s, k)
<1>1. m \in Nat /\ n \in Nat /\ IsFirst(s, h, m) /\ IsFirst(s, k, n)
  BY FirstAfterIs
<1>2. Len(s) \in Nat /\ \A i \in 1..Len(s) : s[i] \in Nat
  BY LenProperties, ElementOfSeq
<1>3. CountAfter(s, k) = Len(s) + 1 - n /\ CountAfter(s, h) = Len(s) + 1 - m
  BY DEF CountAfter
<1> HIDE DEF m, n
<1>4. ~(n < m)
  <2>1. SUFFICES ASSUME n < m PROVE FALSE
    OBVIOUS
  <2>2. n \in 1..(m - 1) /\ n \in 1..Len(s)
    BY <1>1, <1>2, <2>1 DEF IsFirst
  <2>3. s[n] <= h /\ s[n] > k /\ s[n] \in Nat
    BY <1>1, <1>2, <2>2 DEF IsFirst
  <2>4. QED
    BY <2>3
<1>5. QED
  BY <1>1, <1>2, <1>3, <1>4

\* What is left when the entries up to the time c are dropped from the front.
LEMMA AfterTrimming ==
  ASSUME NEW s \in Seq(Nat), NEW c \in Int
  PROVE  LET t == SubSeq(s, FirstAfter(s, c), Len(s))
         IN  /\ t \in Seq(Nat) /\ Len(t) = CountAfter(s, c)
             /\ \A i \in 1..Len(t) : \E j \in 1..Len(s) : t[i] = s[j]
             /\ Len(t) > 0 => t[1] > c
             /\ \A h \in Int : /\ CountAfter(t, h) <= CountAfter(s, h)
                               /\ h >= c => CountAfter(t, h) = CountAfter(s, h)
<1> DEFINE f == FirstAfter(s, c)
           t == SubSeq(s, f, Len(s))
<1>1. Len(s) \in Nat /\ \A i \in 1..Len(s) : s[i] \in Nat
  BY LenProperties, ElementOfSeq
<1>2. f \in Nat /\ IsFirst(s, c, f) /\ CountAfter(s, c) = Len(s) + 1 - f
  BY FirstAfterIs DEF CountAfter
<1> HIDE DEF f
<1>3. f \in 1..(Len(s) + 1) /\ (f <= Len(s) => s[f] > c) /\ \A j \in 1..(f - 1) : s[j] <= c
  BY <1>2 DEF IsFirst
<1>4. t \in Seq(Nat) /\ Len(t) = Len(s) - f + 1 /\ \A i \in 1..(Len(s) - f + 1) : t[i] = s[f + i - 1]
  <2>1. f \in Int /\ Len(s) \in Int /\ \A i \in f..Len(s) : s[i] \in Nat
    BY <1>1, <1>3
  <2>2. /\ t \in Seq(Nat) /\ Len(t) = (IF f <= Len(s) THEN Len(s) - f + 1 ELSE 0)
        /\ \A i \in 1..(Len(s) - f + 1) : t[i] = s[f + i - 1]
    BY <2>1, SubSeqProperties
  <2> HIDE DEF t
  <2>3. QED
    BY <1>1, <1>3, <2>2
<1> HIDE DEF t
<1>5. Len(t) > 0 => t[1] > c
  <2>1. SUFFICES ASSUME Len(t) > 0 PROVE t[1] > c
    OBVIOUS
  <2>2. 1 \in 1..(Len(s) - f + 1) /\ f <= Len(s) /\ f + 1 - 1 = f
    BY <1>1, <1>3, <1>4, <2>1
  <2>3. QED
    BY <1>3, <1>4, <2>2
<1>6. \A i \in 1..Len(t) : \E j \in 1..Len(s) : t[i] = s[j]
  <2> SUFFICES ASSUME NEW i \in 1..Len(t) PROVE \E j \in 1..Len(s) : t[i] = s[j]
    OBVIOUS
  <2>1. f + i - 1 \in 1..Len(s) /\ t[i] = s[f + i - 1]
    BY <1>1, <1>3, <1>4
  <2>2. QED
    BY <2>1
<1>7. ASSUME NEW h \in Int, h >= c PROVE CountAfter(t, h) = CountAfter(s, h)
  <2> DEFINE n == FirstAfter(s, h)
  <2>1. n \in Nat /\ IsFirst(s, h, n) /\ CountAfter(s, h) = Len(s) + 1 - n
    BY FirstAfterIs DEF CountAfter
  <2> HIDE DEF n
  <2>2. n \in 1..(Len(s) + 1) /\ (n <= Len(s) => s[n] > h) /\ \A j \in 1..(n - 1) : s[j] <= h
    BY <2>1 DEF IsFirst
  <2>3. ~(n < f)
    <3>1. SUFFICES ASSUME n < f PROVE FALSE
      OBVIOUS
    <3>2. n \in 1..Len(s) /\ n \in 1..(f - 1)
      BY <1>1, <1>3, <2>2, <3>1
    <3>3. s[n] \in Nat /\ s[n] <= c /\ s[n] > h
      BY <1>1, <1>3, <2>2, <3>2
    <3>4. QED
      BY <1>7, <3>3
  <2>0. PICK m : m = n - f + 1
    OBVIOUS
  <2>4. m \in 1..(Len(t) + 1) /\ m \in Nat
    BY <1>1, <1>3, <1>4, <2>0, <2>2, <2>3
  <2>5. m <= Len(t) => t[m] > h
    <3>1. SUFFICES ASSUME m <= Len(t) PROVE t[m] > h
      OBVIOUS
    <3>2. n <= Len(s) /\ t[m] = s[f + m - 1] /\ f + m - 1 = n
      BY <1>1, <1>3, <1>4, <2>0, <2>2, <2>4, <3>1
    <3>3. QED
      BY <2>2, <3>2
  <2>6. ASSUME NEW j \in 1..(m - 1) PROVE t[j] <= h
    <3>1. j \in 1..(Len(s) - f + 1) /\ f + j - 1 \in 1..(n - 1)
      BY <1>1, <1>3, <2>0, <2>2, <2>3
    <3>2. QED
      BY <1>4, <2>2, <3>1
  <2>7. IsFirst(t, h, m)
    BY <2>4, <2>5, <2>6 DEF IsFirst
  <2>8. FirstAfter(t, h) = m
    BY <1>4, <2>4, <2>7, FirstAfterIs
  <2>9. QED
    BY <1>1, <1>3, <1>4, <2>0, <2>1, <2>2, <2>8 DEF CountAfter
<1>8. ASSUME NEW h \in Int PROVE CountAfter(t, h) <= CountAfter(s, h)
  <2>1. CASE h >= c
    <3>1. CountAfter(t, h) = CountAfter(s, h) /\ CountAfter(s, h) \in 0..Len(s)
      BY <1>7, <2>1, FirstAfterIs
    <3>2. QED
      BY <3>1
  <2>2. CASE ~(h >= c)
    <3>1. CountAfter(t, h) \in 0..Len(t)
      BY <1>4, FirstAfterIs
    <3>2. CountAfter(s, c) <= CountAfter(s, h)
      BY <2>2, CountFalls
    <3>3. CountAfter(s, h) \in 0..Len(s)
      BY FirstAfterIs
    <3>4. Len(t) = CountAfter(s, c)
      BY <1>1, <1>2, <1>3, <1>4
    <3>5. QED
      BY <1>1, <1>3, <1>4, <3>1, <3>2, <3>3, <3>4
  <2>3. QED
    BY <2>1, <2>2
<1>9. Len(t) = CountAfter(s, c)
  BY <1>1, <1>2, <1>3, <1>4
<1>10. QED
  BY <1>4, <1>5, <1>6, <1>7, <1>8, <1>9 DEF t, f

\* One entry more, no earlier than the others.
LEMMA AfterAppending ==
  ASSUME NEW s \in Seq(Nat), NEW n \in Nat, NEW h \in Int, \A i \in 1..Len(s) : s[i] <= n
  PROVE  /\ Append(s, n) \in Seq(Nat) /\ Len(Append(s, n)) = Len(s) + 1
         /\ \A i \in 1..(Len(s) + 1) : Append(s, n)[i] <= n
         /\ n > h => CountAfter(Append(s, n), h) = CountAfter(s, h) + 1
<1> DEFINE t == Append(s, n)
           m == FirstAfter(s, h)
<1>1. Len(s) \in Nat /\ \A i \in 1..Len(s) : s[i] \in Nat
  BY LenProperties, ElementOfSeq
<1>2. m \in Nat /\ IsFirst(s, h, m) /\ CountAfter(s, h) = Len(s) + 1 - m
  BY FirstAfterIs DEF CountAfter
<1> HIDE DEF m
<1>3. m \in 1..(Len(s) + 1) /\ (m <= Len(s) => s[m] > h) /\ \A j \in 1..(m - 1) : s[j] <= h
  BY <1>2 DEF IsFirst
<1>4. /\ t \in Seq(Nat) /\ Len(t) = Len(s) + 1
      /\ \A i \in 1..Len(s) : t[i] = s[i]
      /\ t[Len(s) + 1] = n
  BY <1>1, AppendProperties
<1> HIDE DEF t
<1>5. \A i \in 1..(Len(s) + 1) : t[i] <= n
  <2> SUFFICES ASSUME NEW i \in 1..(Len(s) + 1) PROVE t[i] <= n
    OBVIOUS
  <2>1. CASE i = Len(s) + 1
    BY <1>4, <2>1
  <2>2. CASE i # Len(s) + 1
    <3>1. i \in 1..Len(s)
      BY <1>1, <2>2
    <3>2. QED
      BY <1>4, <3>1
  <2>3. QED
    BY <2>1, <2>2
<1>6. ASSUME n > h PROVE CountAfter(t, h) = CountAfter(s, h) + 1
  <2>1. m \in 1..(Len(t) + 1)
    BY <1>1, <1>3, <1>4
  <2>2. m <= Len(t) => t[m] > h
    <3>1. CASE m <= Len(s)
      <4>1. m \in 1..Len(s)
        BY <1>1, <1>3, <3>1
      <4>2. QED
        BY <1>3, <1>4, <3>1, <4>1
    <3>2. CASE ~(m <= Len(s))
      <4>1. m = Len(s) + 1
        BY <1>1, <1>3, <3>2
      <4>2. QED
        BY <1>4, <1>6, <4>1
    <3>3. QED
      BY <3>1, <3>2
  <2>3. ASSUME NEW j \in 1..(m - 1) PROVE t[j] <= h
    <3>1. j \in 1..Len(s)
      BY <1>1, <1>3
    <3>2. QED
      BY <1>3, <1>4, <3>1
  <2>4. IsFirst(t, h, m)
    BY <2>1, <2>2, <2>3 DEF IsFirst
  <2>5. FirstAfter(t, h) = m
    BY <1>2, <1>4, <2>4, FirstAfterIs
  <2>6. QED
    BY <1>1, <1>2, <1>4, <2>5 DEF CountAfter
<1>7. QED
  BY <1>4, <1>5, <1>6 DEF t

\* None of them is after its last.
LEMMA NoneAfterAll ==
  ASSUME NEW s \in Seq(Nat), NEW h \in Int, \A i \in 1..Len(s) : s[i] <= h
  PROVE  CountAfter(s, h) = 0
<1>1. Len(s) \in Nat
  BY LenProperties
<1>2. IsFirst(s, h, Len(s) + 1)
  BY <1>1 DEF IsFirst
<1>3. FirstAfter(s, h) = Len(s) + 1
  BY <1>1, <1>2, FirstAfterIs
<1>4. QED
  BY <1>1, <1>3 DEF CountAfter

\* The first one is not after itself.
LEMMA OneIsGone ==
  ASSUME NEW s \in Seq(Nat), Len(s) > 0
  PROVE  CountAfter(s, s[1]) < Len(s)
<1>0. Len(s) \in Nat /\ s[1] \in Nat
  BY LenProperties, ElementOfSeq
<1>1. Len(s) \in Nat /\ s[1] \in Int
  BY <1>0
<1>2. FirstAfter(s, s[1]) \in Nat /\ IsFirst(s, s[1], FirstAfter(s, s[1]))
  BY <1>1, FirstAfterIs
<1>3. FirstAfter(s, s[1]) # 1
  <2>1. SUFFICES ASSUME FirstAfter(s, s[1]) = 1 PROVE FALSE
    OBVIOUS
  <2>2. IsFirst(s, s[1], 1)
    BY <1>2, <2>1
  <2>3. 1 <= Len(s)
    BY <1>1
  <2>4. s[1] > s[1]
    BY <2>2, <2>3 DEF IsFirst
  <2>5. QED
    BY <1>1, <2>4
<1>4. FirstAfter(s, s[1]) \in 1..(Len(s) + 1)
  BY <1>2 DEF IsFirst
<1>5. QED
  BY <1>1, <1>3, <1>4 DEF CountAfter

\* Rounding up never falls short of what is rounded.
LEMMA RoundedUp ==
  ASSUME NEW a \in Int, NEW T \in Nat \ {0}
  PROVE  /\ (a + T - 1) \div T \in Int
         /\ ((a + T - 1) \div T) * T >= a
  OBVIOUS

\* What a limiter is: every hit is in the past, and so is every failure.
LimiterShape ==
  /\ now \in 0..LastTick
  /\ hits \in Seq(Nat) /\ \A i \in 1..Len(hits) : hits[i] <= now
  /\ Len(hits) <= Limit + Cardinality(Requests) - 1
  /\ attempt \in [Requests -> {"out", "refused", "checking"}]
  /\ IsFiniteSet(failures)
  /\ \A f \in failures : f.by \in Requests /\ f.at \in 0..now
  /\ \E p \in [at : Int, over : Nat] : promised \subseteq {p}

FailedAfter(h) == {f \in failures : f.at > h}
Checking == {r \in Requests : attempt[r] = "checking"}

\* Every failure of the window is a hit.
FailuresCounted == \A h \in Int : h >= now - Window => Cardinality(FailedAfter(h)) <= CountAfter(hits, h)
\* The gate leaves room for the requests that are past it.
Gated == CountAfter(hits, now - Window) + Cardinality(Checking) <= Limit + Cardinality(Requests) - 1
\* By the time a refused request is told, the oldest hit is gone.
Promised == \A p \in promised : CountAfter(hits, p.at - Window) < Limit + p.over

LimiterInv == LimiterShape /\ FailuresCounted /\ Gated /\ Promised

LEMMA LimitIs == /\ Limit \in Nat \ {0} /\ Window \in Nat \ {0} /\ TicksPerSecond \in Nat \ {0} /\ LastTick \in Nat
                 /\ IsFiniteSet(Requests) /\ Cardinality(Requests) \in Nat \ {0}
<1>1. /\ Limit \in Nat \ {0} /\ Window \in Nat \ {0} /\ TicksPerSecond \in Nat \ {0} /\ LastTick \in Nat
      /\ IsFiniteSet(Requests) /\ Requests # {}
  BY RateLimitAssumption
<1>2. Cardinality(Requests) \in Nat /\ Cardinality(Requests) # 0
  BY <1>1, FS_CardinalityType, FS_EmptySet
<1>3. QED
  BY <1>1, <1>2

\* What trimming leaves is what is after the window's edge.
LEMMA TrimmedIs ==
  ASSUME LimiterShape
  PROVE  /\ now - Window \in Int
         /\ Trimmed = SubSeq(hits, FirstAfter(hits, now - Window), Len(hits))
         /\ Trimmed \in Seq(Nat) /\ Len(Trimmed) \in Nat /\ Len(Trimmed) = CountAfter(hits, now - Window)
         /\ Len(Trimmed) <= Len(hits)
         /\ \A i \in 1..Len(Trimmed) : Trimmed[i] <= now
         /\ Len(Trimmed) > 0 => Trimmed[1] > now - Window
         /\ \A h \in Int : /\ CountAfter(Trimmed, h) <= CountAfter(hits, h)
                           /\ h >= now - Window => CountAfter(Trimmed, h) = CountAfter(hits, h)
<1>1. hits \in Seq(Nat) /\ now \in Nat /\ Window \in Nat /\ \A i \in 1..Len(hits) : hits[i] <= now
  BY LimitIs DEF LimiterShape
<1>2. Len(hits) \in Nat /\ \A i \in 1..Len(hits) : hits[i] \in Nat
  BY <1>1, LenProperties, ElementOfSeq
<1> DEFINE c == now - Window
<1>3. c \in Int
  BY <1>1
<1> DEFINE Fits(i) == /\ i <= Len(hits) => hits[i] > c
                      /\ \A j \in 1..(i - 1) : ~(hits[j] > c)
<1>4. FirstInWindow = CHOOSE i \in 1..(Len(hits) + 1) : Fits(i)
  BY DEF FirstInWindow, InWindow
<1> HIDE DEF c
<1>5. \A i \in 1..(Len(hits) + 1) : Fits(i) <=> IsFirst(hits, c, i)
  <2> SUFFICES ASSUME NEW i \in 1..(Len(hits) + 1) PROVE Fits(i) <=> IsFirst(hits, c, i)
    OBVIOUS
  <2>1. ASSUME NEW j \in 1..(i - 1) PROVE ~(hits[j] > c) <=> hits[j] <= c
    <3>1. j \in 1..Len(hits)
      BY <1>2
    <3>2. hits[j] \in Nat
      BY <1>2, <3>1
    <3>3. QED
      BY <1>3, <3>2
  <2>2. QED
    BY <2>1 DEF IsFirst
<1>6. FirstAfter(hits, c) \in Nat /\ IsFirst(hits, c, FirstAfter(hits, c))
      /\ \A i \in Nat : IsFirst(hits, c, i) => i = FirstAfter(hits, c)
  BY <1>1, <1>3, FirstAfterIs
<1>7. FirstAfter(hits, c) \in 1..(Len(hits) + 1)
  BY <1>6 DEF IsFirst
<1> HIDE DEF Fits
<1>8. FirstInWindow \in 1..(Len(hits) + 1) /\ Fits(FirstInWindow)
  BY <1>4, <1>5, <1>6, <1>7
<1>9. FirstInWindow = FirstAfter(hits, c)
  BY <1>2, <1>5, <1>6, <1>8
<1>10. Trimmed = SubSeq(hits, FirstAfter(hits, c), Len(hits))
  BY <1>9 DEF Trimmed
<1>11. /\ Trimmed \in Seq(Nat) /\ Len(Trimmed) = CountAfter(hits, c)
       /\ \A i \in 1..Len(Trimmed) : \E j \in 1..Len(hits) : Trimmed[i] = hits[j]
       /\ Len(Trimmed) > 0 => Trimmed[1] > c
       /\ \A h \in Int : /\ CountAfter(Trimmed, h) <= CountAfter(hits, h)
                         /\ h >= c => CountAfter(Trimmed, h) = CountAfter(hits, h)
  BY <1>1, <1>3, <1>10, AfterTrimming
<1>12. CountAfter(hits, c) \in 0..Len(hits)
  BY <1>1, <1>3, FirstAfterIs
<1>13. \A i \in 1..Len(Trimmed) : Trimmed[i] <= now
  BY <1>1, <1>11
<1>14. Len(Trimmed) \in Nat /\ Len(Trimmed) <= Len(hits)
  BY <1>2, <1>11, <1>12
<1>15. QED
  BY <1>3, <1>10, <1>11, <1>13, <1>14, Zenon DEF c

\* Any entries counted are some number of them.
LEMMA CountIsNat ==
  ASSUME NEW s \in Seq(Nat), NEW h \in Int
  PROVE  CountAfter(s, h) \in Nat
<1>1. Len(s) \in Nat /\ CountAfter(s, h) \in 0..Len(s)
  BY LenProperties, FirstAfterIs
<1>2. QED
  BY <1>1

\* The requests past the gate, by what a request becomes.
LEMMA CheckingIs ==
  ASSUME LimiterShape
  PROVE  /\ Cardinality(Checking) \in Nat /\ Cardinality(Checking) <= Cardinality(Requests)
         /\ \A r \in Requests : attempt[r] = "checking" => Cardinality(Checking) > 0
         /\ \A r \in Requests :
               attempt[r] = "checking" =>
                  Cardinality({q \in Requests : [attempt EXCEPT ![r] = "out"][q] = "checking"})
                     = Cardinality(Checking) - 1
         /\ \A r \in Requests, a \in {"out", "refused"} :
               attempt[r] # "checking" =>
                  {q \in Requests : [attempt EXCEPT ![r] = a][q] = "checking"} = Checking
         /\ \A r \in Requests, a \in {"out", "refused", "checking"} :
                  Cardinality({q \in Requests : [attempt EXCEPT ![r] = a][q] = "checking"}) \in 0..Cardinality(Requests)
<1>1. attempt \in [Requests -> {"out", "refused", "checking"}] /\ IsFiniteSet(Requests)
      /\ Cardinality(Requests) \in Nat
  BY LimitIs DEF LimiterShape
<1>2. \A S \in SUBSET Requests : /\ IsFiniteSet(S) /\ Cardinality(S) \in Nat
                                 /\ Cardinality(S) <= Cardinality(Requests)
  BY <1>1, FS_Subset, FS_CardinalityType
<1>3. Checking \in SUBSET Requests
  BY DEF Checking
<1>4. ASSUME NEW r \in Requests, attempt[r] = "checking"
      PROVE  /\ Cardinality(Checking) > 0
             /\ Cardinality({q \in Requests : [attempt EXCEPT ![r] = "out"][q] = "checking"})
                   = Cardinality(Checking) - 1
  <2>1. r \in Checking
    BY <1>4 DEF Checking
  <2>2. {q \in Requests : [attempt EXCEPT ![r] = "out"][q] = "checking"} = Checking \ {r}
    <3>1. \A q \in Requests : [attempt EXCEPT ![r] = "out"][q] = IF q = r THEN "out" ELSE attempt[q]
      BY <1>1
    <3>2. QED
      BY <3>1 DEF Checking
  <2>3. Cardinality(Checking \ {r}) = Cardinality(Checking) - 1
    BY <1>2, <1>3, <2>1, FS_RemoveElement
  <2>4. Cardinality(Checking) # 0
    BY <1>2, <1>3, <2>1, FS_EmptySet
  <2>5. Cardinality(Checking) \in Nat
    BY <1>2, <1>3
  <2>6. Cardinality(Checking) > 0
    BY <2>4, <2>5
  <2>7. QED
    BY <2>2, <2>3, <2>6
<1>5. ASSUME NEW r \in Requests, NEW a \in {"out", "refused"}, attempt[r] # "checking"
      PROVE  {q \in Requests : [attempt EXCEPT ![r] = a][q] = "checking"} = Checking
  <2>1. \A q \in Requests : [attempt EXCEPT ![r] = a][q] = IF q = r THEN a ELSE attempt[q]
    BY <1>1
  <2>2. QED
    BY <1>5, <2>1 DEF Checking
<1>6. ASSUME NEW S \in SUBSET Requests PROVE Cardinality(S) \in 0..Cardinality(Requests)
  BY <1>1, <1>2
<1>7. QED
  BY <1>2, <1>3, <1>4, <1>5, <1>6

\* Only the failures after a time count after a later one.
LEMMA FailedIs ==
  ASSUME LimiterShape
  PROVE  \A h \in Int : IsFiniteSet(FailedAfter(h)) /\ Cardinality(FailedAfter(h)) \in Nat
<1>1. \A h \in Int : FailedAfter(h) \subseteq failures
  BY DEF FailedAfter
<1>2. QED
  BY <1>1, FS_Subset, FS_CardinalityType DEF LimiterShape

LEMMA LimiterStarts == RateLimitInit => LimiterInv
<1> SUFFICES ASSUME RateLimitInit PROVE LimiterInv
  OBVIOUS
<1>1. LimiterShape
  <2>1. IsFiniteSet({})
    BY FS_EmptySet
  <2>2. [at |-> 0, over |-> 0] \in [at : Int, over : Nat] /\ promised \subseteq {[at |-> 0, over |-> 0]}
    BY DEF RateLimitInit
  <2>3. \E p \in [at : Int, over : Nat] : promised \subseteq {p}
    BY <2>2
  <2>4. QED
    BY <2>1, <2>3, LimitIs DEF RateLimitInit, LimiterShape
<1>2. /\ hits = <<>> /\ hits \in Seq(Nat) /\ failures = {} /\ promised = {} /\ now - Window \in Int
      /\ \A r \in Requests : attempt[r] = "out"
  BY LimitIs DEF RateLimitInit
<1>3. ASSUME NEW h \in Int PROVE CountAfter(hits, h) = 0
  <2>1. Len(hits) = 0
    BY <1>2
  <2>2. \A i \in 1..Len(hits) : hits[i] <= h
    BY <2>1
  <2>3. QED
    BY <1>2, <2>2, NoneAfterAll
<1>4. \A h \in Int : Cardinality(FailedAfter(h)) = 0
  <2>1. \A h \in Int : FailedAfter(h) = {}
    BY <1>2 DEF FailedAfter
  <2>2. QED
    BY <2>1, FS_EmptySet
<1>5. Cardinality(Checking) = 0
  <2>1. Checking = {}
    BY <1>2 DEF Checking
  <2>2. QED
    BY <2>1, FS_EmptySet
<1>6. FailuresCounted
  BY <1>3, <1>4 DEF FailuresCounted
<1>7. Gated
  BY <1>2, <1>3, <1>5, LimitIs DEF Gated
<1>8. QED
  BY <1>1, <1>2, <1>6, <1>7 DEF LimiterInv, Promised

LEMMA TimePasses == LimiterInv /\ Passes => LimiterInv'
<1> SUFFICES ASSUME LimiterInv, Passes PROVE LimiterInv'
  OBVIOUS
<1>1. LimiterShape /\ FailuresCounted /\ Gated /\ Promised
  BY DEF LimiterInv
<1>2. now < LastTick /\ now' = now + 1
  BY DEF Passes
<1>3. hits' = hits /\ attempt' = attempt /\ failures' = failures /\ promised' = promised
  BY DEF Passes
<1>4. now \in Nat /\ Window \in Nat /\ LastTick \in Nat /\ hits \in Seq(Nat) /\ now <= LastTick
  BY <1>1, LimitIs DEF LimiterShape
<1>5. Len(hits) \in Nat /\ \A i \in 1..Len(hits) : hits[i] \in Nat
  BY <1>4, LenProperties, ElementOfSeq
<1>6. LimiterShape'
  <2>1. now' \in 0..LastTick
    BY <1>2, <1>4
  <2>2. \A i \in 1..Len(hits) : hits[i] <= now'
    BY <1>1, <1>2, <1>4, <1>5 DEF LimiterShape
  <2>3. \A f \in failures : f.by \in Requests /\ f.at \in 0..now'
    BY <1>1, <1>2, <1>4 DEF LimiterShape
  <2>4. QED
    BY <1>1, <1>3, <2>1, <2>2, <2>3 DEF LimiterShape
<1>7. FailuresCounted'
  <2>1. \A h \in Int : FailedAfter(h)' = FailedAfter(h)
    BY <1>3 DEF FailedAfter
  <2>2. \A h \in Int : h >= now' - Window => h >= now - Window
    BY <1>2, <1>4
  <2>3. QED
    BY <1>1, <1>3, <2>1, <2>2 DEF FailuresCounted
<1>8. Gated'
  <2>1. Checking' = Checking
    BY <1>3 DEF Checking
  <2>2. CountAfter(hits, now' - Window) <= CountAfter(hits, now - Window)
    BY <1>2, <1>4, CountFalls
  <2>3. CountAfter(hits, now' - Window) \in Nat /\ CountAfter(hits, now - Window) \in Nat
    BY <1>2, <1>4, CountIsNat
  <2>4. /\ CountAfter(hits, now' - Window) + Cardinality(Checking) <= Limit + Cardinality(Requests) - 1
    BY <1>1, <2>2, <2>3, CheckingIs, LimitIs DEF Gated
  <2>5. QED
    BY <1>3, <2>1, <2>4 DEF Gated
<1>9. Promised'
  BY <1>1, <1>3 DEF Promised
<1>10. QED
  BY <1>6, <1>7, <1>8, <1>9 DEF LimiterInv

\* What trimming alone keeps.
LEMMA TrimmingKeeps ==
  ASSUME LimiterInv, hits' = Trimmed, now' = now, failures' = failures
  PROVE  /\ now' \in 0..LastTick
         /\ hits' \in Seq(Nat) /\ \A i \in 1..Len(hits') : hits'[i] <= now'
         /\ Len(hits') <= Limit + Cardinality(Requests) - 1
         /\ IsFiniteSet(failures') /\ \A f \in failures' : f.by \in Requests /\ f.at \in 0..now'
         /\ FailuresCounted'
         /\ CountAfter(hits', now' - Window) = Len(Trimmed)
         /\ promised' = promised => Promised'
<1>1. LimiterShape /\ FailuresCounted /\ Gated /\ Promised
  BY DEF LimiterInv
<1>2. /\ now - Window \in Int
      /\ Trimmed \in Seq(Nat) /\ Len(Trimmed) \in Nat /\ Len(Trimmed) = CountAfter(hits, now - Window)
      /\ Len(Trimmed) <= Len(hits)
      /\ \A i \in 1..Len(Trimmed) : Trimmed[i] <= now
      /\ \A h \in Int : CountAfter(Trimmed, h) <= CountAfter(hits, h)
      /\ \A h \in Int : h >= now - Window => CountAfter(Trimmed, h) = CountAfter(hits, h)
  BY <1>1, TrimmedIs
<1>3. /\ now \in 0..LastTick /\ Len(hits) <= Limit + Cardinality(Requests) - 1
      /\ IsFiniteSet(failures) /\ \A f \in failures : f.by \in Requests /\ f.at \in 0..now
      /\ hits \in Seq(Nat)
      /\ \E p \in [at : Int, over : Nat] : promised \subseteq {p}
  BY <1>1 DEF LimiterShape
<1>4. Len(hits) \in Nat
  BY <1>3, LenProperties
<1>5. PICK t \in Seq(Nat) : t = Trimmed
  BY <1>2
<1>6. hits' = t
  BY <1>5
<1>7. Len(t) <= Limit + Cardinality(Requests) - 1
  BY <1>2, <1>3, <1>4, <1>5, LimitIs
<1>8. FailuresCounted'
  <2>1. \A h \in Int : FailedAfter(h)' = FailedAfter(h)
    BY DEF FailedAfter
  <2>2. \A h \in Int : h >= now - Window => Cardinality(FailedAfter(h)) <= CountAfter(t, h)
    BY <1>1, <1>2, <1>5 DEF FailuresCounted
  <2>3. QED
    BY <1>6, <2>1, <2>2 DEF FailuresCounted
<1>9. CountAfter(t, now - Window) = Len(t)
  <2>1. now - Window >= now - Window
    BY <1>2
  <2>2. QED
    BY <1>2, <1>5, <2>1
<1>10. ASSUME promised' = promised PROVE Promised'
  <2>1. ASSUME NEW p \in promised PROVE CountAfter(t, p.at - Window) < Limit + p.over
    <3>1. p.at - Window \in Int /\ p.over \in Nat
      BY <1>3, LimitIs
    <3>2. /\ CountAfter(t, p.at - Window) <= CountAfter(hits, p.at - Window)
          /\ CountAfter(hits, p.at - Window) < Limit + p.over
      BY <1>1, <1>2, <1>5, <3>1 DEF Promised
    <3>3. CountAfter(t, p.at - Window) \in Nat /\ CountAfter(hits, p.at - Window) \in Nat
      BY <1>3, <1>5, <3>1, CountIsNat
    <3>4. QED
      BY <3>1, <3>2, <3>3, LimitIs
  <2>2. QED
    BY <1>6, <1>10, <2>1 DEF Promised
<1>11. QED
  BY <1>2, <1>3, <1>5, <1>6, <1>7, <1>8, <1>9, <1>10

LEMMA Asking == \A r \in Requests : LimiterInv /\ AskLimiter(r) => LimiterInv'
<1> SUFFICES ASSUME NEW r \in Requests, LimiterInv, AskLimiter(r) PROVE LimiterInv'
  OBVIOUS
<1>1. LimiterShape /\ Gated
  BY DEF LimiterInv
<1>2. attempt[r] = "out" /\ hits' = Trimmed /\ now' = now /\ failures' = failures /\ promised' = promised
  BY DEF AskLimiter
<1>3. PICK a \in {"refused", "checking"} : /\ attempt' = [attempt EXCEPT ![r] = a]
                                           /\ a = "checking" => Len(Trimmed) < Limit
  <2>1. CASE Exhausted
    BY <2>1 DEF AskLimiter
  <2>2. CASE ~Exhausted
    <3>1. Len(Trimmed) \in Nat
      BY <1>1, TrimmedIs
    <3>2. Len(Trimmed) < Limit
      BY <2>2, <3>1, LimitIs DEF Exhausted
    <3>3. attempt' = [attempt EXCEPT ![r] = "checking"]
      BY <2>2 DEF AskLimiter
    <3>4. QED
      BY <3>2, <3>3
  <2>3. QED
    BY <2>1, <2>2
<1>4. /\ now' \in 0..LastTick
      /\ hits' \in Seq(Nat) /\ \A i \in 1..Len(hits') : hits'[i] <= now'
      /\ Len(hits') <= Limit + Cardinality(Requests) - 1
      /\ IsFiniteSet(failures') /\ \A f \in failures' : f.by \in Requests /\ f.at \in 0..now'
      /\ FailuresCounted'
      /\ CountAfter(hits', now' - Window) = Len(Trimmed)
      /\ Promised'
  BY <1>2, TrimmingKeeps
<1>5. attempt' \in [Requests -> {"out", "refused", "checking"}]
  BY <1>1, <1>3 DEF LimiterShape
<1>6. LimiterShape'
  <2>1. \E p \in [at : Int, over : Nat] : promised' \subseteq {p}
    BY <1>1, <1>2 DEF LimiterShape
  <2>2. QED
    BY <1>4, <1>5, <2>1 DEF LimiterShape
<1>7. Gated'
  <2>1. Checking' = {q \in Requests : [attempt EXCEPT ![r] = a][q] = "checking"}
    BY <1>3 DEF Checking
  <2>2. Len(Trimmed) \in Nat /\ Len(Trimmed) = CountAfter(hits, now - Window)
    BY <1>1, TrimmedIs
  <2>3. Len(Trimmed) + Cardinality(Checking') <= Limit + Cardinality(Requests) - 1
    <3>1. CASE a = "refused"
      <4>1. Checking' = Checking
        BY <1>1, <1>2, <2>1, <3>1, CheckingIs
      <4>2. QED
        BY <1>1, <2>2, <4>1 DEF Gated
    <3>2. CASE a = "checking"
      <4>1. Cardinality(Checking') \in 0..Cardinality(Requests)
        BY <1>1, <2>1, <3>2, CheckingIs
      <4>2. Len(Trimmed) < Limit
        BY <1>3, <3>2
      <4>3. QED
        BY <2>2, <4>1, <4>2, LimitIs
    <3>3. QED
      BY <3>1, <3>2
  <2>4. QED
    BY <1>4, <2>3 DEF Gated
<1>8. QED
  BY <1>4, <1>6, <1>7 DEF LimiterInv

LEMMA Telling == \A r \in Requests : LimiterInv /\ TellWhen(r) => LimiterInv'
<1> SUFFICES ASSUME NEW r \in Requests, LimiterInv, TellWhen(r) PROVE LimiterInv'
  OBVIOUS
<1>1. LimiterShape /\ Gated
  BY DEF LimiterInv
<1>2. /\ attempt[r] = "refused" /\ hits' = Trimmed /\ now' = now /\ failures' = failures
      /\ attempt' = [attempt EXCEPT ![r] = "out"]
      /\ promised' = {[at |-> now + RetryAfter * TicksPerSecond,
                       over |-> IF Len(Trimmed) > Limit THEN Len(Trimmed) - Limit ELSE 0]}
  BY DEF TellWhen
<1>3. /\ now' \in 0..LastTick
      /\ hits' \in Seq(Nat) /\ \A i \in 1..Len(hits') : hits'[i] <= now'
      /\ Len(hits') <= Limit + Cardinality(Requests) - 1
      /\ IsFiniteSet(failures') /\ \A f \in failures' : f.by \in Requests /\ f.at \in 0..now'
      /\ FailuresCounted'
      /\ CountAfter(hits', now' - Window) = Len(Trimmed)
  BY <1>2, TrimmingKeeps
<1>4. attempt' \in [Requests -> {"out", "refused", "checking"}]
  BY <1>1, <1>2 DEF LimiterShape
<1>5. PICK t \in Seq(Nat) : /\ t = Trimmed /\ Len(t) \in Nat
                            /\ Len(t) = CountAfter(hits, now - Window)
                            /\ \A i \in 1..Len(t) : t[i] <= now
  BY <1>1, TrimmedIs
<1>6. now \in Nat /\ Window \in Nat /\ TicksPerSecond \in Nat \ {0}
  BY <1>1, LimitIs DEF LimiterShape
<1>7. RetryAfter \in Int /\ (Len(t) > 0 => now + RetryAfter * TicksPerSecond >= t[1] + Window)
  <2>1. CASE t = <<>>
    <3>1. RetryAfter = 0 /\ Len(t) = 0
      BY <1>5, <2>1 DEF RetryAfter
    <3>2. QED
      BY <3>1
  <2>2. CASE t # <<>>
    <3>1. Len(t) > 0 /\ Head(t) = t[1] /\ t[1] \in Nat
      BY <1>5, <2>2, EmptySeq, HeadTailProperties, ElementOfSeq
    <3>2. PICK ticks \in Int : ticks = Window - (now - t[1])
      BY <1>6, <3>1
    <3>3. PICK secs : secs = (ticks + TicksPerSecond - 1) \div TicksPerSecond
      OBVIOUS
    <3>4. secs \in Int /\ secs * TicksPerSecond >= ticks
      BY <1>6, <3>3, RoundedUp
    <3>5. RetryAfter = IF secs < 1 THEN 1 ELSE secs
      BY <1>5, <2>2, <3>1, <3>2, <3>3 DEF RetryAfter
    <3>6. RetryAfter \in Int /\ RetryAfter * TicksPerSecond >= ticks
      <4>1. CASE secs < 1
        <5>1. RetryAfter = 1
          BY <3>5, <4>1
        <5>2. secs * TicksPerSecond <= TicksPerSecond
          <6>1. \A x \in Int, y \in Nat : x <= 0 => x * y <= 0
            OBVIOUS
          <6>2. secs <= 0
            BY <3>4, <4>1
          <6>3. secs * TicksPerSecond <= 0
            BY <1>6, <3>4, <6>1, <6>2
          <6>4. secs * TicksPerSecond \in Int
            BY <1>6, <3>4
          <6>5. QED
            BY <1>6, <6>3, <6>4
        <5>3. secs * TicksPerSecond \in Int
          BY <1>6, <3>4
        <5>6. PICK w \in Int : w = secs * TicksPerSecond
          BY <5>3
        <5>7. w >= ticks /\ w <= TicksPerSecond
          BY <3>4, <5>2, <5>6
        <5>4. TicksPerSecond >= ticks
          BY <1>6, <3>2, <5>7
        <5>5. QED
          BY <1>6, <5>1, <5>4
      <4>2. CASE ~(secs < 1)
        BY <3>4, <3>5, <4>2
      <4>3. QED
        BY <4>1, <4>2
    <3>7. RetryAfter * TicksPerSecond \in Int
      BY <1>6, <3>6
    <3>9. PICK w \in Int : w = RetryAfter * TicksPerSecond
      BY <3>7
    <3>11. w >= ticks
      BY <3>6, <3>9
    <3>10. now + w >= t[1] + Window
      <4>1. PICK y \in Int : y = t[1]
        BY <3>1
      <4>2. ticks = Window - (now - y)
        BY <3>2, <4>1
      <4>3. \A a, b, c, d, g \in Int : g = b - (a - c) /\ d >= g => a + d >= c + b
        OBVIOUS
      <4>4. now + w >= y + Window
        BY <1>6, <3>11, <4>2, <4>3
      <4>5. QED
        BY <4>1, <4>4
    <3>8. QED
      BY <3>1, <3>6, <3>9, <3>10
  <2>3. QED
    BY <2>1, <2>2
<1>8. PICK p \in Int : p = now + RetryAfter * TicksPerSecond
  BY <1>6, <1>7
<1> DEFINE o == IF Len(t) > Limit THEN Len(t) - Limit ELSE 0
<1>16. o \in Nat /\ Len(t) <= Limit + o
  BY <1>5, LimitIs
<1> HIDE DEF o
<1>9. CountAfter(t, p - Window) < Limit + o
  <2>0. CountAfter(t, p - Window) \in 0..Len(t)
    <3>1. p - Window \in Int
      BY <1>6
    <3>2. QED
      BY <3>1, FirstAfterIs
  <2>1. CASE Len(t) = 0
    BY <1>16, <2>0, <2>1, LimitIs
  <2>2. CASE Len(t) # 0
    <3>1. Len(t) > 0 /\ t[1] \in Nat
      BY <1>5, <2>2, ElementOfSeq
    <3>2. p - Window >= t[1] /\ p - Window \in Int /\ t[1] \in Int
      BY <1>6, <1>7, <1>8, <3>1
    <3>3. CountAfter(t, p - Window) <= CountAfter(t, t[1])
      BY <3>2, CountFalls
    <3>4. CountAfter(t, t[1]) < Len(t)
      BY <3>1, OneIsGone
    <3>5. CountAfter(t, t[1]) \in Nat
      BY <3>2, CountIsNat
    <3>6. QED
      BY <1>5, <1>16, <2>0, <3>3, <3>4, <3>5, LimitIs
  <2>3. QED
    BY <2>1, <2>2
<1>10. promised' = {[at |-> p, over |-> o]}
  BY <1>2, <1>5, <1>8 DEF o
<1>11. hits' = t
  BY <1>2, <1>5
<1>12. LimiterShape'
  <2>1. [at |-> p, over |-> o] \in [at : Int, over : Nat]
    BY <1>8, <1>16
  <2>2. promised' \subseteq {[at |-> p, over |-> o]}
    BY <1>10
  <2>3. QED
    BY <1>3, <1>4, <2>1, <2>2 DEF LimiterShape
<1>13. Promised'
  <2>1. \A q \in promised' : q.at = p /\ q.over = o
    BY <1>10
  <2>2. QED
    BY <1>9, <1>11, <2>1 DEF Promised
<1>14. Gated'
  <2>1. Checking' = Checking
    <3>1. Checking' = {q \in Requests : [attempt EXCEPT ![r] = "out"][q] = "checking"}
      BY <1>2 DEF Checking
    <3>2. QED
      BY <1>1, <1>2, <3>1, CheckingIs
  <2>2. CountAfter(hits', now' - Window) = CountAfter(hits, now - Window)
    BY <1>3, <1>5
  <2>3. QED
    BY <1>1, <2>1, <2>2 DEF Gated
<1>15. QED
  BY <1>3, <1>12, <1>13, <1>14 DEF LimiterInv

\* A request past the gate that records a failure, a success or nothing.
LEMMA Leaving ==
  ASSUME NEW r \in Requests, LimiterShape, attempt[r] = "checking",
         attempt' = [attempt EXCEPT ![r] = "out"]
  PROVE  /\ attempt' \in [Requests -> {"out", "refused", "checking"}]
         /\ Cardinality(Checking) \in Nat /\ Cardinality(Checking) > 0
         /\ Cardinality(Checking') = Cardinality(Checking) - 1
<1>1. attempt' \in [Requests -> {"out", "refused", "checking"}]
  BY DEF LimiterShape
<1>2. Checking' = {q \in Requests : [attempt EXCEPT ![r] = "out"][q] = "checking"}
  BY DEF Checking
<1>3. QED
  BY <1>1, <1>2, CheckingIs

LEMMA Failing == \A r \in Requests : LimiterInv /\ PasswordWrong(r) => LimiterInv'
<1> SUFFICES ASSUME NEW r \in Requests, LimiterInv, PasswordWrong(r) PROVE LimiterInv'
  OBVIOUS
<1>1. LimiterShape /\ FailuresCounted /\ Gated
  BY DEF LimiterInv
<1>2. /\ attempt[r] = "checking" /\ hits' = Append(Trimmed, now)
      /\ attempt' = [attempt EXCEPT ![r] = "out"] /\ promised' = {} /\ now' = now
  BY DEF PasswordWrong
<1>3. PICK x : /\ failures' = {f \in failures : InWindow(f.at)} \cup {x}
               /\ x.by = r /\ x.at = now
  <2> DEFINE k == Cardinality({f \in failures : f.at = now /\ f.by = r})
  <2> HIDE DEF k
  <2>1. failures' = {f \in failures : InWindow(f.at)} \cup {[by |-> r, at |-> now, nth |-> k]}
    BY DEF PasswordWrong, k
  <2>2. [by |-> r, at |-> now, nth |-> k].by = r /\ [by |-> r, at |-> now, nth |-> k].at = now
    OBVIOUS
  <2>3. QED
    BY <2>1, <2>2
<1>4. PICK t \in Seq(Nat) : /\ t = Trimmed /\ Len(t) \in Nat /\ Len(t) = CountAfter(hits, now - Window)
                            /\ \A i \in 1..Len(t) : t[i] <= now
                            /\ \A h \in Int : h >= now - Window => CountAfter(t, h) = CountAfter(hits, h)
  BY <1>1, TrimmedIs
<1>5. /\ now \in 0..LastTick /\ IsFiniteSet(failures) /\ \A f \in failures : f.by \in Requests /\ f.at \in 0..now
  BY <1>1 DEF LimiterShape
<1>6. now \in Nat /\ Window \in Nat \ {0} /\ now - Window \in Int /\ now > now - Window
  BY <1>5, LimitIs
<1>7. PICK u : u = Append(t, now)
  OBVIOUS
<1>8. /\ u \in Seq(Nat) /\ Len(u) = Len(t) + 1 /\ \A i \in 1..Len(u) : u[i] <= now
      /\ \A h \in Int : now > h => CountAfter(u, h) = CountAfter(t, h) + 1
  BY <1>4, <1>6, <1>7, AfterAppending
<1>9. hits' = u
  BY <1>2, <1>4, <1>7
<1>10. /\ attempt' \in [Requests -> {"out", "refused", "checking"}]
       /\ Cardinality(Checking) \in Nat /\ Cardinality(Checking) > 0
       /\ Cardinality(Checking') = Cardinality(Checking) - 1
  BY <1>1, <1>2, Leaving
<1>11. Len(t) + 1 + Cardinality(Checking') <= Limit + Cardinality(Requests) - 1
  BY <1>1, <1>4, <1>10, LimitIs DEF Gated
<1>12. LimiterShape'
  <2>1. Len(u) <= Limit + Cardinality(Requests) - 1
    BY <1>4, <1>8, <1>10, <1>11, LimitIs
  <2>2. IsFiniteSet(failures')
    <3>1. IsFiniteSet({f \in failures : InWindow(f.at)})
      BY <1>5, FS_Subset
    <3>2. QED
      BY <1>3, <3>1, FS_AddElement
  <2>3. \A f \in failures' : f.by \in Requests /\ f.at \in 0..now
    <3>1. x.by \in Requests /\ x.at \in 0..now
      BY <1>3, <1>6
    <3>2. QED
      BY <1>3, <1>5, <3>1
  <2>4. \E p \in [at : Int, over : Nat] : promised' \subseteq {p}
    <3>1. [at |-> 0, over |-> 0] \in [at : Int, over : Nat]
      OBVIOUS
    <3>2. promised' \subseteq {[at |-> 0, over |-> 0]}
      BY <1>2
    <3>3. QED
      BY <3>1, <3>2
  <2>5. QED
    BY <1>2, <1>5, <1>8, <1>9, <1>10, <2>1, <2>2, <2>3, <2>4 DEF LimiterShape
<1>13. FailuresCounted'
  <2> SUFFICES ASSUME NEW h \in Int, h >= now - Window
               PROVE  Cardinality(FailedAfter(h)') <= CountAfter(u, h)
    BY <1>2, <1>9 DEF FailuresCounted
  <2>1. CASE now > h
    <3>1. FailedAfter(h)' \subseteq FailedAfter(h) \cup {x}
      BY <1>3 DEF FailedAfter
    <3>2. IsFiniteSet(FailedAfter(h)) /\ Cardinality(FailedAfter(h)) \in Nat
      BY <1>1, FailedIs
    <3>3. /\ IsFiniteSet(FailedAfter(h) \cup {x})
          /\ Cardinality(FailedAfter(h) \cup {x}) <= Cardinality(FailedAfter(h)) + 1
          /\ Cardinality(FailedAfter(h) \cup {x}) \in Nat
      <4>1. /\ IsFiniteSet(FailedAfter(h) \cup {x})
            /\ \/ Cardinality(FailedAfter(h) \cup {x}) = Cardinality(FailedAfter(h))
               \/ Cardinality(FailedAfter(h) \cup {x}) = Cardinality(FailedAfter(h)) + 1
        BY <3>2, FS_AddElement
      <4>2. QED
        BY <3>2, <4>1
    <3>4. Cardinality(FailedAfter(h)') <= Cardinality(FailedAfter(h) \cup {x}) /\ Cardinality(FailedAfter(h)') \in Nat
      BY <3>1, <3>3, FS_Subset, FS_CardinalityType
    <3>5. Cardinality(FailedAfter(h)) <= CountAfter(t, h) /\ CountAfter(u, h) = CountAfter(t, h) + 1
      BY <1>1, <1>4, <1>8, <2>1 DEF FailuresCounted
    <3>6. CountAfter(t, h) \in Nat
      BY CountIsNat
    <3>7. QED
      BY <3>2, <3>3, <3>4, <3>5, <3>6
  <2>2. CASE ~(now > h)
    <3>1. \A f \in failures' : ~(f.at > h)
      <4>1. \A f \in failures : ~(f.at > h)
        BY <1>5, <1>6, <2>2
      <4>2. ~(x.at > h)
        BY <1>3, <2>2
      <4>3. QED
        BY <1>3, <4>1, <4>2
    <3>2. FailedAfter(h)' = {}
      BY <3>1 DEF FailedAfter
    <3>3. Cardinality(FailedAfter(h)') = 0 /\ CountAfter(u, h) \in Nat
      BY <1>8, <3>2, FS_EmptySet, CountIsNat
    <3>4. QED
      BY <3>3
  <2>3. QED
    BY <2>1, <2>2
<1>14. Gated'
  <2>1. CountAfter(u, now - Window) = Len(t) + 1
    <3>1. now - Window >= now - Window
      BY <1>6
    <3>2. CountAfter(u, now - Window) = CountAfter(t, now - Window) + 1
      BY <1>6, <1>8
    <3>3. QED
      BY <1>4, <1>6, <3>1, <3>2
  <2>2. QED
    BY <1>2, <1>9, <1>11, <2>1 DEF Gated
<1>15. Promised'
  BY <1>2 DEF Promised
<1>16. QED
  BY <1>12, <1>13, <1>14, <1>15 DEF LimiterInv

LEMMA Succeeding == \A r \in Requests : LimiterInv /\ PasswordRight(r) => LimiterInv'
<1> SUFFICES ASSUME NEW r \in Requests, LimiterInv, PasswordRight(r) PROVE LimiterInv'
  OBVIOUS
<1>1. LimiterShape /\ Gated
  BY DEF LimiterInv
<1>2. /\ attempt[r] = "checking" /\ hits' = <<>> /\ failures' = {}
      /\ attempt' = [attempt EXCEPT ![r] = "out"] /\ promised' = promised /\ now' = now
  BY DEF PasswordRight
<1>3. /\ attempt' \in [Requests -> {"out", "refused", "checking"}]
      /\ Cardinality(Checking) \in Nat /\ Cardinality(Checking) > 0
      /\ Cardinality(Checking') = Cardinality(Checking) - 1
  BY <1>1, <1>2, Leaving
<1>4. now \in 0..LastTick /\ now - Window \in Int /\ \E p \in [at : Int, over : Nat] : promised \subseteq {p}
  BY <1>1, LimitIs DEF LimiterShape
<1>5. PICK u \in Seq(Nat) : u = <<>>
  BY EmptySeq
<1>6. Len(u) = 0 /\ hits' = u
  BY <1>2, <1>5
<1>7. ASSUME NEW h \in Int PROVE CountAfter(u, h) = 0
  <2>1. \A i \in 1..Len(u) : u[i] <= h
    BY <1>6
  <2>2. QED
    BY <2>1, NoneAfterAll
<1>8. Cardinality({}) = 0 /\ IsFiniteSet({})
  BY FS_EmptySet
<1>9. LimiterShape'
  <2>1. Len(u) <= Limit + Cardinality(Requests) - 1
    BY <1>6, LimitIs
  <2>2. \A i \in 1..Len(u) : u[i] <= now
    BY <1>6
  <2>3. QED
    BY <1>2, <1>3, <1>4, <1>6, <1>8, <2>1, <2>2 DEF LimiterShape
<1>10. FailuresCounted'
  <2>1. \A h \in Int : FailedAfter(h)' = {}
    BY <1>2 DEF FailedAfter
  <2>2. ASSUME NEW h \in Int PROVE Cardinality(FailedAfter(h)') <= CountAfter(hits', h)
    <3>1. Cardinality(FailedAfter(h)') = 0
      BY <1>8, <2>1
    <3>2. CountAfter(hits', h) = 0
      BY <1>6, <1>7
    <3>3. QED
      BY <3>1, <3>2
  <2>3. QED
    BY <2>2 DEF FailuresCounted
<1>11. Gated'
  <2>1. CountAfter(hits', now' - Window) = 0
    BY <1>2, <1>4, <1>6, <1>7
  <2>2. Cardinality(Checking') <= Limit + Cardinality(Requests) - 1
    <3>1. Cardinality(Checking) <= Cardinality(Requests)
      BY <1>1, CheckingIs
    <3>2. QED
      BY <1>3, <3>1, LimitIs
  <2>3. QED
    BY <1>3, <2>1, <2>2 DEF Gated
<1>12. Promised'
  <2>1. ASSUME NEW p \in promised PROVE CountAfter(u, p.at - Window) = 0 /\ p.over \in Nat
    <3>1. p.at - Window \in Int /\ p.over \in Nat
      BY <1>4, LimitIs
    <3>2. QED
      BY <1>7, <3>1
  <2>2. QED
    BY <1>2, <1>6, <2>1, LimitIs DEF Promised
<1>13. QED
  BY <1>9, <1>10, <1>11, <1>12 DEF LimiterInv

LEMMA FailingOtherwise == \A r \in Requests : LimiterInv /\ LoginFails(r) => LimiterInv'
<1> SUFFICES ASSUME NEW r \in Requests, LimiterInv, LoginFails(r) PROVE LimiterInv'
  OBVIOUS
<1>1. LimiterShape /\ FailuresCounted /\ Gated /\ Promised
  BY DEF LimiterInv
<1>2. /\ attempt[r] = "checking" /\ hits' = hits /\ failures' = failures
      /\ attempt' = [attempt EXCEPT ![r] = "out"] /\ promised' = promised /\ now' = now
  BY DEF LoginFails
<1>3. /\ attempt' \in [Requests -> {"out", "refused", "checking"}]
      /\ Cardinality(Checking) \in Nat /\ Cardinality(Checking) > 0
      /\ Cardinality(Checking') = Cardinality(Checking) - 1
  BY <1>1, <1>2, Leaving
<1>4. LimiterShape'
  BY <1>1, <1>2, <1>3 DEF LimiterShape
<1>5. FailuresCounted'
  BY <1>1, <1>2 DEF FailuresCounted, FailedAfter
<1>6. Gated'
  <2>1. now - Window \in Int /\ hits \in Seq(Nat)
    BY <1>1, LimitIs DEF LimiterShape
  <2>2. CountAfter(hits, now - Window) \in Nat
    BY <2>1, CountIsNat
  <2>3. CountAfter(hits, now - Window) + Cardinality(Checking') <= Limit + Cardinality(Requests) - 1
    BY <1>1, <1>3, <2>2, LimitIs DEF Gated
  <2>4. QED
    BY <1>2, <2>3 DEF Gated
<1>7. Promised'
  BY <1>1, <1>2 DEF Promised
<1>8. QED
  BY <1>4, <1>5, <1>6, <1>7 DEF LimiterInv

LEMMA Cleaning == LimiterInv /\ Cleanup => LimiterInv'
<1> SUFFICES ASSUME LimiterInv, Cleanup PROVE LimiterInv'
  OBVIOUS
<1>1. LimiterShape /\ Gated
  BY DEF LimiterInv
<1>2. hits' = Trimmed /\ failures' = failures /\ attempt' = attempt /\ promised' = promised /\ now' = now
  BY DEF Cleanup
<1>3. /\ now' \in 0..LastTick
      /\ hits' \in Seq(Nat) /\ \A i \in 1..Len(hits') : hits'[i] <= now'
      /\ Len(hits') <= Limit + Cardinality(Requests) - 1
      /\ IsFiniteSet(failures') /\ \A f \in failures' : f.by \in Requests /\ f.at \in 0..now'
      /\ FailuresCounted'
      /\ CountAfter(hits', now' - Window) = Len(Trimmed)
      /\ Promised'
  BY <1>2, TrimmingKeeps
<1>4. LimiterShape'
  <2>1. attempt' \in [Requests -> {"out", "refused", "checking"}] /\ \E p \in [at : Int, over : Nat] : promised' \subseteq {p}
    BY <1>1, <1>2 DEF LimiterShape
  <2>2. QED
    BY <1>3, <2>1 DEF LimiterShape
<1>5. Gated'
  <2>1. Checking' = Checking /\ Len(Trimmed) = CountAfter(hits, now - Window)
    BY <1>1, <1>2, TrimmedIs DEF Checking
  <2>2. QED
    BY <1>1, <1>3, <2>1 DEF Gated
<1>6. QED
  BY <1>3, <1>4, <1>5 DEF LimiterInv

LEMMA LimiterStays == LimiterInv /\ UNCHANGED rateLimitVars => LimiterInv'
<1> SUFFICES ASSUME LimiterInv, UNCHANGED rateLimitVars PROVE LimiterInv'
  OBVIOUS
<1>1. LimiterShape /\ FailuresCounted /\ Gated /\ Promised
  BY DEF LimiterInv
<1>2. hits' = hits /\ failures' = failures /\ attempt' = attempt /\ promised' = promised /\ now' = now
  BY DEF rateLimitVars
<1>3. LimiterShape'
  BY <1>1, <1>2 DEF LimiterShape
<1>4. FailuresCounted'
  BY <1>1, <1>2 DEF FailuresCounted, FailedAfter
<1>5. Gated'
  BY <1>1, <1>2 DEF Gated, Checking
<1>6. Promised'
  BY <1>1, <1>2 DEF Promised
<1>7. QED
  BY <1>3, <1>4, <1>5, <1>6 DEF LimiterInv

LEMMA LimiterSteps == LimiterInv /\ [RateLimitNext]_rateLimitVars => LimiterInv'
<1> SUFFICES ASSUME LimiterInv, [RateLimitNext]_rateLimitVars PROVE LimiterInv'
  OBVIOUS
<1>1. CASE RateLimitNext
  BY <1>1, TimePasses, Cleaning, Asking, Telling, Failing, Succeeding, FailingOtherwise DEF RateLimitNext
<1>2. CASE UNCHANGED rateLimitVars
  BY <1>2, LimiterStays
<1>3. QED
  BY <1>1, <1>2

LEMMA LimiterImplies == LimiterInv => RateLimitHolds /\ RateLimitTypeOK
<1> SUFFICES ASSUME LimiterInv PROVE RateLimitHolds /\ RateLimitTypeOK
  OBVIOUS
<1>1. LimiterShape /\ FailuresCounted /\ Gated /\ Promised
  BY DEF LimiterInv
<1>2. /\ now \in 0..LastTick /\ hits \in Seq(Nat) /\ \A i \in 1..Len(hits) : hits[i] <= now
      /\ Len(hits) <= Limit + Cardinality(Requests) - 1
      /\ attempt \in [Requests -> {"out", "refused", "checking"}]
      /\ \A f \in failures : f.by \in Requests /\ f.at \in 0..now
  BY <1>1 DEF LimiterShape
<1>3. PICK q \in [at : Int, over : Nat] : promised \subseteq {q}
  BY <1>1 DEF LimiterShape
<1>4. now \in Nat /\ now - Window \in Int /\ Window \in Nat
  BY <1>2, LimitIs
<1>5. CountAfter(hits, now - Window) \in Nat
  BY <1>2, <1>4, CountIsNat
<1>6. Cardinality({f \in failures : InWindow(f.at)}) <= Limit + Cardinality(Requests) - 1
  <2>1. {f \in failures : InWindow(f.at)} = FailedAfter(now - Window)
    BY DEF FailedAfter, InWindow
  <2>2. now - Window >= now - Window
    BY <1>4
  <2>3. Cardinality(FailedAfter(now - Window)) <= CountAfter(hits, now - Window)
    BY <1>1, <1>4, <2>2 DEF FailuresCounted
  <2>4. Cardinality(FailedAfter(now - Window)) \in Nat
    BY <1>1, <1>4, FailedIs
  <2>5. Cardinality(Checking) \in Nat
    BY <1>1, CheckingIs
  <2>6. Cardinality(FailedAfter(now - Window)) <= Limit + Cardinality(Requests) - 1
    BY <1>1, <1>5, <2>3, <2>4, <2>5, LimitIs DEF Gated
  <2>7. QED
    BY <2>1, <2>6
<1>7. ASSUME NEW p \in promised, now >= p.at PROVE Len(Trimmed) < Limit + p.over
  <2>1. p.at \in Int /\ p.over \in Nat /\ p.at - Window \in Int /\ p.at - Window <= now - Window
    BY <1>3, <1>4, <1>7
  <2>2. CountAfter(hits, now - Window) <= CountAfter(hits, p.at - Window)
    BY <1>2, <1>4, <2>1, CountFalls
  <2>3. CountAfter(hits, p.at - Window) < Limit + p.over /\ CountAfter(hits, p.at - Window) \in Nat
    BY <1>1, <1>2, <2>1, CountIsNat DEF Promised
  <2>4. Len(Trimmed) = CountAfter(hits, now - Window)
    BY <1>1, TrimmedIs
  <2>5. PICK n \in Nat : n = Limit + p.over
    BY <2>1, LimitIs
  <2>6. QED
    BY <1>5, <2>2, <2>3, <2>4, <2>5
<1>8. RateLimitHolds
  BY <1>6, <1>7 DEF RateLimitHolds
<1>9. \A i \in DOMAIN hits : hits[i] \in 0..now
  <2>1. DOMAIN hits = 1..Len(hits) /\ \A i \in 1..Len(hits) : hits[i] \in Nat
    BY <1>2, LenProperties, ElementOfSeq
  <2>2. QED
    BY <1>2, <1>4, <2>1
<1>10. Cardinality(promised) <= 1
  <2>1. IsFiniteSet({q}) /\ Cardinality({q}) = 1
    BY FS_Singleton
  <2>2. Cardinality(promised) <= Cardinality({q})
    BY <1>3, <2>1, FS_Subset
  <2>3. QED
    BY <2>1, <2>2
<1>13. \A p \in promised : p.at \in Int /\ p.over \in Nat
  BY <1>3
<1>11. RateLimitTypeOK
  BY <1>2, <1>9, <1>10, <1>13 DEF RateLimitTypeOK
<1>12. QED
  BY <1>8, <1>11

(* However many requests sign in at once, no window holds more failures than the limit and
   the requests that were past the gate; a refused one that waits as long as it was told is
   let in where no more than the limit had failed and none fails meanwhile, and finds the log
   shorter by one at least where overlapping requests had taken it above the limit. *)
THEOREM LimiterHolds == LimiterSpec => [](RateLimitHolds /\ RateLimitTypeOK)
<1>1. LimiterSpec => []LimiterInv
  BY LimiterStarts, LimiterSteps, PTL DEF LimiterSpec
<1>2. QED
  BY <1>1, LimiterImplies, PTL
=============================================================================
