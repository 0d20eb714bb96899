--------------------------- MODULE WebEntryProofs ---------------------------
(***************************************************************************)
(* Proofs about the sections of the web client that record transactions,   *)
(* one after the other: the import card, the entry row, the edit forms and *)
(* Quick add.  Each has an inductive invariant, a lemma per action that    *)
(* keeps it, and its properties from it.  The client's other sections, and *)
(* what follows for the client as a whole, are in WebClientProofs.         *)
(***************************************************************************)
EXTENDS ImportSession, EntryForm, EditForm, QuickAddPage, TLAPS, SequenceTheorems,
        FiniteSetTheorems, FunctionTheorems, WellFoundedInduction

(***************************************************************************)
(* Sequences and sets the sections share.                                  *)
(***************************************************************************)
\* A sequence without one of its elements.
LEMMA WithoutOne ==
  ASSUME NEW S, NEW s \in Seq(S), NEW i \in DOMAIN s
  PROVE  LET r == SubSeq(s, 1, i - 1) \o SubSeq(s, i + 1, Len(s))
         IN  /\ r \in Seq(S) /\ Len(r) = Len(s) - 1
             /\ \A j \in 1..Len(r) : r[j] = IF j < i THEN s[j] ELSE s[j + 1]
<1> DEFINE a == SubSeq(s, 1, i - 1)
           b == SubSeq(s, i + 1, Len(s))
<1>1. Len(s) \in Nat /\ i \in 1..Len(s) /\ \A j \in 1..Len(s) : s[j] \in S
  BY LenProperties, ElementOfSeq
<1>2. a \in Seq(S) /\ Len(a) = i - 1 /\ \A j \in 1..(i - 1) : a[j] = s[j]
  <2>1. i - 1 \in Int /\ 1 \in Int /\ \A j \in 1..(i - 1) : s[j] \in S
    BY <1>1
  <2>2. /\ a \in Seq(S) /\ Len(a) = (IF 1 <= i - 1 THEN i - 1 - 1 + 1 ELSE 0)
        /\ \A j \in 1..(i - 1 - 1 + 1) : a[j] = s[1 + j - 1]
    BY <2>1, SubSeqProperties
  <2> HIDE DEF a
  <2>3. QED
    BY <1>1, <2>2
<1>3. b \in Seq(S) /\ Len(b) = Len(s) - i /\ \A j \in 1..(Len(s) - i) : b[j] = s[i + j]
  <2>1. i + 1 \in Int /\ Len(s) \in Int /\ \A j \in (i + 1)..Len(s) : s[j] \in S
    BY <1>1
  <2>2. /\ b \in Seq(S) /\ Len(b) = (IF i + 1 <= Len(s) THEN Len(s) - (i + 1) + 1 ELSE 0)
        /\ \A j \in 1..(Len(s) - (i + 1) + 1) : b[j] = s[i + 1 + j - 1]
    BY <2>1, SubSeqProperties
  <2> HIDE DEF b
  <2>3. QED
    BY <1>1, <2>2
<1> HIDE DEF a, b
<1>4. /\ a \o b \in Seq(S) /\ Len(a \o b) = Len(a) + Len(b)
      /\ \A j \in 1..(Len(a) + Len(b)) : (a \o b)[j] = IF j <= Len(a) THEN a[j] ELSE b[j - Len(a)]
  BY <1>2, <1>3, ConcatProperties
<1>5. Len(a \o b) = Len(s) - 1
  BY <1>1, <1>2, <1>3, <1>4
<1>6. ASSUME NEW j \in 1..Len(a \o b) PROVE (a \o b)[j] = IF j < i THEN s[j] ELSE s[j + 1]
  <2>1. (a \o b)[j] = IF j <= i - 1 THEN a[j] ELSE b[j - (i - 1)]
    BY <1>2, <1>4
  <2>2. CASE j < i
    BY <1>1, <1>2, <2>1, <2>2
  <2>3. CASE ~(j < i)
    <3>1. j - (i - 1) \in 1..(Len(s) - i) /\ i + (j - (i - 1)) = j + 1 /\ ~(j <= i - 1)
      BY <1>1, <1>5, <2>3
    <3>2. QED
      BY <1>3, <2>1, <2>3, <3>1
  <2>4. QED
    BY <2>2, <2>3
<1>7. QED
  BY <1>4, <1>5, <1>6 DEF a, b

\* What is under way when a request is sent.
LEMMA AppendedAt ==
  ASSUME NEW S, NEW s \in Seq(S), NEW x \in S
  PROVE  /\ Append(s, x) \in Seq(S) /\ Len(Append(s, x)) = Len(s) + 1
         /\ Append(s, x)[Len(s) + 1] = x /\ \A k \in 1..Len(s) : Append(s, x)[k] = s[k]
BY AppendProperties

\* The number of rows of a set that are newer than a row tells it apart.
LEMMA RanksDiffer ==
  ASSUME NEW T, IsFiniteSet(T), T \subseteq Int, NEW t \in T, NEW u \in T, t < u
  PROVE  Cardinality({v \in T : v > u}) < Cardinality({v \in T : v > t})
<1> DEFINE A == {v \in T : v > u}
           B == {v \in T : v > t}
<1>1. IsFiniteSet(B) /\ IsFiniteSet(A)
  BY FS_Subset
<1>2. A \subseteq B /\ u \in B /\ u \notin A
  <2>1. \A v \in T : v \in Int /\ t \in Int /\ u \in Int
    OBVIOUS
  <2>2. ASSUME NEW v \in A PROVE v \in B
    <3>1. v \in T /\ v > u
      OBVIOUS
    <3>2. v > t
      BY <2>1, <3>1
    <3>3. QED
      BY <3>1, <3>2
  <2>3. u \in B /\ u \notin A
    BY <2>1
  <2>4. QED
    BY <2>2, <2>3
<1>3. Cardinality(A) <= Cardinality(B) /\ Cardinality(A) # Cardinality(B)
  BY <1>1, <1>2, FS_Subset
<1>4. Cardinality(A) \in Nat /\ Cardinality(B) \in Nat
  BY <1>1, FS_CardinalityType
<1>5. QED
  BY <1>3, <1>4

\* A page of a list holds no more rows than a page has.
LEMMA PageFits ==
  ASSUME NEW T, IsFiniteSet(T), T \subseteq Int, NEW n \in Nat \ {0}, NEW p \in Int,
         NEW P, P = {t \in T : Cardinality({u \in T : u > t}) \div n = p}
  PROVE  IsFiniteSet(P) /\ Cardinality(P) <= n
<1> DEFINE rank(t) == Cardinality({u \in T : u > t})
           f == [t \in P |-> rank(t)]
           R == (p * n)..(p * n + n - 1)
<1>1. \A t \in T : rank(t) \in Nat
  BY FS_Subset, FS_CardinalityType
<1>2. p * n \in Int
  OBVIOUS
<1>3. \A t \in P : rank(t) \in R
  <2>1. TAKE t \in P
  <2>2. rank(t) \in Nat /\ rank(t) \div n = p
    BY <1>1
  <2>3. \A r \in Nat : r \div n = p => p * n <= r /\ r <= p * n + n - 1
    OBVIOUS
  <2>4. QED
    BY <1>2, <2>2, <2>3
<1>4. \A t, u \in P : t # u => f[t] # f[u]
  <2>1. TAKE t, u \in P
  <2>2. CASE t < u
    <3>1. rank(u) < rank(t)
      BY <2>2, RanksDiffer
    <3>2. QED
      BY <1>1, <3>1
  <2>3. CASE u < t
    <3>1. rank(t) < rank(u)
      BY <2>3, RanksDiffer
    <3>2. QED
      BY <1>1, <3>1
  <2>4. QED
    BY <2>2, <2>3
<1>5. f \in Injection(P, R)
  BY <1>3, <1>4, Fun_IsInj
<1>6. IsFiniteSet(R) /\ Cardinality(R) = n
  BY <1>2, FS_Interval
<1>7. QED
  BY <1>5, <1>6, FS_Injection

\* A non-empty set of naturals has a least element.
LEMMA LeastNatural ==
  ASSUME NEW T \in SUBSET Nat, T # {}
  PROVE  \E x \in T : \A y \in T : x <= y
<1> DEFINE R == OpToRel(<, Nat)
<1>1. \A x, y \in Nat : y < x => <<y, x>> \in R
  BY DEF OpToRel
<1>2. IsWellFoundedOn(R, Nat)
  BY NatLessThanWellFounded
<1> HIDE DEF R
<1>3. PICK x \in T : \A y \in T : ~(<<y, x>> \in R)
  BY <1>2, WFMin
<1>4. ASSUME NEW y \in T PROVE x <= y
  <2>1. x \in Nat /\ y \in Nat
    OBVIOUS
  <2>2. ~(y < x)
    BY <1>1, <1>3, <2>1, Zenon
  <2>3. QED
    BY <2>1, <2>2
<1>5. QED
  BY <1>4

\* A non-empty bounded set of naturals has a greatest one.
LEMMA GreatestNatural ==
  ASSUME NEW b \in Nat, NEW T \in SUBSET (0..b), T # {}
  PROVE  \E x \in T : \A y \in T : y <= x
<1> DEFINE U == {b - y : y \in T}
<1>1. U \in SUBSET Nat /\ U # {}
  <2>1. ASSUME NEW y \in T PROVE b - y \in Nat
    <3>1. y \in Nat /\ y <= b
      OBVIOUS
    <3>2. QED
      BY <3>1
  <2>2. QED
    BY <2>1
<1>2. PICK u \in U : \A v \in U : u <= v
  BY <1>1, LeastNatural
<1>3. PICK x \in T : u = b - x
  OBVIOUS
<1>4. ASSUME NEW y \in T PROVE y <= x
  <2>1. b - x <= b - y
    BY <1>2, <1>3
  <2>2. QED
    BY <2>1
<1>5. QED
  BY <1>4

\* A finite set of naturals has a greatest element.
LEMMA GreatestOfFinite ==
  ASSUME NEW T \in SUBSET Nat, T # {}, IsFiniteSet(T)
  PROVE  \E x \in T : \A y \in T : x >= y
<1> DEFINE above(t) == Cardinality({v \in T : v > t})
           U == {above(t) : t \in T}
<1>1. \A t \in T : above(t) \in Nat
  BY FS_Subset, FS_CardinalityType
<1>2. U \in SUBSET Nat /\ U # {}
  BY <1>1
<1>3. PICK u \in U : \A v \in U : u <= v
  BY <1>2, LeastNatural
<1>4. PICK x \in T : u = above(x)
  OBVIOUS
<1>5. ASSUME NEW y \in T PROVE x >= y
  <2>1. x \in Nat /\ y \in Nat /\ T \subseteq Int
    OBVIOUS
  <2>2. above(x) <= above(y)
    BY <1>3, <1>4
  <2>3. x < y => above(y) < above(x)
    BY <2>1, RanksDiffer
  <2>4. above(x) \in Nat /\ above(y) \in Nat
    BY <1>1
  <2> HIDE DEF above
  <2>5. QED
    BY <2>1, <2>2, <2>3, <2>4
<1>6. QED
  BY <1>5

(***************************************************************************)
(* The import card (ImportSession): the table on screen is the server's     *)
(* session under the changes still queued or under way, so what the last    *)
(* confirm carries is what is shown; and a request under way is the one of  *)
(* the step the card is in.                                                 *)
(***************************************************************************)
ImportTables == [ImportRows -> RowState]
ImportGroups == (SUBSET ImportRows) \ {{}}
ImportPreviews == [id : Nat, rows : ImportTables, groups : SUBSET ImportGroups, errors : SUBSET ImportRows,
                   unfiled : SUBSET ImportRows]
ImportSessions == [live : BOOLEAN, rows : ImportTables]
ImportJobs == [kind : {"patch", "refresh"}, field : {"value", "skip", "bulk"}, id : Nat \ {0}, row : ImportRows,
               to : RowState, served : BOOLEAN, ok : BOOLEAN, fresh : ImportPreviews]
ImportBursts == {job \in ImportJobs : job.kind = "patch" /\ job.field = "bulk" /\ ~job.served}
ImportRequests == [phase : {"none", "sent", "answered"}, id : Nat, ok : BOOLEAN, fresh : ImportPreviews]
ImportConfirms ==
  {c \in [phase : {"sent", "gated", "answered"}, id : Nat \ {0}, decided : BOOLEAN, shown : ImportTables,
          copied : ImportTables, answer : {"none", "done", "gone", "money", "categories", "collisions"},
          refused : (SUBSET ImportRows) \cup (SUBSET ImportGroups), left : SUBSET ImportRows, mine : BOOLEAN,
          heard : BOOLEAN, edited : BOOLEAN, overtaken : BOOLEAN] :
     /\ c.answer \in {"money", "categories"} => c.refused \subseteq ImportRows
     /\ c.answer = "collisions" => c.refused \subseteq ImportGroups}

ImportShapes ==
  /\ sessions \in Seq(ImportSessions) /\ Len(sessions) <= MaxUploads
  /\ recorded \in [ImportValues -> {0, 1}] /\ rateKnown \in BOOLEAN
  /\ preview \in ImportPreviews /\ importStep \in {"upload", "preview", "done"} /\ pendingPatchCount \in Nat
  /\ patchQueue \in Seq(ImportJobs) /\ burst \in Seq(ImportBursts)
  /\ decided \in BOOLEAN /\ storedImport \in Nat
  /\ resume \in ImportRequests /\ upload \in ImportRequests /\ cancelling \in ImportRequests
  /\ confirms \in Seq(ImportConfirms)

\* The sessions the card can have heard of.
Heard == IF upload.phase = "answered" THEN Len(sessions) - 1 ELSE Len(sessions)
ImportIds ==
  /\ preview.id <= Heard /\ storedImport <= Heard /\ resume.id <= Heard
  /\ \A i \in DOMAIN patchQueue : patchQueue[i].id <= Heard
  /\ \A i \in DOMAIN burst : burst[i].id <= Heard
  /\ \A i \in DOMAIN confirms : confirms[i].id <= Heard
  /\ importStep = "preview" => preview.id # 0
UploadIsFresh ==
  /\ upload.phase = "sent" => Len(sessions) < MaxUploads
  /\ upload.phase = "answered" =>
       /\ upload.id = Len(sessions) /\ upload.id # 0 /\ upload.fresh.id = upload.id
       /\ upload.fresh.rows = FreshRows /\ sessions[upload.id].rows = FreshRows
\* A card that is resuming has nothing else on hand.
ResumeIsAlone ==
  /\ resume.phase # "answered" => ~resume.ok
  /\ resume.phase = "answered" /\ resume.ok => resume.fresh.id = resume.id /\ resume.id # 0
  /\ resume.phase # "none" /\ "raced" \notin importNotes =>
       /\ preview.id = 0 /\ importStep = "upload" /\ patchQueue = <<>>
       /\ cancelling.phase = "none" /\ \A i \in DOMAIN confirms : ~confirms[i].mine
       /\ "ended" \notin importNotes => storedImport = resume.id
       /\ resume.phase = "answered" /\ resume.ok /\ "late" \notin importNotes =>
            resume.fresh.rows = sessions[resume.id].rows
\* Only the job at the head of the lane has been at the server.
LaneIsSerial ==
  /\ \A i \in DOMAIN patchQueue :
       /\ patchQueue[i].served => i = 1
       /\ patchQueue[i].kind = "refresh" => patchQueue[i].field = "value"
       /\ patchQueue[i].served /\ patchQueue[i].ok =>
            /\ patchQueue[i].fresh.id = patchQueue[i].id
            /\ "late" \notin importNotes => patchQueue[i].fresh.rows = sessions[patchQueue[i].id].rows
  /\ burst # <<>> => \E i \in DOMAIN patchQueue : patchQueue[i].field = "bulk"
PatchesAreCounted ==
  /\ pendingPatchCount <= Cardinality(PatchesIn(patchQueue))
  /\ "zeroed" \notin importNotes => pendingPatchCount = Cardinality(PatchesIn(patchQueue))
\* The edits in the lane are edits of what is shown.
LaneIsOfPreview ==
  "raced" \notin importNotes =>
    /\ importStep = "preview" \/ "zeroed" \notin importNotes =>
         /\ \A i \in DOMAIN patchQueue : patchQueue[i].kind = "patch" => patchQueue[i].id = preview.id
         /\ \A i \in DOMAIN burst : burst[i].id = preview.id
    /\ "zeroed" \notin importNotes /\ importStep = "upload" => preview.id = 0
Undisturbed == importNotes \cap {"lostAnswer", "late", "zeroed", "raced"} = {}
\* Rows whose new state the card has still to take from an answer.
Awaited(r) ==
  \E i \in DOMAIN patchQueue :
    patchQueue[i].kind = "patch" /\ patchQueue[i].served /\ patchQueue[i].ok /\ patchQueue[i].row = r
TableTracks ==
  Undisturbed /\ preview.id # 0 =>
    \A r \in ImportRows : Awaited(r) \/ preview.rows[r] = sessions[preview.id].rows[r]
ConfirmsShow ==
  \A i \in DOMAIN confirms :
    /\ confirms[i].phase = "sent" => confirms[i].copied = confirms[i].shown
    /\ Undisturbed /\ ~confirms[i].edited =>
         /\ confirms[i].copied = confirms[i].shown /\ PatchesIn(patchQueue) = {}
         /\ confirms[i].phase = "sent" => sessions[confirms[i].id].rows = confirms[i].shown
\* What the gate found of the rows it copied: each can be stored, and none has been.
AllInsertable(rows) ==
  \A r \in ImportRows : ~rows[r].skip =>
    /\ r \in ForeignRows => rateKnown
    /\ recorded[rows[r].value] = 0
    /\ \A q \in ImportRows : q # r /\ ~rows[q].skip => rows[q].value # rows[r].value
ConfirmsRecord ==
  \A i \in DOMAIN confirms :
    /\ confirms[i].phase = "gated" /\ ~confirms[i].overtaken => AllInsertable(confirms[i].copied)
    /\ confirms[i].phase \in {"sent", "gated"} => confirms[i].answer = "none"
    /\ confirms[i].answer = "done" => confirms[i].left = {} \/ confirms[i].overtaken
ImportInv ==
  /\ ImportShapes /\ ImportIds /\ UploadIsFresh /\ ResumeIsAlone /\ LaneIsSerial /\ PatchesAreCounted
  /\ LaneIsOfPreview /\ PreviewIsResumable /\ TableTracks /\ ConfirmsShow /\ ConfirmsRecord

\* What earlier mounts left behind is of sessions the card has heard of.
LeftLane(lane, n) ==
  /\ lane = [mount |-> lane.mount, jobs |-> lane.jobs] /\ lane.jobs \in Seq(ImportJobs) /\ lane.jobs # <<>>
  /\ \A i \in DOMAIN lane.jobs : lane.jobs[i].id <= n
LeftInv ==
  /\ \A lane \in leftLanes : LeftLane(lane, Heard)
  /\ \A e \in leftEnds : e.to \in 0..Heard

\* Rows with the same content stand together, none of them skipped.
LEMMA GroupsOfRows ==
  ASSUME NEW rows \in ImportTables, NEW filed \in BOOLEAN
  PROVE  CollisionGroups(rows, filed) \subseteq ImportGroups
<1> DEFINE hashed == {r \in ImportRows : Storable(rows, r) /\ (r \in UnfiledRows => filed)}
           of(v)  == {r \in hashed : rows[r].value = v}
<1>1. CollisionGroups(rows, filed)
        = {of(v) : v \in {w \in ImportValues : Cardinality(of(w)) > 1 \/ (of(w) # {} /\ recorded[w] > 0)}}
  BY DEF CollisionGroups
<1>2. \A v : of(v) \subseteq ImportRows
  OBVIOUS
<1>3. \A v : Cardinality(of(v)) > 1 => of(v) # {}
  <2> SUFFICES ASSUME NEW v, of(v) = {} PROVE ~(Cardinality(of(v)) > 1)
    OBVIOUS
  <2>1. Cardinality(of(v)) = 0
    BY FS_EmptySet
  <2>2. QED
    BY <2>1
<1>4. QED
  BY <1>1, <1>2, <1>3 DEF ImportGroups

LEMMA ImportConstants ==
  /\ ImportRows \subseteq Nat /\ 1 \in ImportRows /\ IsFiniteSet(ImportRows)
  /\ FreshRows \in ImportTables /\ NoPreview \in ImportPreviews /\ NoPreview.id = 0
  /\ Idle \in ImportRequests /\ Idle.phase = "none" /\ Idle.id = 0 /\ Idle.ok = FALSE /\ MaxUploads \in Nat
<1>1. ImportRowCount \in Nat \ {0} /\ ImportFile \in [ImportRows -> ImportValues] /\ MaxUploads \in Nat
  BY ImportAssumption
<1>2. ImportRows \subseteq Nat /\ 1 \in ImportRows
  BY <1>1 DEF ImportRows
<1>3. IsFiniteSet(ImportRows)
  BY <1>1, FS_Interval DEF ImportRows
<1>4. FreshRows \in ImportTables
  BY <1>1 DEF FreshRows, ImportTables, RowState
<1>5. NoPreview \in ImportPreviews /\ NoPreview.id = 0
  <2> HIDE DEF ImportTables
  <2>1. QED
    BY <1>4 DEF NoPreview, ImportPreviews
<1>6. Idle \in ImportRequests /\ Idle.phase = "none" /\ Idle.id = 0 /\ Idle.ok = FALSE
  <2> HIDE DEF ImportPreviews
  <2>1. QED
    BY <1>5 DEF Idle, ImportRequests
<1>7. QED
  BY <1>1, <1>2, <1>3, <1>4, <1>5, <1>6

LEMMA PreviewIsBuilt ==
  ASSUME NEW id \in Nat, NEW rows \in ImportTables
  PROVE  BuildPreview(id, rows) \in ImportPreviews /\ BuildPreview(id, rows).id = id
         /\ BuildPreview(id, rows).rows = rows
<1>1. MoneyErrors(rows) \subseteq ImportRows
  BY DEF MoneyErrors
<1>2. UnresolvedCategories(rows, FALSE) \subseteq ImportRows
  BY ImportAssumption DEF UnresolvedCategories
<1>3. CollisionGroups(rows, FALSE) \subseteq ImportGroups
  BY GroupsOfRows
<1>4. QED
  BY <1>1, <1>2, <1>3 DEF BuildPreview, ImportPreviews

\* The patches of a lane, when a job is added, served or settled.
LEMMA PatchesAreFew ==
  ASSUME NEW q \in Seq(ImportJobs)
  PROVE  /\ IsFiniteSet(PatchesIn(q)) /\ Cardinality(PatchesIn(q)) \in Nat
         /\ Cardinality(PatchesIn(q)) <= Len(q) /\ (Cardinality(PatchesIn(q)) = 0 <=> PatchesIn(q) = {})
<1>1. Len(q) \in Nat /\ DOMAIN q = 1..Len(q)
  BY LenProperties
<1>2. IsFiniteSet(1..Len(q)) /\ Cardinality(1..Len(q)) = Len(q)
  BY <1>1, FS_Interval
<1>3. PatchesIn(q) \in SUBSET (1..Len(q))
  BY <1>1 DEF PatchesIn
<1>4. IsFiniteSet(PatchesIn(q)) /\ Cardinality(PatchesIn(q)) <= Cardinality(1..Len(q))
  BY <1>2, <1>3, FS_Subset
<1>5. QED
  BY <1>2, <1>4, FS_CardinalityType, FS_EmptySet

LEMMA PatchAppended ==
  ASSUME NEW q \in Seq(ImportJobs), NEW job \in ImportJobs
  PROVE  /\ job.kind = "patch" => /\ Cardinality(PatchesIn(Append(q, job))) = Cardinality(PatchesIn(q)) + 1
                                  /\ PatchesIn(Append(q, job)) # {}
         /\ job.kind # "patch" => PatchesIn(Append(q, job)) = PatchesIn(q)
<1>1. /\ Append(q, job) \in Seq(ImportJobs) /\ Len(Append(q, job)) = Len(q) + 1
      /\ Append(q, job)[Len(q) + 1] = job /\ \A k \in 1..Len(q) : Append(q, job)[k] = q[k]
  BY AppendedAt
<1>2. Len(q) \in Nat /\ DOMAIN q = 1..Len(q) /\ DOMAIN Append(q, job) = 1..(Len(q) + 1)
  BY <1>1, LenProperties
<1>3. PatchesIn(q) \subseteq 1..Len(q)
  BY <1>2 DEF PatchesIn
<1>4. CASE job.kind = "patch"
  <2>1. PatchesIn(Append(q, job)) = PatchesIn(q) \cup {Len(q) + 1}
    BY <1>1, <1>2, <1>4 DEF PatchesIn
  <2>2. Len(q) + 1 \notin PatchesIn(q)
    BY <1>2, <1>3
  <2>3. Cardinality(PatchesIn(q) \cup {Len(q) + 1}) = Cardinality(PatchesIn(q)) + 1
    BY <2>2, PatchesAreFew, FS_AddElement
  <2>4. QED
    BY <1>4, <2>1, <2>3
<1>5. CASE job.kind # "patch"
  <2>1. PatchesIn(Append(q, job)) = PatchesIn(q)
    BY <1>1, <1>2, <1>5 DEF PatchesIn
  <2>2. QED
    BY <1>5, <2>1
<1>6. QED
  BY <1>4, <1>5

\* The lane without the job at its head.
LEMMA HeadSettled ==
  ASSUME NEW q \in Seq(ImportJobs), 1 \in DOMAIN q
  PROVE  /\ Pop(1, q) \in Seq(ImportJobs) /\ Len(Pop(1, q)) = Len(q) - 1
         /\ \A j \in DOMAIN Pop(1, q) : j + 1 \in DOMAIN q /\ Pop(1, q)[j] = q[j + 1]
         /\ \A j \in DOMAIN q : j # 1 => j - 1 \in DOMAIN Pop(1, q) /\ Pop(1, q)[j - 1] = q[j]
         /\ Cardinality(PatchesIn(Pop(1, q)))
              = IF q[1].kind = "patch" THEN Cardinality(PatchesIn(q)) - 1 ELSE Cardinality(PatchesIn(q))
<1> DEFINE r == Pop(1, q)
<1>1. /\ r \in Seq(ImportJobs) /\ Len(r) = Len(q) - 1
      /\ \A j \in 1..Len(r) : r[j] = IF j < 1 THEN q[j] ELSE q[j + 1]
  BY WithoutOne DEF Pop
<1> HIDE DEF r
<1>2. Len(q) \in Nat \ {0} /\ DOMAIN q = 1..Len(q) /\ DOMAIN r = 1..(Len(q) - 1)
  BY <1>1, LenProperties
<1>3. \A j \in DOMAIN r : j + 1 \in DOMAIN q /\ r[j] = q[j + 1]
  BY <1>1, <1>2
<1>4. \A j \in DOMAIN q : j # 1 => j - 1 \in DOMAIN r /\ r[j - 1] = q[j]
  <2> SUFFICES ASSUME NEW j \in DOMAIN q, j # 1 PROVE j - 1 \in DOMAIN r /\ r[j - 1] = q[j]
    OBVIOUS
  <2>1. j - 1 \in DOMAIN r /\ (j - 1) + 1 = j
    BY <1>2
  <2>2. QED
    BY <1>3, <2>1
<1> DEFINE S == PatchesIn(q) \ {1}
           T == PatchesIn(r)
           f == [i \in S |-> i - 1]
<1>5. IsFiniteSet(S) /\ Cardinality(S) = IF 1 \in PatchesIn(q) THEN Cardinality(PatchesIn(q)) - 1
                                         ELSE Cardinality(PatchesIn(q))
  BY PatchesAreFew, FS_RemoveElement
<1>6. ExistsBijection(S, T)
  <2>1. \A i \in S : i \in DOMAIN q /\ i # 1 /\ q[i].kind = "patch" /\ i \in Int
    BY <1>2 DEF PatchesIn
  <2>2. \A i \in S : i - 1 \in T
    BY <1>4, <2>1 DEF PatchesIn
  <2>3. \A j \in T : j + 1 \in S /\ j \in Int
    <3> SUFFICES ASSUME NEW j \in T PROVE j + 1 \in S /\ j \in Int
      OBVIOUS
    <3>1. j \in DOMAIN r /\ r[j].kind = "patch"
      BY DEF PatchesIn
    <3>2. j + 1 \in DOMAIN q /\ q[j + 1].kind = "patch" /\ j \in Int /\ j >= 1
      BY <1>2, <1>3, <3>1
    <3>3. QED
      BY <3>2 DEF PatchesIn
  <2> HIDE DEF S, T
  <2>4. f \in [S -> T]
    BY <2>2
  <2>5. \A i, k \in S : f[i] = f[k] => i = k
    BY <2>1
  <2>6. \A j \in T : \E i \in S : f[i] = j
    <3>1. \A j \in T : j + 1 \in S /\ f[j + 1] = j
      BY <2>3
    <3>2. QED
      BY <3>1
  <2> HIDE DEF f
  <2>7. f \in Bijection(S, T)
    BY <2>4, <2>5, <2>6 DEF Bijection, Injection, Surjection, IsInjective
  <2>8. QED
    BY <2>7 DEF ExistsBijection
<1>7. Cardinality(T) = Cardinality(S)
  BY <1>5, <1>6, FS_Bijection
<1>8. 1 \in PatchesIn(q) <=> q[1].kind = "patch"
  BY DEF PatchesIn
<1>9. QED
  BY <1>1, <1>3, <1>4, <1>5, <1>7, <1>8 DEF r

\* A job that has been at the server.
JobAnswered(q, i, ok, fresh) == [q EXCEPT ![i].served = TRUE, ![i].ok = ok, ![i].fresh = fresh]

LEMMA JobServed ==
  ASSUME NEW q \in Seq(ImportJobs), NEW i \in DOMAIN q, NEW ok \in BOOLEAN, NEW fresh \in ImportPreviews
  PROVE  \A p : p = JobAnswered(q, i, ok, fresh) =>
         /\ p \in Seq(ImportJobs) /\ Len(p) = Len(q) /\ DOMAIN p = DOMAIN q /\ PatchesIn(p) = PatchesIn(q)
         /\ \A j \in DOMAIN q : j # i => p[j] = q[j]
         /\ p[i].kind = q[i].kind /\ p[i].field = q[i].field /\ p[i].id = q[i].id /\ p[i].row = q[i].row
         /\ p[i].served /\ (p[i].ok <=> ok) /\ p[i].fresh = fresh
<1>1. q[i] \in ImportJobs /\ Len(q) \in Nat /\ DOMAIN q = 1..Len(q)
  BY LenProperties, ElementOfSeq
<1> DEFINE h == [q[i] EXCEPT !.served = TRUE, !.ok = ok, !.fresh = fresh]
<1>2. /\ h \in ImportJobs /\ h.kind = q[i].kind /\ h.field = q[i].field /\ h.id = q[i].id /\ h.row = q[i].row
      /\ h.served /\ (h.ok <=> ok) /\ h.fresh = fresh
  <2>1. QED
    BY <1>1 DEF ImportJobs
<1> SUFFICES ASSUME NEW p, p = [q EXCEPT ![i] = h]
             PROVE /\ p \in Seq(ImportJobs) /\ Len(p) = Len(q) /\ DOMAIN p = DOMAIN q /\ PatchesIn(p) = PatchesIn(q)
                   /\ \A j \in DOMAIN q : j # i => p[j] = q[j]
                   /\ p[i].kind = q[i].kind /\ p[i].field = q[i].field /\ p[i].id = q[i].id /\ p[i].row = q[i].row
                   /\ p[i].served /\ (p[i].ok <=> ok) /\ p[i].fresh = fresh
  <2>1. JobAnswered(q, i, ok, fresh) = [q EXCEPT ![i] = h]
    BY <1>1 DEF JobAnswered
  <2>2. QED
    BY <2>1
<1> HIDE DEF h
<1>3. p \in Seq(ImportJobs) /\ Len(p) = Len(q) /\ \A j \in 1..Len(q) : p[j] = IF j = i THEN h ELSE q[j]
  BY <1>1, <1>2, ExceptSeq
<1>4. DOMAIN p = DOMAIN q
  BY <1>1, <1>3, LenProperties
<1>5. PatchesIn(p) = PatchesIn(q)
  BY <1>1, <1>2, <1>3, <1>4 DEF PatchesIn
<1>6. QED
  BY <1>1, <1>2, <1>3, <1>4, <1>5

\* A session that is given up keeps its rows.
LEMMA SessionDropped ==
  ASSUME NEW id, sessions \in Seq(ImportSessions)
  PROVE  /\ Drop(id) \in Seq(ImportSessions) /\ Len(Drop(id)) = Len(sessions)
         /\ \A k \in 1..Len(sessions) : Drop(id)[k].rows = sessions[k].rows
<1>1. CASE ~Live(id)
  BY <1>1 DEF Drop
<1>2. CASE Live(id)
  <2>1. id \in DOMAIN sessions /\ Len(sessions) \in Nat /\ DOMAIN sessions = 1..Len(sessions)
    BY <1>2, LenProperties DEF Live
  <2>2. sessions[id] \in ImportSessions
    BY <2>1, ElementOfSeq
  <2> DEFINE h == [sessions[id] EXCEPT !.live = FALSE]
  <2>3. h \in ImportSessions /\ h.rows = sessions[id].rows
    BY <2>2 DEF ImportSessions
  <2>4. Drop(id) = [sessions EXCEPT ![id] = h]
    BY <1>2, <2>1 DEF Drop
  <2> HIDE DEF h
  <2>5. /\ Drop(id) \in Seq(ImportSessions) /\ Len(Drop(id)) = Len(sessions)
        /\ \A k \in 1..Len(sessions) : Drop(id)[k] = IF k = id THEN h ELSE sessions[k]
    BY <2>1, <2>3, <2>4, ExceptSeq
  <2>6. QED
    BY <2>3, <2>5
<1>3. QED
  BY <1>1, <1>2

LEMMA HeardIs ==
  ASSUME ImportInv
  PROVE  /\ Len(sessions) \in Nat /\ DOMAIN sessions = 1..Len(sessions) /\ Heard \in 0..Len(sessions)
         /\ \A k \in DOMAIN sessions : sessions[k] \in ImportSessions /\ sessions[k].rows \in ImportTables
         /\ \A i \in DOMAIN patchQueue : patchQueue[i] \in ImportJobs /\ patchQueue[i].id \in 1..Heard
         /\ \A i \in DOMAIN burst : burst[i] \in ImportBursts /\ burst[i].id \in 1..Heard
         /\ \A i \in DOMAIN confirms : confirms[i] \in ImportConfirms /\ confirms[i].id \in 1..Heard
         /\ preview.id \in 0..Heard /\ storedImport \in 0..Heard /\ resume.id \in 0..Heard
         /\ DOMAIN patchQueue = 1..Len(patchQueue) /\ DOMAIN burst = 1..Len(burst)
         /\ DOMAIN confirms = 1..Len(confirms)
<1>1. Len(sessions) \in Nat /\ DOMAIN sessions = 1..Len(sessions) /\ \A k \in DOMAIN sessions : sessions[k] \in ImportSessions
  BY LenProperties, ElementOfSeq DEF ImportInv, ImportShapes
<1>2. \A k \in DOMAIN sessions : sessions[k].rows \in ImportTables
  BY <1>1 DEF ImportSessions
<1>3. upload.phase = "answered" => upload.id = Len(sessions) /\ upload.id # 0
  BY DEF ImportInv, UploadIsFresh
<1>4. Heard \in 0..Len(sessions)
  BY <1>1, <1>3 DEF Heard
<1>5. DOMAIN patchQueue = 1..Len(patchQueue) /\ \A i \in DOMAIN patchQueue : patchQueue[i] \in ImportJobs
  BY LenProperties, ElementOfSeq DEF ImportInv, ImportShapes
<1>6. DOMAIN burst = 1..Len(burst) /\ \A i \in DOMAIN burst : burst[i] \in ImportBursts
  BY LenProperties, ElementOfSeq DEF ImportInv, ImportShapes
<1>7. DOMAIN confirms = 1..Len(confirms) /\ \A i \in DOMAIN confirms : confirms[i] \in ImportConfirms
  BY LenProperties, ElementOfSeq DEF ImportInv, ImportShapes
<1>8. \A i \in DOMAIN patchQueue : patchQueue[i].id \in Nat \ {0}
  BY <1>5 DEF ImportJobs
<1>9. \A i \in DOMAIN burst : burst[i].id \in Nat \ {0}
  BY <1>6 DEF ImportBursts, ImportJobs
<1>10. \A i \in DOMAIN confirms : confirms[i].id \in Nat \ {0}
  BY <1>7 DEF ImportConfirms
<1>11. preview.id \in Nat /\ storedImport \in Nat /\ resume.id \in Nat
  BY DEF ImportInv, ImportShapes, ImportPreviews, ImportRequests
<1>12. /\ preview.id <= Heard /\ storedImport <= Heard /\ resume.id <= Heard
       /\ \A i \in DOMAIN patchQueue : patchQueue[i].id <= Heard
       /\ \A i \in DOMAIN burst : burst[i].id <= Heard
       /\ \A i \in DOMAIN confirms : confirms[i].id <= Heard
  BY DEF ImportInv, ImportIds
<1> HIDE DEF Heard
<1>13. QED
  BY <1>1, <1>2, <1>4, <1>5, <1>6, <1>7, <1>8, <1>9, <1>10, <1>11, <1>12

LEMMA ImportTyped == ImportInv => ImportTypeOK
<1> SUFFICES ASSUME ImportInv PROVE ImportTypeOK
  OBVIOUS
<1>1. \A id \in DOMAIN sessions : sessions[id].rows \in [ImportRows -> RowState]
  BY HeardIs DEF ImportTables
<1>2. Len(sessions) <= MaxUploads /\ importStep \in {"upload", "preview", "done"}
      /\ (importStep = "preview" => preview.id # 0)
  BY DEF ImportInv, ImportShapes, ImportIds
<1>3. preview.id \in 0..MaxUploads /\ storedImport \in 0..MaxUploads
  BY <1>2, HeardIs, ImportConstants
<1>4. preview \in Preview
  <2>1. preview \in ImportPreviews
    BY DEF ImportInv, ImportShapes
  <2>2. \A g : g \in ImportGroups => g \in SUBSET ImportRows
    BY DEF ImportGroups
  <2> HIDE DEF ImportGroups
  <2>3. preview.groups \subseteq SUBSET ImportRows
    BY <2>1, <2>2 DEF ImportPreviews
  <2>4. QED
    BY <1>3, <2>1, <2>3 DEF Preview, ImportPreviews, ImportTables
<1>5. pendingPatchCount \in 0..Len(patchQueue)
  <2>1. /\ pendingPatchCount \in Nat /\ patchQueue \in Seq(ImportJobs)
        /\ pendingPatchCount <= Cardinality(PatchesIn(patchQueue))
    BY DEF ImportInv, ImportShapes, PatchesAreCounted
  <2>2. Len(patchQueue) \in Nat
    BY <2>1, LenProperties
  <2>3. QED
    BY <2>1, <2>2, PatchesAreFew
<1>6. QED
  BY <1>1, <1>2, <1>3, <1>4, <1>5 DEF ImportTypeOK

LEMMA ImportPromises ==
  ASSUME ImportInv
  PROVE  NoDoubleImport /\ ConfirmRecordsAll /\ ImportsWhatWasShown /\ PreviewTracksServer /\ PreviewIsResumable
<1>1. NoDoubleImport
  BY DEF ImportInv, ImportShapes, NoDoubleImport
<1>2. ConfirmRecordsAll
  BY DEF ImportInv, ConfirmsRecord, ConfirmRecordsAll
<1>3. ImportsWhatWasShown
  BY DEF ImportInv, ConfirmsShow, Undisturbed, ImportsWhatWasShown
<1>4. PreviewTracksServer
  <2> SUFFICES ASSUME preview.id # 0, Live(preview.id),
                      ~\E i \in DOMAIN patchQueue : patchQueue[i].kind = "patch" /\ patchQueue[i].served,
                      Undisturbed
               PROVE  preview.rows = sessions[preview.id].rows
    BY DEF PreviewTracksServer, Undisturbed
  <2>1. \A r \in ImportRows : preview.rows[r] = sessions[preview.id].rows[r]
    BY DEF ImportInv, TableTracks, Awaited
  <2>2. preview.rows \in ImportTables
    BY DEF ImportInv, ImportShapes, ImportPreviews
  <2>3. sessions[preview.id].rows \in ImportTables
    BY HeardIs
  <2>4. QED
    BY <2>1, <2>2, <2>3 DEF ImportTables
<1>5. QED
  BY <1>1, <1>2, <1>3, <1>4 DEF ImportInv

LEMMA ImportStarts == ImportInit => ImportInv
<1> SUFFICES ASSUME ImportInit PROVE ImportInv
  OBVIOUS
<1>1. /\ sessions = <<>> /\ patchQueue = <<>> /\ burst = <<>> /\ confirms = <<>>
      /\ recorded = [v \in ImportValues |-> 0] /\ rateKnown = FALSE /\ preview = NoPreview /\ importStep = "upload"
      /\ pendingPatchCount = 0 /\ decided = FALSE /\ storedImport = 0
      /\ resume = Idle /\ upload = Idle /\ cancelling = Idle
  BY DEF ImportInit
<1>2. Len(sessions) = 0 /\ DOMAIN patchQueue = {} /\ DOMAIN burst = {} /\ DOMAIN confirms = {}
  BY <1>1
<1>3. ImportShapes
  <2>1. recorded \in [ImportValues -> {0, 1}]
    BY <1>1
  <2>2. sessions \in Seq(ImportSessions) /\ patchQueue \in Seq(ImportJobs) /\ burst \in Seq(ImportBursts)
        /\ confirms \in Seq(ImportConfirms)
    BY <1>1
  <2>3. Len(sessions) <= MaxUploads /\ pendingPatchCount \in Nat /\ storedImport \in Nat
    BY <1>1, <1>2, ImportConstants
  <2>4. rateKnown \in BOOLEAN /\ decided \in BOOLEAN /\ importStep \in {"upload", "preview", "done"}
    BY <1>1
  <2>5. preview \in ImportPreviews /\ resume \in ImportRequests /\ upload \in ImportRequests
        /\ cancelling \in ImportRequests
    BY <1>1, ImportConstants
  <2>6. QED
    BY <2>1, <2>2, <2>3, <2>4, <2>5 DEF ImportShapes
<1>4. ImportIds
  BY <1>1, <1>2, ImportConstants DEF ImportIds, Heard
<1>5. UploadIsFresh /\ ResumeIsAlone
  BY <1>1, <1>2, ImportConstants DEF UploadIsFresh, ResumeIsAlone
<1>6. LaneIsSerial /\ LaneIsOfPreview
  BY <1>1, <1>2, ImportConstants DEF LaneIsSerial, LaneIsOfPreview
<1>7. PatchesAreCounted
  <2>1. PatchesIn(patchQueue) = {}
    BY <1>2 DEF PatchesIn
  <2>2. QED
    BY <1>1, <2>1, FS_EmptySet DEF PatchesAreCounted
<1>8. PreviewIsResumable /\ TableTracks /\ ConfirmsShow /\ ConfirmsRecord
  BY <1>1, <1>2, ImportConstants DEF PreviewIsResumable, TableTracks, ConfirmsShow, ConfirmsRecord
<1>9. QED
  BY <1>3, <1>4, <1>5, <1>6, <1>7, <1>8 DEF ImportInv

\* What moves neither the card's form of the session nor the session's rows.
LEMMA ConfirmsMoveKeep ==
  ASSUME ImportInv, UNCHANGED <<tableVars, storageVars, decided, resume, upload, importNotes>>,
         sessions' \in Seq(ImportSessions), Len(sessions') = Len(sessions),
         \A k \in 1..Len(sessions) : sessions'[k].rows = sessions[k].rows,
         recorded' \in [ImportValues -> {0, 1}], rateKnown' \in BOOLEAN, cancelling' \in ImportRequests,
         resume.phase = "none" \/ "raced" \in importNotes \/ cancelling'.phase = "none",
         confirms' \in Seq(ImportConfirms), \A i \in DOMAIN confirms' : confirms'[i].id <= Heard,
         \A i \in DOMAIN confirms' : resume.phase = "none" \/ "raced" \in importNotes \/ ~confirms'[i].mine,
         ConfirmsShow', ConfirmsRecord'
  PROVE  ImportInv'
<1>1. UNCHANGED <<preview, importStep, pendingPatchCount, patchQueue, burst, storedImport, storedDecision,
                  decided, resume, upload, importNotes>>
  BY DEF tableVars, storageVars
<1>2. ImportShapes'
  BY <1>1 DEF ImportInv, ImportShapes
<1>3. Heard' = Heard
  BY <1>1 DEF Heard
<1>4. ImportIds'
  BY <1>1, <1>3 DEF ImportInv, ImportIds
<1>5. UploadIsFresh'
  <2>1. upload.phase = "answered" => upload.id \in 1..Len(sessions)
    BY HeardIs DEF ImportInv, UploadIsFresh
  <2>2. QED
    BY <1>1, <2>1 DEF ImportInv, UploadIsFresh
<1>6. ResumeIsAlone'
  <2>1. resume.phase = "answered" /\ resume.ok => resume.id \in 1..Len(sessions)
    BY HeardIs DEF ImportInv, ResumeIsAlone
  <2>2. QED
    BY <1>1, <2>1 DEF ImportInv, ResumeIsAlone
<1>7. LaneIsSerial'
  <2>1. \A i \in DOMAIN patchQueue : patchQueue[i].id \in 1..Len(sessions)
    BY HeardIs
  <2>2. QED
    BY <1>1, <2>1 DEF ImportInv, LaneIsSerial
<1>8. PatchesAreCounted' /\ LaneIsOfPreview' /\ PreviewIsResumable'
  BY <1>1 DEF ImportInv, PatchesAreCounted, LaneIsOfPreview, PreviewIsResumable
<1>9. TableTracks'
  <2>1. preview.id # 0 => preview.id \in 1..Len(sessions)
    BY HeardIs
  <2>2. QED
    BY <1>1, <2>1 DEF ImportInv, TableTracks, Awaited, Undisturbed
<1>10. QED
  BY <1>2, <1>4, <1>5, <1>6, <1>7, <1>8, <1>9 DEF ImportInv

\* The confirms as they are, or marked by what happened beside them.
LEMMA ConfirmsStand ==
  ASSUME ImportInv, UNCHANGED <<patchQueue, importNotes, recorded>>, rateKnown => rateKnown',
         Len(sessions') = Len(sessions), \A k \in 1..Len(sessions) : sessions'[k].rows = sessions[k].rows,
         confirms' = confirms
  PROVE  /\ ConfirmsShow' /\ ConfirmsRecord' /\ confirms' \in Seq(ImportConfirms)
         /\ \A i \in DOMAIN confirms' : confirms'[i].id <= Heard
         /\ \A i \in DOMAIN confirms' : resume.phase = "none" \/ "raced" \in importNotes \/ ~confirms'[i].mine
<1>1. \A i \in DOMAIN confirms : confirms[i].id \in 1..Len(sessions) /\ confirms[i].id <= Heard
  BY HeardIs
<1>2. ConfirmsShow'
  BY <1>1 DEF ImportInv, ConfirmsShow, Undisturbed
<1>3. ConfirmsRecord'
  <2>1. \A rows : AllInsertable(rows) => AllInsertable(rows)'
    BY DEF AllInsertable
  <2>2. QED
    BY <2>1 DEF ImportInv, ConfirmsRecord, AllInsertable
<1>4. \A i \in DOMAIN confirms' : resume.phase = "none" \/ "raced" \in importNotes \/ ~confirms'[i].mine
  BY DEF ImportInv, ResumeIsAlone
<1>5. confirms' \in Seq(ImportConfirms)
  BY DEF ImportInv, ImportShapes
<1>6. QED
  BY <1>1, <1>2, <1>3, <1>4, <1>5

\* What happens beside a confirm marks it.
LEMMA MarkedOvertaken ==
  ASSUME ImportInv, confirms' = [i \in DOMAIN confirms |->
              IF confirms[i].phase = "gated" THEN [confirms[i] EXCEPT !.overtaken = TRUE] ELSE confirms[i]]
  PROVE  \A j \in DOMAIN confirms :
          /\ confirms'[j] \in ImportConfirms /\ confirms'[j].phase = confirms[j].phase
          /\ confirms'[j].id = confirms[j].id
          /\ confirms'[j].shown = confirms[j].shown /\ confirms'[j].copied = confirms[j].copied
          /\ confirms'[j].answer = confirms[j].answer /\ confirms'[j].left = confirms[j].left
          /\ (confirms'[j].mine <=> confirms[j].mine) /\ (confirms'[j].edited <=> confirms[j].edited)
          /\ (confirms[j].overtaken \/ confirms[j].phase = "gated" <=> confirms'[j].overtaken)
<1> SUFFICES ASSUME NEW j \in DOMAIN confirms
    PROVE /\ confirms'[j] \in ImportConfirms /\ confirms'[j].phase = confirms[j].phase
          /\ confirms'[j].id = confirms[j].id
          /\ confirms'[j].shown = confirms[j].shown /\ confirms'[j].copied = confirms[j].copied
          /\ confirms'[j].answer = confirms[j].answer /\ confirms'[j].left = confirms[j].left
          /\ (confirms'[j].mine <=> confirms[j].mine) /\ (confirms'[j].edited <=> confirms[j].edited)
          /\ (confirms[j].overtaken \/ confirms[j].phase = "gated" <=> confirms'[j].overtaken)
  OBVIOUS
<1>1. confirms[j] \in ImportConfirms
  BY HeardIs
<1>2. CASE confirms[j].phase = "gated"
  <2>1. confirms'[j] = [confirms[j] EXCEPT !.overtaken = TRUE]
    BY <1>2
  <2>2. QED
    BY <1>1, <1>2, <2>1 DEF ImportConfirms
<1>3. CASE confirms[j].phase # "gated"
  <2>1. confirms'[j] = confirms[j]
    BY <1>3
  <2>2. QED
    BY <1>1, <1>3, <2>1
<1>4. QED
  BY <1>2, <1>3
\* A mark leaves the rest of a confirm as it was.
LEMMA ConfirmMarked ==
  ASSUME NEW c \in ImportConfirms, NEW d,
         d = [c EXCEPT !.edited = TRUE] \/ d = [c EXCEPT !.mine = FALSE] \/ d = Unheard(c)
  PROVE  /\ d \in ImportConfirms /\ d.phase = c.phase /\ d.id = c.id /\ d.shown = c.shown /\ d.copied = c.copied
         /\ d.answer = c.answer /\ d.left = c.left /\ (d.overtaken <=> c.overtaken)
         /\ d = [c EXCEPT !.edited = TRUE] => (d.mine <=> c.mine) /\ d.edited
         /\ d = [c EXCEPT !.mine = FALSE] \/ d = Unheard(c) => ~d.mine /\ (d.edited <=> c.edited)
<1>1. CASE d = [c EXCEPT !.edited = TRUE]
  BY <1>1 DEF ImportConfirms, Unheard
<1>2. CASE d = [c EXCEPT !.mine = FALSE]
  BY <1>2 DEF ImportConfirms, Unheard
<1>3. CASE d = Unheard(c)
  BY <1>3 DEF ImportConfirms, Unheard
<1>4. QED
  BY <1>1, <1>2, <1>3
LEMMA MarkedEdited ==
  ASSUME ImportInv, confirms' = [i \in DOMAIN confirms |-> [confirms[i] EXCEPT !.edited = TRUE]]
  PROVE  /\ DOMAIN confirms' = DOMAIN confirms /\ confirms' \in Seq(ImportConfirms)
         /\ \A j \in DOMAIN confirms :
              /\ confirms'[j].phase = confirms[j].phase /\ confirms'[j].id = confirms[j].id
              /\ confirms'[j].shown = confirms[j].shown /\ confirms'[j].copied = confirms[j].copied
              /\ confirms'[j].answer = confirms[j].answer /\ confirms'[j].left = confirms[j].left
              /\ (confirms'[j].mine <=> confirms[j].mine) /\ confirms'[j].edited
              /\ (confirms'[j].overtaken <=> confirms[j].overtaken)
<1>1. \A j \in DOMAIN confirms : confirms[j] \in ImportConfirms /\ confirms'[j] = [confirms[j] EXCEPT !.edited = TRUE]
  BY HeardIs
<1>2. DOMAIN confirms = 1..Len(confirms) /\ Len(confirms) \in Nat /\ DOMAIN confirms' = DOMAIN confirms
  BY LenProperties DEF ImportInv, ImportShapes
<1>3. ASSUME NEW j \in DOMAIN confirms
      PROVE
        /\ confirms'[j] \in ImportConfirms
        /\ confirms'[j].phase = confirms[j].phase /\ confirms'[j].id = confirms[j].id
        /\ confirms'[j].shown = confirms[j].shown /\ confirms'[j].copied = confirms[j].copied
        /\ confirms'[j].answer = confirms[j].answer /\ confirms'[j].left = confirms[j].left
        /\ (confirms'[j].mine <=> confirms[j].mine) /\ confirms'[j].edited
        /\ (confirms'[j].overtaken <=> confirms[j].overtaken)
  <2> DEFINE old == confirms[j]
             new == confirms'[j]
  <2>1. old \in ImportConfirms /\ new = [old EXCEPT !.edited = TRUE]
    BY <1>1
  <2> HIDE DEF old, new
  <2>2. QED
    BY <2>1, ConfirmMarked DEF old, new
<1>4. confirms' \in [1..Len(confirms) -> ImportConfirms]
  BY <1>2, <1>3
<1>5. confirms' \in Seq(ImportConfirms)
  BY <1>2, <1>4, SeqDef
<1>6. QED
  BY <1>2, <1>3, <1>5
LEMMA MarkedLeft ==
  ASSUME ImportInv, confirms' = [i \in DOMAIN confirms |-> [confirms[i] EXCEPT !.mine = FALSE]]
  PROVE  /\ DOMAIN confirms' = DOMAIN confirms /\ confirms' \in Seq(ImportConfirms)
         /\ \A j \in DOMAIN confirms :
              /\ confirms'[j].phase = confirms[j].phase /\ confirms'[j].id = confirms[j].id
              /\ confirms'[j].shown = confirms[j].shown /\ confirms'[j].copied = confirms[j].copied
              /\ confirms'[j].answer = confirms[j].answer /\ confirms'[j].left = confirms[j].left
              /\ ~confirms'[j].mine /\ (confirms'[j].edited <=> confirms[j].edited)
              /\ (confirms'[j].overtaken <=> confirms[j].overtaken)
<1>1. \A j \in DOMAIN confirms : confirms[j] \in ImportConfirms /\ confirms'[j] = [confirms[j] EXCEPT !.mine = FALSE]
  BY HeardIs
<1>2. DOMAIN confirms = 1..Len(confirms) /\ Len(confirms) \in Nat /\ DOMAIN confirms' = DOMAIN confirms
  BY LenProperties DEF ImportInv, ImportShapes
<1>3. ASSUME NEW j \in DOMAIN confirms
      PROVE
        /\ confirms'[j] \in ImportConfirms
        /\ confirms'[j].phase = confirms[j].phase /\ confirms'[j].id = confirms[j].id
        /\ confirms'[j].shown = confirms[j].shown /\ confirms'[j].copied = confirms[j].copied
        /\ confirms'[j].answer = confirms[j].answer /\ confirms'[j].left = confirms[j].left
        /\ ~confirms'[j].mine /\ (confirms'[j].edited <=> confirms[j].edited)
        /\ (confirms'[j].overtaken <=> confirms[j].overtaken)
  <2> DEFINE old == confirms[j]
             new == confirms'[j]
  <2>1. old \in ImportConfirms /\ new = [old EXCEPT !.mine = FALSE]
    BY <1>1
  <2> HIDE DEF old, new
  <2>2. QED
    BY <2>1, ConfirmMarked DEF old, new
<1>4. confirms' \in [1..Len(confirms) -> ImportConfirms]
  BY <1>2, <1>3
<1>5. confirms' \in Seq(ImportConfirms)
  BY <1>2, <1>4, SeqDef
<1>6. QED
  BY <1>2, <1>3, <1>5
LEMMA MarkedGone ==
  ASSUME ImportInv, confirms' = [i \in DOMAIN confirms |-> Unheard(confirms[i])]
  PROVE  /\ DOMAIN confirms' = DOMAIN confirms /\ confirms' \in Seq(ImportConfirms)
         /\ \A j \in DOMAIN confirms :
              /\ confirms'[j].phase = confirms[j].phase /\ confirms'[j].id = confirms[j].id
              /\ confirms'[j].shown = confirms[j].shown /\ confirms'[j].copied = confirms[j].copied
              /\ confirms'[j].answer = confirms[j].answer /\ confirms'[j].left = confirms[j].left
              /\ ~confirms'[j].mine /\ (confirms'[j].edited <=> confirms[j].edited)
              /\ (confirms'[j].overtaken <=> confirms[j].overtaken)
<1>1. \A j \in DOMAIN confirms : confirms[j] \in ImportConfirms /\ confirms'[j] = Unheard(confirms[j])
  BY HeardIs
<1>2. DOMAIN confirms = 1..Len(confirms) /\ Len(confirms) \in Nat /\ DOMAIN confirms' = DOMAIN confirms
  BY LenProperties DEF ImportInv, ImportShapes
<1>3. \A j \in DOMAIN confirms :
        /\ confirms'[j] \in ImportConfirms
        /\ confirms'[j].phase = confirms[j].phase /\ confirms'[j].id = confirms[j].id
        /\ confirms'[j].shown = confirms[j].shown /\ confirms'[j].copied = confirms[j].copied
        /\ confirms'[j].answer = confirms[j].answer /\ confirms'[j].left = confirms[j].left
        /\ ~confirms'[j].mine /\ (confirms'[j].edited <=> confirms[j].edited)
        /\ (confirms'[j].overtaken <=> confirms[j].overtaken)
  BY <1>1, ConfirmMarked, Zenon
<1>4. confirms' \in [1..Len(confirms) -> ImportConfirms]
  BY <1>2, <1>3
<1>5. confirms' \in Seq(ImportConfirms)
  BY <1>2, <1>4, SeqDef
<1>6. QED
  BY <1>2, <1>3, <1>5

(***************************************************************************)
(* The rest of the system, and the confirms.                               *)
(***************************************************************************)
LEMMA RestOfSystemKeeps ==
  ASSUME ImportInv, RecordByHand \/ ConfigureCurrency \/ SessionExpires
  PROVE  ImportInv'
<1>1. /\ sessions \in Seq(ImportSessions) /\ recorded \in [ImportValues -> {0, 1}] /\ rateKnown \in BOOLEAN
      /\ cancelling \in ImportRequests /\ confirms \in Seq(ImportConfirms)
  BY DEF ImportInv, ImportShapes
<1>2. resume.phase = "none" \/ "raced" \in importNotes \/ cancelling.phase = "none"
  BY DEF ImportInv, ResumeIsAlone
<1>3. CASE ConfigureCurrency
  <2>1. /\ UNCHANGED <<sessions, recorded, tableVars, decided, storageVars, resume, upload, cancelling, confirms,
                       importNotes>>
        /\ rateKnown' = TRUE
    BY <1>3 DEF ConfigureCurrency, requestVars
  <2>2. patchQueue' = patchQueue
    BY <2>1 DEF tableVars
  <2>3. /\ ConfirmsShow' /\ ConfirmsRecord' /\ confirms' \in Seq(ImportConfirms)
        /\ \A i \in DOMAIN confirms' : confirms'[i].id <= Heard
        /\ \A i \in DOMAIN confirms' : resume.phase = "none" \/ "raced" \in importNotes \/ ~confirms'[i].mine
    BY <2>1, <2>2, ConfirmsStand
  <2>4. QED
    BY <1>1, <1>2, <2>1, <2>3, ConfirmsMoveKeep
<1>4. CASE SessionExpires
  <2>1. PICK id \in DOMAIN sessions : sessions' = Drop(id)
    BY <1>4 DEF SessionExpires
  <2>2. /\ sessions' \in Seq(ImportSessions) /\ Len(sessions') = Len(sessions)
        /\ \A k \in 1..Len(sessions) : sessions'[k].rows = sessions[k].rows
    BY <1>1, <2>1, SessionDropped
  <2>3. UNCHANGED <<recorded, rateKnown, tableVars, decided, storageVars, resume, upload, cancelling, confirms,
                    importNotes>>
    BY <1>4 DEF SessionExpires, requestVars
  <2>4. patchQueue' = patchQueue
    BY <2>3 DEF tableVars
  <2>5. /\ ConfirmsShow' /\ ConfirmsRecord' /\ confirms' \in Seq(ImportConfirms)
        /\ \A i \in DOMAIN confirms' : confirms'[i].id <= Heard
        /\ \A i \in DOMAIN confirms' : resume.phase = "none" \/ "raced" \in importNotes \/ ~confirms'[i].mine
    BY <2>2, <2>3, <2>4, ConfirmsStand
  <2>6. QED
    BY <1>1, <1>2, <2>2, <2>3, <2>5, ConfirmsMoveKeep
<1>5. CASE RecordByHand
  <2>1. PICK v \in ImportValues : recorded' = [recorded EXCEPT ![v] = 1]
    BY <1>5 DEF RecordByHand
  <2>2. /\ UNCHANGED <<sessions, rateKnown, tableVars, decided, storageVars, resume, upload, cancelling, importNotes>>
        /\ confirms' = [i \in DOMAIN confirms |->
              IF confirms[i].phase = "gated" THEN [confirms[i] EXCEPT !.overtaken = TRUE] ELSE confirms[i]]
    BY <1>5 DEF RecordByHand
  <2>3. \A j \in DOMAIN confirms :
          /\ confirms'[j] \in ImportConfirms /\ confirms'[j].phase = confirms[j].phase
          /\ confirms'[j].id = confirms[j].id
          /\ confirms'[j].shown = confirms[j].shown /\ confirms'[j].copied = confirms[j].copied
          /\ confirms'[j].answer = confirms[j].answer /\ confirms'[j].left = confirms[j].left
          /\ (confirms'[j].mine <=> confirms[j].mine) /\ (confirms'[j].edited <=> confirms[j].edited)
          /\ (confirms[j].overtaken \/ confirms[j].phase = "gated" <=> confirms'[j].overtaken)
    BY <2>2, MarkedOvertaken
  <2>4. DOMAIN confirms' = DOMAIN confirms /\ confirms' \in Seq(ImportConfirms)
    <3>1. DOMAIN confirms = 1..Len(confirms) /\ Len(confirms) \in Nat
      BY <1>1, LenProperties
    <3>2. DOMAIN confirms' = DOMAIN confirms
      BY <2>2
    <3>3. confirms' \in [1..Len(confirms) -> ImportConfirms]
      BY <2>2, <2>3, <3>1
    <3>4. QED
      BY <3>1, <3>2, <3>3, SeqDef
  <2>5. ConfirmsShow'
    <3>1. patchQueue' = patchQueue
      BY <2>2 DEF tableVars
    <3>2. QED
      BY <2>2, <2>3, <2>4, <3>1 DEF ImportInv, ConfirmsShow, Undisturbed
  <2>6. ConfirmsRecord'
    BY <2>3, <2>4 DEF ImportInv, ConfirmsRecord
  <2>7. \A i \in DOMAIN confirms' : confirms'[i].id <= Heard
    BY <2>3, <2>4, HeardIs
  <2>8. \A i \in DOMAIN confirms' : resume.phase = "none" \/ "raced" \in importNotes \/ ~confirms'[i].mine
    BY <2>3, <2>4 DEF ImportInv, ResumeIsAlone
  <2>9. recorded' \in [ImportValues -> {0, 1}]
    BY <1>1, <2>1
  <2>10. QED
    BY <1>1, <1>2, <2>2, <2>4, <2>5, <2>6, <2>7, <2>8, <2>9, ConfirmsMoveKeep
<1>6. QED
  BY <1>3, <1>4, <1>5

\* A gate that asks for nothing has found every row it keeps insertable.
LEMMA GatePassed ==
  ASSUME NEW rows \in ImportTables, NEW filed \in BOOLEAN, recorded \in [ImportValues -> {0, 1}],
         MoneyErrors(rows) = {}, UnresolvedCategories(rows, filed) = {}, CollisionGroups(rows, filed) = {}
  PROVE  AllInsertable(rows)
<1> SUFFICES ASSUME NEW r \in ImportRows, ~rows[r].skip
             PROVE  /\ r \in ForeignRows => rateKnown
                    /\ recorded[rows[r].value] = 0
                    /\ \A q \in ImportRows : q # r /\ ~rows[q].skip => rows[q].value # rows[r].value
  BY DEF AllInsertable
<1> DEFINE hashed == {q \in ImportRows : Storable(rows, q) /\ (q \in UnfiledRows => filed)}
           of(v)  == {q \in hashed : rows[q].value = v}
<1>1. ASSUME NEW q \in ImportRows, ~rows[q].skip PROVE q \in hashed /\ (q \in ForeignRows => rateKnown)
  <2>1. q \in ForeignRows => rateKnown
    BY <1>1 DEF MoneyErrors
  <2>2. Storable(rows, q)
    BY <1>1, <2>1 DEF Storable
  <2>3. q \in UnfiledRows => filed
    BY <2>2 DEF UnresolvedCategories
  <2>4. QED
    BY <2>1, <2>2, <2>3
<1>2. \A v \in ImportValues : ~(Cardinality(of(v)) > 1) /\ ~(of(v) # {} /\ recorded[v] > 0)
  <2>1. CollisionGroups(rows, filed)
          = {of(v) : v \in {w \in ImportValues : Cardinality(of(w)) > 1 \/ (of(w) # {} /\ recorded[w] > 0)}}
    BY DEF CollisionGroups
  <2> HIDE DEF of, hashed
  <2>2. ASSUME NEW v \in ImportValues, Cardinality(of(v)) > 1 \/ (of(v) # {} /\ recorded[v] > 0)
        PROVE  of(v) \in CollisionGroups(rows, filed)
    BY <2>1, <2>2
  <2>3. QED
    BY <2>2
<1>3. \A v : of(v) \subseteq ImportRows
  OBVIOUS
<1> DEFINE w == rows[r].value
<1>4. w \in ImportValues
  BY DEF ImportTables, RowState
<1>5. r \in of(w)
  BY <1>1
<1>6. recorded[w] = 0
  <2>1. ~(recorded[w] > 0) /\ recorded[w] \in {0, 1}
    BY <1>2, <1>4, <1>5
  <2>2. QED
    BY <2>1
<1>7. ASSUME NEW q \in ImportRows, q # r, ~rows[q].skip, rows[q].value = w PROVE FALSE
  <2>1. q \in of(w)
    BY <1>1, <1>7
  <2> HIDE DEF hashed, of
  <2>2. IsFiniteSet(of(w))
    BY <1>3, ImportConstants, FS_Subset
  <2>3. IsFiniteSet({r} \cup {q}) /\ Cardinality({r} \cup {q}) = 2
    <3>1. IsFiniteSet({r}) /\ Cardinality({r}) = 1
      BY FS_Singleton
    <3>2. Cardinality({r} \cup {q}) = Cardinality({r}) + 1 /\ IsFiniteSet({r} \cup {q})
      BY <1>7, <3>1, FS_AddElement
    <3>3. QED
      BY <3>1, <3>2
  <2>4. ({r} \cup {q}) \in SUBSET of(w)
    BY <1>5, <2>1
  <2>5. Cardinality({r} \cup {q}) <= Cardinality(of(w)) /\ Cardinality(of(w)) \in Nat
    BY <2>2, <2>4, FS_Subset, FS_CardinalityType
  <2>6. QED
    BY <1>2, <1>4, <2>3, <2>5
<1>8. QED
  BY <1>1, <1>6, <1>7

\* The insert loop takes a content that nobody has, and takes it once.
LEMMA InsertedOnce ==
  ASSUME NEW rows \in ImportTables, recorded \in [ImportValues -> {0, 1}], NEW v \in ImportValues
  PROVE  recorded[v] + Cardinality({r \in Insertable(rows) : rows[r].value = v}) \in {0, 1}
<1> DEFINE X == {r \in Insertable(rows) : rows[r].value = v}
<1>1. X \subseteq ImportRows /\ \A r \in X : r \in Int /\ Storable(rows, r) /\ recorded[v] = 0 /\ rows[r].value = v
                                             /\ \A q \in 1..(r - 1) : Storable(rows, q) => rows[q].value # v
  BY ImportConstants DEF Insertable
<1>2. \A r \in X : r >= 1
  BY <1>1 DEF ImportRows
<1> HIDE DEF X
<1>3. CASE X = {}
  <2>1. Cardinality(X) = 0 /\ recorded[v] \in {0, 1}
    BY <1>3, FS_EmptySet
  <2>2. QED
    BY <2>1 DEF X
<1>4. CASE X # {}
  <2>1. PICK r \in X : TRUE
    BY <1>4
  <2>2. \A q \in X : q = r
    <3> SUFFICES ASSUME NEW q \in X, q # r PROVE FALSE
      OBVIOUS
    <3>1. CASE q < r
      <4>1. q \in 1..(r - 1)
        BY <1>1, <1>2, <2>1, <3>1
      <4>2. QED
        BY <1>1, <2>1, <4>1
    <3>2. CASE r < q
      <4>1. r \in 1..(q - 1)
        BY <1>1, <1>2, <2>1, <3>2
      <4>2. QED
        BY <1>1, <2>1, <4>1
    <3>3. QED
      BY <1>1, <2>1, <3>1, <3>2
  <2>3. X = {r}
    BY <2>1, <2>2
  <2>4. Cardinality(X) = 1 /\ recorded[v] = 0
    BY <1>1, <2>1, <2>3, FS_Singleton
  <2>5. QED
    BY <2>4 DEF X
<1>5. QED
  BY <1>3, <1>4

LEMMA ConfirmImportKeeps ==
  ASSUME ImportInv, ConfirmImport
  PROVE  ImportInv'
<1> DEFINE c == [phase |-> "sent", id |-> preview.id, decided |-> decided, shown |-> preview.rows,
                 copied |-> preview.rows, answer |-> "none", refused |-> {}, left |-> {}, mine |-> TRUE,
                 heard |-> TRUE, edited |-> FALSE, overtaken |-> FALSE]
<1>1. /\ importStep = "preview" /\ preview.id # 0 /\ pendingPatchCount = 0 /\ confirms' = Append(confirms, c)
      /\ UNCHANGED <<serverVars, tableVars, decided, storageVars, resume, upload, cancelling, importNotes>>
  BY DEF ConfirmImport, CanImport
<1>2. UNCHANGED <<sessions, recorded, rateKnown, patchQueue>>
  BY <1>1 DEF serverVars, tableVars
<1>3. /\ sessions \in Seq(ImportSessions) /\ recorded \in [ImportValues -> {0, 1}] /\ rateKnown \in BOOLEAN
      /\ cancelling \in ImportRequests /\ confirms \in Seq(ImportConfirms) /\ preview \in ImportPreviews
      /\ decided \in BOOLEAN /\ patchQueue \in Seq(ImportJobs)
  BY DEF ImportInv, ImportShapes
<1>4. resume.phase = "none" \/ "raced" \in importNotes
  BY <1>1 DEF ImportInv, ResumeIsAlone
<1>5. preview.id \in 1..Heard /\ preview.id \in Nat \ {0} /\ preview.rows \in ImportTables
  BY <1>1, <1>3, HeardIs DEF ImportPreviews
<1>6. c \in ImportConfirms
  BY <1>3, <1>5 DEF ImportConfirms
<1>7. Undisturbed => PatchesIn(patchQueue) = {} /\ sessions[preview.id].rows = preview.rows
  <2> SUFFICES ASSUME Undisturbed PROVE PatchesIn(patchQueue) = {} /\ sessions[preview.id].rows = preview.rows
    OBVIOUS
  <2>1. Cardinality(PatchesIn(patchQueue)) = 0
    BY <1>1 DEF ImportInv, PatchesAreCounted, Undisturbed
  <2>2. PatchesIn(patchQueue) = {}
    BY <1>3, <2>1, PatchesAreFew
  <2>3. \A r \in ImportRows : preview.rows[r] = sessions[preview.id].rows[r]
    BY <1>1, <2>2 DEF ImportInv, TableTracks, Awaited, PatchesIn
  <2>4. sessions[preview.id].rows \in ImportTables
    BY <1>5, HeardIs
  <2>5. QED
    BY <1>5, <2>2, <2>3, <2>4 DEF ImportTables
<1>8. c.phase = "sent" /\ c.copied = preview.rows /\ c.shown = preview.rows /\ c.id = preview.id /\ c.answer = "none"
  OBVIOUS
<1> HIDE DEF c
<1>9. /\ confirms' \in Seq(ImportConfirms) /\ Len(confirms') = Len(confirms) + 1 /\ confirms'[Len(confirms) + 1] = c
      /\ \A k \in 1..Len(confirms) : confirms'[k] = confirms[k]
  BY <1>1, <1>3, <1>6, AppendedAt
<1>10. /\ Len(confirms) \in Nat /\ DOMAIN confirms = 1..Len(confirms)
       /\ \A k \in DOMAIN confirms' : k \in DOMAIN confirms \/ k = Len(confirms) + 1
  BY <1>3, <1>9, LenProperties
<1>11. \A k \in DOMAIN confirms' : (k \in DOMAIN confirms /\ confirms'[k] = confirms[k]) \/ confirms'[k] = c
  BY <1>9, <1>10
<1>12. ConfirmsShow'
  BY <1>1, <1>2, <1>7, <1>8, <1>11 DEF ImportInv, ConfirmsShow, Undisturbed
<1>13. ConfirmsRecord'
  BY <1>2, <1>8, <1>11 DEF ImportInv, ConfirmsRecord, AllInsertable
<1>14. \A k \in DOMAIN confirms' : confirms'[k].id <= Heard
  BY <1>5, <1>8, <1>11, HeardIs
<1>15. QED
  BY <1>1, <1>2, <1>3, <1>4, <1>9, <1>12, <1>13, <1>14, ConfirmsMoveKeep

LEMMA ConfirmGateKeeps ==
  ASSUME ImportInv, NEW i \in DOMAIN confirms, ConfirmGate(i)
  PROVE  ImportInv'
<1> DEFINE c == confirms[i]
           rows == sessions[c.id].rows
<1>1. /\ c.phase = "sent"
      /\ UNCHANGED <<serverVars, tableVars, decided, storageVars, resume, upload, cancelling, importNotes>>
  BY DEF ConfirmGate
<1>2. UNCHANGED <<sessions, recorded, rateKnown, patchQueue>>
  BY <1>1 DEF serverVars, tableVars
<1>3. /\ sessions \in Seq(ImportSessions) /\ recorded \in [ImportValues -> {0, 1}] /\ rateKnown \in BOOLEAN
      /\ cancelling \in ImportRequests /\ confirms \in Seq(ImportConfirms)
  BY DEF ImportInv, ImportShapes
<1>4. c \in ImportConfirms /\ c.id \in DOMAIN sessions /\ rows \in ImportTables /\ c.decided \in BOOLEAN
  BY HeardIs, SMTT(20) DEF ImportConfirms
<1>5. resume.phase = "none" \/ "raced" \in importNotes \/ (cancelling.phase = "none" /\ ~c.mine)
  BY DEF ImportInv, ResumeIsAlone
<1>6. \E h \in ImportConfirms :
        /\ confirms' = [confirms EXCEPT ![i] = h]
        /\ h.id = c.id /\ h.mine = c.mine /\ h.edited = c.edited /\ h.shown = c.shown /\ h.overtaken = c.overtaken
        /\ \/ h.phase = "answered" /\ h.answer # "done" /\ h.copied = c.copied
           \/ h.phase = "gated" /\ h.answer = c.answer /\ h.copied = rows /\ AllInsertable(rows)
  <2>1. MoneyErrors(rows) \subseteq ImportRows /\ UnresolvedCategories(rows, c.decided) \subseteq ImportRows
        /\ CollisionGroups(rows, c.decided) \subseteq ImportGroups
    BY <1>4, GroupsOfRows, ImportAssumption DEF MoneyErrors, UnresolvedCategories
  <2> DEFINE refusal(answer, what) == [c EXCEPT !.phase = "answered", !.answer = answer, !.refused = what]
             passed == [c EXCEPT !.phase = "gated", !.copied = rows]
  <2>2. \/ \E answer \in {"gone", "money", "categories"}, what \in SUBSET ImportRows :
             confirms' = [confirms EXCEPT ![i].phase = "answered", ![i].answer = answer, ![i].refused = what]
        \/ \E what \in SUBSET ImportGroups :
             confirms' = [confirms EXCEPT ![i].phase = "answered", ![i].answer = "collisions", ![i].refused = what]
        \/ /\ MoneyErrors(rows) = {} /\ UnresolvedCategories(rows, c.decided) = {}
           /\ CollisionGroups(rows, c.decided) = {}
           /\ confirms' = [confirms EXCEPT ![i].phase = "gated", ![i].copied = rows]
    <3> HIDE DEF rows
    <3>1. rows = IF c.id \in DOMAIN sessions THEN sessions[c.id].rows ELSE FreshRows
      BY <1>4 DEF rows
    <3> HIDE DEF c
    <3>2. QED
      BY <2>1, <3>1 DEF ConfirmGate, c
  <2>3. CASE \E answer \in {"gone", "money", "categories"}, what \in SUBSET ImportRows :
               confirms' = [confirms EXCEPT ![i].phase = "answered", ![i].answer = answer, ![i].refused = what]
    <3>1. PICK answer \in {"gone", "money", "categories"}, what \in SUBSET ImportRows :
               confirms' = [confirms EXCEPT ![i].phase = "answered", ![i].answer = answer, ![i].refused = what]
      BY <2>3
    <3>2. confirms' = [confirms EXCEPT ![i] = refusal(answer, what)]
      BY <3>1
    <3>3. /\ refusal(answer, what) \in ImportConfirms /\ refusal(answer, what).phase = "answered"
          /\ refusal(answer, what).answer # "done" /\ refusal(answer, what).copied = c.copied
          /\ refusal(answer, what).id = c.id /\ refusal(answer, what).mine = c.mine
          /\ refusal(answer, what).edited = c.edited /\ refusal(answer, what).shown = c.shown
          /\ refusal(answer, what).overtaken = c.overtaken
      <4> HIDE DEF rows, c
      <4>1. QED
        BY <1>4 DEF ImportConfirms
    <3> HIDE DEF refusal
    <3>4. QED
      BY <3>2, <3>3
  <2>4. CASE \E what \in SUBSET ImportGroups :
             confirms' = [confirms EXCEPT ![i].phase = "answered", ![i].answer = "collisions", ![i].refused = what]
    <3>1. PICK what \in SUBSET ImportGroups :
             confirms' = [confirms EXCEPT ![i].phase = "answered", ![i].answer = "collisions", ![i].refused = what]
      BY <2>4
    <3>2. confirms' = [confirms EXCEPT ![i] = refusal("collisions", what)]
      BY <3>1
    <3>3. /\ refusal("collisions", what) \in ImportConfirms /\ refusal("collisions", what).phase = "answered"
          /\ refusal("collisions", what).answer # "done" /\ refusal("collisions", what).copied = c.copied
          /\ refusal("collisions", what).id = c.id /\ refusal("collisions", what).mine = c.mine
          /\ refusal("collisions", what).edited = c.edited /\ refusal("collisions", what).shown = c.shown
          /\ refusal("collisions", what).overtaken = c.overtaken
      <4> HIDE DEF rows, c
      <4>1. QED
        BY <1>4 DEF ImportConfirms
    <3> HIDE DEF refusal
    <3>4. QED
      BY <3>2, <3>3
  <2>5. CASE /\ MoneyErrors(rows) = {} /\ UnresolvedCategories(rows, c.decided) = {}
             /\ CollisionGroups(rows, c.decided) = {}
             /\ confirms' = [confirms EXCEPT ![i].phase = "gated", ![i].copied = rows]
    <3>1. AllInsertable(rows)
      BY <1>3, <1>4, <2>5, GatePassed
    <3>2. confirms' = [confirms EXCEPT ![i] = passed]
      BY <2>5
    <3>3. /\ passed \in ImportConfirms /\ passed.phase = "gated" /\ passed.answer = c.answer /\ passed.copied = rows
          /\ passed.id = c.id /\ passed.mine = c.mine /\ passed.edited = c.edited /\ passed.shown = c.shown
          /\ passed.overtaken = c.overtaken
      <4> HIDE DEF rows, c
      <4>1. QED
        BY <1>4 DEF ImportConfirms
    <3> HIDE DEF passed
    <3>4. QED
      BY <3>1, <3>2, <3>3
  <2>6. QED
    BY <2>2, <2>3, <2>4, <2>5
<1>7. PICK h \in ImportConfirms :
        /\ confirms' = [confirms EXCEPT ![i] = h]
        /\ h.id = c.id /\ h.mine = c.mine /\ h.edited = c.edited /\ h.shown = c.shown /\ h.overtaken = c.overtaken
        /\ \/ h.phase = "answered" /\ h.answer # "done" /\ h.copied = c.copied
           \/ h.phase = "gated" /\ h.answer = c.answer /\ h.copied = rows /\ AllInsertable(rows)
  BY <1>6
<1>8. DOMAIN confirms = 1..Len(confirms) /\ Len(confirms) \in Nat
  BY <1>3, LenProperties
<1>9. /\ confirms' \in Seq(ImportConfirms) /\ Len(confirms') = Len(confirms)
      /\ \A k \in DOMAIN confirms : confirms'[k] = IF k = i THEN h ELSE confirms[k]
  BY <1>3, <1>7, <1>8, ExceptSeq
<1>10. DOMAIN confirms' = DOMAIN confirms
  BY <1>8, <1>9, LenProperties
<1>11. /\ c.copied = c.shown /\ c.answer = "none"
       /\ Undisturbed /\ ~c.edited => PatchesIn(patchQueue) = {} /\ rows = c.shown
  BY <1>1 DEF ImportInv, ConfirmsShow, ConfirmsRecord
<1>12. ConfirmsShow'
  <2> SUFFICES ASSUME NEW k \in DOMAIN confirms
        PROVE /\ confirms'[k].phase = "sent" => confirms'[k].copied = confirms'[k].shown
              /\ Undisturbed /\ ~confirms'[k].edited =>
                   /\ confirms'[k].copied = confirms'[k].shown /\ PatchesIn(patchQueue) = {}
                   /\ confirms'[k].phase = "sent" => sessions[confirms'[k].id].rows = confirms'[k].shown
    BY <1>1, <1>2, <1>10 DEF ConfirmsShow, Undisturbed
  <2>1. CASE k = i
    <3> HIDE DEF rows, c
    <3>1. QED
      BY <1>7, <1>9, <1>11, <2>1
  <2>2. CASE k # i
    BY <1>9, <2>2 DEF ImportInv, ConfirmsShow
  <2>3. QED
    BY <2>1, <2>2
<1>13. ConfirmsRecord'
  <2> SUFFICES ASSUME NEW k \in DOMAIN confirms
        PROVE /\ confirms'[k].phase = "gated" /\ ~confirms'[k].overtaken => AllInsertable(confirms'[k].copied)
              /\ confirms'[k].phase \in {"sent", "gated"} => confirms'[k].answer = "none"
              /\ confirms'[k].answer = "done" => confirms'[k].left = {} \/ confirms'[k].overtaken
    BY <1>2, <1>10 DEF ConfirmsRecord, AllInsertable
  <2>1. CASE k = i
    <3> HIDE DEF rows, c
    <3>1. QED
      BY <1>7, <1>9, <1>11, <2>1
  <2>2. CASE k # i
    BY <1>9, <2>2 DEF ImportInv, ConfirmsRecord
  <2>3. QED
    BY <2>1, <2>2
<1>14. \A k \in DOMAIN confirms' : confirms'[k].id <= Heard
  BY <1>7, <1>9, <1>10, HeardIs
<1>15. \A k \in DOMAIN confirms' : resume.phase = "none" \/ "raced" \in importNotes \/ ~confirms'[k].mine
  BY <1>5, <1>7, <1>9, <1>10 DEF ImportInv, ResumeIsAlone
<1>16. QED
  BY <1>1, <1>2, <1>3, <1>5, <1>9, <1>12, <1>13, <1>14, <1>15, ConfirmsMoveKeep

LEMMA ConfirmCommitKeeps ==
  ASSUME ImportInv, NEW i \in DOMAIN confirms, ConfirmCommit(i)
  PROVE  ImportInv'
<1> DEFINE c == confirms[i]
           inserted == Insertable(c.copied)
           h == [c EXCEPT !.phase = "answered", !.answer = "done",
                          !.left = {r \in ImportRows : ~c.copied[r].skip} \ inserted]
<1>1. /\ c.phase = "gated" /\ sessions' = Drop(c.id)
      /\ recorded' = [v \in ImportValues |-> recorded[v] + Cardinality({r \in inserted : c.copied[r].value = v})]
      /\ confirms' = [k \in DOMAIN confirms |->
              IF k = i THEN h
              ELSE IF confirms[k].phase = "gated" THEN [confirms[k] EXCEPT !.overtaken = TRUE]
              ELSE confirms[k]]
      /\ UNCHANGED <<rateKnown, tableVars, decided, storageVars, resume, upload, cancelling, importNotes>>
  BY DEF ConfirmCommit
<1>2. /\ sessions \in Seq(ImportSessions) /\ recorded \in [ImportValues -> {0, 1}] /\ rateKnown \in BOOLEAN
      /\ cancelling \in ImportRequests /\ confirms \in Seq(ImportConfirms)
  BY DEF ImportInv, ImportShapes
<1>3. /\ sessions' \in Seq(ImportSessions) /\ Len(sessions') = Len(sessions)
      /\ \A k \in 1..Len(sessions) : sessions'[k].rows = sessions[k].rows
  BY <1>1, <1>2, SessionDropped
<1>4. c \in ImportConfirms /\ c.copied \in ImportTables
  BY HeardIs DEF ImportConfirms
<1>5. recorded' \in [ImportValues -> {0, 1}]
  <2>1. \A v \in ImportValues : recorded[v] + Cardinality({r \in inserted : c.copied[r].value = v}) \in {0, 1}
    BY <1>2, <1>4, InsertedOnce
  <2> HIDE DEF inserted, h, c
  <2>2. QED
    BY <1>1, <2>1
<1>6. /\ h \in ImportConfirms /\ h.phase = "answered" /\ h.id = c.id /\ h.mine = c.mine /\ h.edited = c.edited
      /\ h.shown = c.shown /\ h.copied = c.copied /\ h.overtaken = c.overtaken
      /\ h.left = {r \in ImportRows : ~c.copied[r].skip} \ inserted
  <2> HIDE DEF inserted, c
  <2>1. QED
    BY <1>4 DEF ImportConfirms
<1>7. ~c.overtaken => h.left = {}
  <2> SUFFICES ASSUME ~c.overtaken, NEW r \in ImportRows, ~c.copied[r].skip PROVE r \in inserted
    <3> HIDE DEF h, inserted
    <3>1. QED
      BY <1>6
  <2>1. AllInsertable(c.copied)
    BY <1>1 DEF ImportInv, ConfirmsRecord
  <2>2. (r \in ForeignRows => rateKnown) /\ recorded[c.copied[r].value] = 0
        /\ \A q \in ImportRows : q # r /\ ~c.copied[q].skip => c.copied[q].value # c.copied[r].value
    BY <2>1 DEF AllInsertable
  <2>3. \A q \in 1..(r - 1) : q \in ImportRows /\ q # r
    BY ImportAssumption DEF ImportRows
  <2>4. QED
    BY <2>2, <2>3 DEF Insertable, Storable
<1> HIDE DEF h, inserted
<1>8. \A k \in DOMAIN confirms :
        \/ k = i /\ confirms'[k] = h
        \/ k # i /\ confirms[k].phase = "gated" /\ confirms'[k] = [confirms[k] EXCEPT !.overtaken = TRUE]
        \/ k # i /\ confirms[k].phase # "gated" /\ confirms'[k] = confirms[k]
  BY <1>1
<1>9. \A k \in DOMAIN confirms :
        /\ confirms'[k] \in ImportConfirms /\ confirms'[k].id = confirms[k].id /\ confirms'[k].mine = confirms[k].mine
        /\ confirms'[k].edited = confirms[k].edited /\ confirms'[k].shown = confirms[k].shown
        /\ confirms'[k].copied = confirms[k].copied /\ (confirms'[k].phase = "sent" <=> confirms[k].phase = "sent")
        /\ confirms'[k].phase = "gated" => confirms'[k].overtaken
        /\ k # i => /\ confirms'[k].answer = confirms[k].answer /\ confirms'[k].left = confirms[k].left
                    /\ confirms'[k].phase = confirms[k].phase /\ (confirms[k].overtaken => confirms'[k].overtaken)
        /\ k = i => confirms'[k] = h
  <2> SUFFICES ASSUME NEW k \in DOMAIN confirms
       PROVE /\ confirms'[k] \in ImportConfirms /\ confirms'[k].id = confirms[k].id /\ confirms'[k].mine = confirms[k].mine
             /\ confirms'[k].edited = confirms[k].edited /\ confirms'[k].shown = confirms[k].shown
             /\ confirms'[k].copied = confirms[k].copied /\ (confirms'[k].phase = "sent" <=> confirms[k].phase = "sent")
             /\ confirms'[k].phase = "gated" => confirms'[k].overtaken
             /\ k # i => /\ confirms'[k].answer = confirms[k].answer /\ confirms'[k].left = confirms[k].left
                         /\ confirms'[k].phase = confirms[k].phase /\ (confirms[k].overtaken => confirms'[k].overtaken)
             /\ k = i => confirms'[k] = h
    OBVIOUS
  <2>1. confirms[k] \in ImportConfirms
    BY HeardIs
  <2>2. CASE k = i
    BY <1>1, <1>6, <1>8, <2>2
  <2>3. CASE k # i /\ confirms[k].phase = "gated"
    <3>1. confirms'[k] = [confirms[k] EXCEPT !.overtaken = TRUE]
      BY <1>8, <2>3
    <3>2. QED
      BY <2>1, <2>3, <3>1 DEF ImportConfirms
  <2>4. CASE k # i /\ confirms[k].phase # "gated"
    BY <1>8, <2>1, <2>4
  <2>5. QED
    BY <2>2, <2>3, <2>4
<1>10. DOMAIN confirms' = DOMAIN confirms /\ confirms' \in Seq(ImportConfirms)
  <2>1. DOMAIN confirms = 1..Len(confirms) /\ Len(confirms) \in Nat
    BY <1>2, LenProperties
  <2>2. DOMAIN confirms' = DOMAIN confirms
    BY <1>1
  <2>3. confirms' \in [1..Len(confirms) -> ImportConfirms]
    BY <1>1, <1>9, <2>1
  <2>4. QED
    BY <2>1, <2>2, <2>3, SeqDef
<1>11. UNCHANGED <<patchQueue, importNotes>>
  BY <1>1 DEF tableVars
<1>12. ConfirmsShow'
  <2>1. \A k \in DOMAIN confirms : confirms[k].id \in 1..Len(sessions)
    BY HeardIs
  <2>2. QED
    BY <1>3, <1>9, <1>10, <1>11, <2>1 DEF ImportInv, ConfirmsShow, Undisturbed
<1>13. ConfirmsRecord'
  <2> SUFFICES ASSUME NEW k \in DOMAIN confirms
        PROVE /\ ~(confirms'[k].phase = "gated" /\ ~confirms'[k].overtaken)
              /\ confirms'[k].phase \in {"sent", "gated"} => confirms'[k].answer = "none"
              /\ confirms'[k].answer = "done" => confirms'[k].left = {} \/ confirms'[k].overtaken
    BY <1>10 DEF ConfirmsRecord
  <2>1. CASE k = i
    BY <1>6, <1>7, <1>9, <2>1
  <2>2. CASE k # i
    BY <1>9, <2>2 DEF ImportInv, ConfirmsRecord
  <2>3. QED
    BY <2>1, <2>2
<1>14. \A k \in DOMAIN confirms' : confirms'[k].id <= Heard
  BY <1>9, <1>10, HeardIs
<1>15. \A k \in DOMAIN confirms' : resume.phase = "none" \/ "raced" \in importNotes \/ ~confirms'[k].mine
  BY <1>9, <1>10 DEF ImportInv, ResumeIsAlone
<1>16. resume.phase = "none" \/ "raced" \in importNotes \/ cancelling.phase = "none"
  BY DEF ImportInv, ResumeIsAlone
<1>17. QED
  BY <1>1, <1>2, <1>3, <1>5, <1>10, <1>12, <1>13, <1>14, <1>15, <1>16, ConfirmsMoveKeep

LEMMA CancelKeeps ==
  ASSUME ImportInv, CancelImport \/ ServeCancel
  PROVE  ImportInv'
<1>1. /\ sessions \in Seq(ImportSessions) /\ recorded \in [ImportValues -> {0, 1}] /\ rateKnown \in BOOLEAN
      /\ cancelling \in ImportRequests /\ preview \in ImportPreviews
  BY DEF ImportInv, ImportShapes
<1>2. UNCHANGED <<recorded, rateKnown, tableVars, decided, storageVars, resume, upload, confirms, importNotes>>
      /\ patchQueue' = patchQueue
  BY DEF CancelImport, ServeCancel, serverVars, tableVars
<1>3. /\ sessions' \in Seq(ImportSessions) /\ Len(sessions') = Len(sessions)
      /\ \A k \in 1..Len(sessions) : sessions'[k].rows = sessions[k].rows
  <2>1. sessions' = sessions \/ sessions' = Drop(cancelling.id)
    BY DEF CancelImport, ServeCancel, serverVars
  <2>2. QED
    BY <1>1, <2>1, SessionDropped
<1>4. cancelling' \in ImportRequests
  <2>1. CASE CancelImport
    <3>1. cancelling' = [Idle EXCEPT !.phase = "sent", !.id = preview.id] /\ preview.id \in Nat
      BY <1>1, <2>1 DEF CancelImport, ImportPreviews
    <3>2. QED
      BY <3>1, ImportConstants DEF ImportRequests
  <2>2. CASE ServeCancel
    <3>1. cancelling' = [cancelling EXCEPT !.phase = "answered"]
      BY <2>2 DEF ServeCancel
    <3>2. QED
      BY <1>1, <3>1 DEF ImportRequests
  <2>3. QED
    BY <2>1, <2>2
<1>5. resume.phase = "none" \/ "raced" \in importNotes
  BY DEF ImportInv, ResumeIsAlone, CancelImport, ServeCancel
<1>6. /\ ConfirmsShow' /\ ConfirmsRecord' /\ confirms' \in Seq(ImportConfirms)
      /\ \A i \in DOMAIN confirms' : confirms'[i].id <= Heard
  BY <1>2, <1>3, ConfirmsStand
<1>7. QED
  BY <1>1, <1>2, <1>3, <1>4, <1>5, <1>6, ConfirmsMoveKeep

LEMMA ConfirmAnswerKeeps ==
  ASSUME ImportInv, NEW i \in DOMAIN confirms, ConfirmAnswer(i)
  PROVE  ImportInv'
<1> DEFINE c == confirms[i]
<1>1. /\ confirms' = Pop(i, confirms)
      /\ UNCHANGED <<serverVars, pendingPatchCount, patchQueue, burst, decided, resume, upload, cancelling>>
  BY DEF ConfirmAnswer
<1>2. UNCHANGED <<sessions, recorded, rateKnown>>
  BY <1>1 DEF serverVars
<1>3. /\ preview \in ImportPreviews /\ confirms \in Seq(ImportConfirms) /\ c \in ImportConfirms /\ storedImport \in Nat
      /\ importStep \in {"upload", "preview", "done"}
  BY HeardIs DEF ImportInv, ImportShapes
<1>4. \/ c.mine /\ importStep' = "done" /\ storedImport' = 0 /\ importNotes' = importNotes
      \/ /\ importStep' = importStep /\ storedImport' = storedImport /\ storedDecision' = storedDecision
         /\ importNotes' = importNotes
      \/ /\ importStep' = importStep /\ storedImport' = 0
         /\ importNotes' = IF Resumable THEN importNotes \cup {"ended"} ELSE importNotes
  BY DEF ConfirmAnswer, storageVars
<1>20. /\ ("raced" \in importNotes' <=> "raced" \in importNotes) /\ ("zeroed" \in importNotes' <=> "zeroed" \in importNotes)
      /\ ("late" \in importNotes' <=> "late" \in importNotes) /\ (Undisturbed' <=> Undisturbed)
      /\ ("ended" \notin importNotes' => "ended" \notin importNotes)
  BY <1>4 DEF Undisturbed
<1>5. preview' \in ImportPreviews /\ preview'.id = preview.id /\ preview'.rows = preview.rows
  <2>1. \/ preview' = preview
        \/ c.answer = "collisions" /\ preview' = [preview EXCEPT !.groups = c.refused]
        \/ c.answer = "money" /\ preview' = [preview EXCEPT !.errors = c.refused]
        \/ c.answer = "categories" /\ preview' = [preview EXCEPT !.unfiled = c.refused]
    <3> HIDE DEF c
    <3>1. CASE c.mine /\ c.answer # "done" /\ preview.id # 0
      <4>1. preview' = CASE c.answer = "collisions" -> [preview EXCEPT !.groups = c.refused]
                         [] c.answer = "money"      -> [preview EXCEPT !.errors = c.refused]
                         [] c.answer = "categories" -> [preview EXCEPT !.unfiled = c.refused]
                         [] OTHER                   -> preview
        BY <3>1 DEF ConfirmAnswer, c
      <4>2. CASE c.answer = "collisions"
        BY <4>1, <4>2
      <4>3. CASE c.answer = "money"
        BY <4>1, <4>3
      <4>4. CASE c.answer = "categories"
        BY <4>1, <4>4
      <4>5. CASE c.answer \notin {"collisions", "money", "categories"}
        BY <4>1, <4>5
      <4>6. QED
        BY <4>2, <4>3, <4>4, <4>5
    <3>2. CASE ~(c.mine /\ c.answer # "done" /\ preview.id # 0)
      BY <3>2 DEF ConfirmAnswer, c
    <3>3. QED
      BY <3>1, <3>2
  <2>2. /\ c.answer \in {"money", "categories"} => c.refused \subseteq ImportRows
        /\ c.answer = "collisions" => c.refused \subseteq ImportGroups
    BY <1>3 DEF ImportConfirms
  <2> HIDE DEF c
  <2>3. QED
    BY <1>3, <2>1, <2>2 DEF ImportPreviews
<1>6. c.mine => resume.phase = "none" \/ "raced" \in importNotes
  BY DEF ImportInv, ResumeIsAlone
<1> HIDE DEF c
<1>7. /\ confirms' \in Seq(ImportConfirms)
      /\ \A k \in DOMAIN confirms' : \E j \in DOMAIN confirms : confirms'[k] = confirms[j]
  <2>1. /\ Pop(i, confirms) \in Seq(ImportConfirms) /\ Len(Pop(i, confirms)) = Len(confirms) - 1
        /\ \A j \in 1..Len(Pop(i, confirms)) : Pop(i, confirms)[j] = IF j < i THEN confirms[j] ELSE confirms[j + 1]
    BY <1>3, WithoutOne DEF Pop
  <2>2. DOMAIN confirms = 1..Len(confirms) /\ DOMAIN confirms' = 1..Len(confirms') /\ Len(confirms) \in Nat
    BY <1>1, <1>3, <2>1, LenProperties
  <2>3. ASSUME NEW k \in DOMAIN confirms' PROVE \E j \in DOMAIN confirms : confirms'[k] = confirms[j]
    <3>1. k \in DOMAIN confirms /\ k + 1 \in DOMAIN confirms
      BY <1>1, <2>1, <2>2
    <3>2. confirms'[k] = confirms[k] \/ confirms'[k] = confirms[k + 1]
      BY <1>1, <2>1, <2>2
    <3>3. QED
      BY <3>1, <3>2
  <2>4. QED
    BY <1>1, <2>1, <2>3
<1>8. storedImport' \in Nat /\ storedImport' \in 0..Heard
  BY <1>3, <1>4, HeardIs
<1>9. ImportShapes'
  BY <1>1, <1>2, <1>3, <1>4, <1>5, <1>7, <1>8 DEF ImportInv, ImportShapes
<1>10. Heard' = Heard
  BY <1>1, <1>2 DEF Heard
<1>11. ImportIds'
  BY <1>1, <1>4, <1>5, <1>7, <1>8, <1>10 DEF ImportInv, ImportIds
<1>12. UploadIsFresh' /\ LaneIsSerial' /\ PatchesAreCounted'
  BY <1>1, <1>2, <1>20 DEF ImportInv, UploadIsFresh, LaneIsSerial, PatchesAreCounted
<1>13. ResumeIsAlone'
  BY <1>1, <1>2, <1>4, <1>5, <1>6, <1>7, <1>20 DEF ImportInv, ResumeIsAlone, Resumable
<1>14. LaneIsOfPreview'
  BY <1>1, <1>4, <1>5, <1>20 DEF ImportInv, LaneIsOfPreview
<1>15. PreviewIsResumable'
  BY <1>1, <1>4, <1>5, <1>20 DEF ImportInv, PreviewIsResumable, Resumable
<1>16. TableTracks'
  BY <1>1, <1>2, <1>5, <1>20 DEF ImportInv, TableTracks, Awaited
<1>17. ConfirmsShow'
  BY <1>1, <1>2, <1>7, <1>20 DEF ImportInv, ConfirmsShow
<1>18. ConfirmsRecord'
  BY <1>2, <1>7 DEF ImportInv, ConfirmsRecord, AllInsertable
<1>19. QED
  BY <1>9, <1>11, <1>12, <1>13, <1>14, <1>15, <1>16, <1>17, <1>18 DEF ImportInv

(***************************************************************************)
(* Upload, resume, and the end of a session.                               *)
(***************************************************************************)
\* What moves only requests that nothing else hangs on.
LEMMA RequestsKeep ==
  ASSUME ImportInv, UNCHANGED <<serverVars, tableVars, decided, storageVars, confirms, cancelling, importNotes>>,
         resume' \in ImportRequests, upload' \in ImportRequests, Heard' = Heard, resume'.id <= Heard,
         UploadIsFresh', ResumeIsAlone'
  PROVE  ImportInv'
<1>1. UNCHANGED <<sessions, recorded, rateKnown, preview, importStep, pendingPatchCount, patchQueue, burst,
                  storedImport, storedDecision, decided, confirms, cancelling, importNotes>>
  BY DEF serverVars, tableVars, storageVars
<1>2. ImportShapes'
  BY <1>1 DEF ImportInv, ImportShapes
<1>3. ImportIds'
  BY <1>1 DEF ImportInv, ImportIds
<1>4. LaneIsSerial' /\ PatchesAreCounted' /\ LaneIsOfPreview' /\ PreviewIsResumable'
  BY <1>1 DEF ImportInv, LaneIsSerial, PatchesAreCounted, LaneIsOfPreview, PreviewIsResumable
<1>5. TableTracks' /\ ConfirmsShow'
  BY <1>1 DEF ImportInv, TableTracks, Awaited, ConfirmsShow, Undisturbed
<1>6. ConfirmsRecord'
  BY <1>1 DEF ImportInv, ConfirmsRecord, AllInsertable
<1>7. QED
  BY <1>2, <1>3, <1>4, <1>5, <1>6 DEF ImportInv

LEMMA UploadFileKeeps ==
  ASSUME ImportInv, UploadFile
  PROVE  ImportInv'
<1>1. /\ upload.phase = "none" /\ Len(sessions) < MaxUploads /\ upload' = [Idle EXCEPT !.phase = "sent"]
      /\ UNCHANGED <<serverVars, tableVars, decided, storageVars, resume, confirms, cancelling, importNotes>>
  BY DEF UploadFile
<1>2. upload' \in ImportRequests /\ upload'.phase = "sent"
  BY <1>1, ImportConstants DEF ImportRequests
<1>3. Heard' = Heard
  BY <1>1, <1>2 DEF Heard, serverVars
<1>4. UploadIsFresh'
  BY <1>1, <1>2 DEF UploadIsFresh, serverVars
<1>5. ResumeIsAlone'
  BY <1>1 DEF ImportInv, ResumeIsAlone, serverVars, tableVars, storageVars
<1>6. resume' \in ImportRequests /\ resume'.id <= Heard
  BY <1>1 DEF ImportInv, ImportShapes, ImportIds
<1>7. QED
  BY <1>1, <1>2, <1>3, <1>4, <1>5, <1>6, RequestsKeep

LEMMA ServeResumeKeeps ==
  ASSUME ImportInv, ServeResume
  PROVE  ImportInv'
<1>1. /\ resume.phase = "sent"
      /\ UNCHANGED <<serverVars, tableVars, decided, storageVars, upload, confirms, cancelling, importNotes>>
  BY DEF ServeResume
<1>2. UNCHANGED <<sessions, preview, importStep, patchQueue, storedImport>>
  BY <1>1 DEF serverVars, tableVars, storageVars
<1>3. resume \in ImportRequests /\ upload \in ImportRequests /\ resume.id \in Nat /\ resume.id <= Heard
  BY DEF ImportInv, ImportShapes, ImportIds, ImportRequests
<1> DEFINE built == IF Live(resume.id) THEN BuildPreview(resume.id, sessions[resume.id].rows) ELSE NoPreview
           served == [resume EXCEPT !.phase = "answered", !.ok = Live(resume.id), !.fresh = built]
           lost == [resume EXCEPT !.phase = "answered"]
<1>4. Live(resume.id) => /\ resume.id # 0 /\ BuildPreview(resume.id, sessions[resume.id].rows) \in ImportPreviews
                         /\ BuildPreview(resume.id, sessions[resume.id].rows).id = resume.id
                         /\ BuildPreview(resume.id, sessions[resume.id].rows).rows = sessions[resume.id].rows
  <2> SUFFICES ASSUME Live(resume.id)
               PROVE  /\ resume.id # 0 /\ BuildPreview(resume.id, sessions[resume.id].rows) \in ImportPreviews
                      /\ BuildPreview(resume.id, sessions[resume.id].rows).id = resume.id
                      /\ BuildPreview(resume.id, sessions[resume.id].rows).rows = sessions[resume.id].rows
    OBVIOUS
  <2>1. resume.id \in DOMAIN sessions /\ resume.id # 0 /\ sessions[resume.id].rows \in ImportTables
    BY HeardIs DEF Live
  <2>2. QED
    BY <1>3, <2>1, PreviewIsBuilt
<1>5. built \in ImportPreviews /\ Live(resume.id) \in BOOLEAN
      /\ (Live(resume.id) => built.id = resume.id /\ built.rows = sessions[resume.id].rows)
  BY <1>4, ImportConstants DEF Live
<1>6. resume' = served \/ resume' = lost
  <2> HIDE DEF built
  <2>1. built = IF Live(resume.id) THEN BuildPreview(resume.id, sessions[resume.id].rows) ELSE NoPreview
    BY DEF built
  <2>2. QED
    BY <2>1 DEF ServeResume
<1> HIDE DEF built
<1>7. /\ resume' \in ImportRequests /\ resume'.phase = "answered" /\ resume'.id = resume.id
      /\ \/ (resume'.ok <=> Live(resume.id)) /\ resume'.fresh = built
         \/ resume'.ok = resume.ok /\ resume'.fresh = resume.fresh /\ resume' = lost
  <2>1. CASE resume' = served
    BY <1>3, <1>5, <2>1 DEF ImportRequests
  <2>2. CASE resume' = lost
    BY <1>3, <2>2 DEF ImportRequests
  <2>3. QED
    BY <1>6, <2>1, <2>2
<1>8. resume.ok = FALSE
  BY <1>1 DEF ImportInv, ResumeIsAlone
<1>9. resume'.ok => resume'.fresh.id = resume.id /\ resume.id # 0 /\ resume'.fresh.rows = sessions[resume.id].rows
  BY <1>4, <1>5, <1>7, <1>8
<1>10. Heard' = Heard
  BY <1>1, <1>2 DEF Heard
<1>11. UploadIsFresh'
  BY <1>1, <1>2 DEF ImportInv, UploadIsFresh
<1>12. ResumeIsAlone'
  BY <1>1, <1>2, <1>7, <1>9 DEF ImportInv, ResumeIsAlone
<1>13. QED
  BY <1>1, <1>3, <1>7, <1>10, <1>11, <1>12, RequestsKeep

LEMMA ChooseCategoryKeeps ==
  ASSUME ImportInv, ChooseCategory
  PROVE  ImportInv'
<1>1. /\ decided' = TRUE /\ storedDecision' = [id |-> preview.id, decided |-> TRUE]
      /\ UNCHANGED <<sessions, recorded, rateKnown, preview, importStep, pendingPatchCount, patchQueue, burst,
                     storedImport, resume, upload, confirms, cancelling, importNotes>>
  BY DEF ChooseCategory, serverVars, tableVars, requestVars
<1>2. ImportShapes'
  BY <1>1 DEF ImportInv, ImportShapes
<1>3. ImportIds' /\ UploadIsFresh' /\ ResumeIsAlone'
  BY <1>1 DEF ImportInv, ImportIds, Heard, UploadIsFresh, ResumeIsAlone
<1>4. LaneIsSerial' /\ PatchesAreCounted' /\ LaneIsOfPreview'
  BY <1>1 DEF ImportInv, LaneIsSerial, PatchesAreCounted, LaneIsOfPreview
<1>5. PreviewIsResumable'
  BY <1>1 DEF ImportInv, PreviewIsResumable
<1>6. TableTracks' /\ ConfirmsShow'
  BY <1>1 DEF ImportInv, TableTracks, Awaited, ConfirmsShow, Undisturbed
<1>7. ConfirmsRecord'
  BY <1>1 DEF ImportInv, ConfirmsRecord, AllInsertable
<1>8. QED
  BY <1>2, <1>3, <1>4, <1>5, <1>6, <1>7 DEF ImportInv

\* A bulk action is under way only with a patch in the lane.
LEMMA BurstHasPatch ==
  ASSUME ImportInv, PatchesIn(patchQueue) = {}
  PROVE  burst = <<>>
<1>1. \A i \in DOMAIN patchQueue : patchQueue[i].kind \in {"patch", "refresh"}
  BY HeardIs DEF ImportJobs
<1>2. \A i \in DOMAIN patchQueue : patchQueue[i].kind = "refresh" /\ patchQueue[i].field = "value"
  BY <1>1 DEF PatchesIn, ImportInv, LaneIsSerial
<1>3. QED
  BY <1>2 DEF ImportInv, LaneIsSerial

LEMMA ServeUploadKeeps ==
  ASSUME ImportInv, ServeUpload
  PROVE  ImportInv'
<1> DEFINE n == Len(sessions) + 1
           new == [live |-> TRUE, rows |-> FreshRows]
<1>1. /\ upload.phase = "sent" /\ sessions' = Append(sessions, new)
      /\ upload' = [phase |-> "answered", id |-> n, ok |-> TRUE, fresh |-> BuildPreview(n, FreshRows)]
      /\ UNCHANGED <<recorded, rateKnown, preview, importStep, pendingPatchCount, patchQueue, burst, decided,
                     storedImport, storedDecision, resume, confirms, cancelling, importNotes>>
  BY DEF ServeUpload, tableVars, storageVars
<1>2. new \in ImportSessions /\ new.rows = FreshRows
  BY ImportConstants DEF ImportSessions
<1>3. /\ sessions \in Seq(ImportSessions) /\ Len(sessions) \in Nat /\ Len(sessions) < MaxUploads /\ MaxUploads \in Nat
      /\ DOMAIN sessions = 1..Len(sessions)
  BY <1>1, LenProperties, ImportConstants DEF ImportInv, ImportShapes, UploadIsFresh
<1> HIDE DEF new
<1>4. /\ sessions' \in Seq(ImportSessions) /\ Len(sessions') = n /\ sessions'[n] = new
      /\ \A k \in 1..Len(sessions) : sessions'[k] = sessions[k]
  BY <1>1, <1>2, <1>3, AppendedAt
<1>5. BuildPreview(n, FreshRows) \in ImportPreviews /\ BuildPreview(n, FreshRows).id = n
      /\ BuildPreview(n, FreshRows).rows = FreshRows
  BY <1>3, ImportConstants, PreviewIsBuilt
<1>6. /\ upload' \in ImportRequests /\ upload'.phase = "answered" /\ upload'.id = n /\ upload'.fresh.id = n
      /\ upload'.fresh.rows = FreshRows
  BY <1>1, <1>3, <1>5 DEF ImportRequests
<1>7. Len(sessions') <= MaxUploads
  BY <1>3, <1>4
<1>8. ImportShapes'
  BY <1>1, <1>4, <1>6, <1>7 DEF ImportInv, ImportShapes
<1>9. Heard' = Heard
  BY <1>1, <1>3, <1>4, <1>6 DEF Heard
<1>10. ImportIds'
  BY <1>1, <1>9 DEF ImportInv, ImportIds
<1>11. UploadIsFresh'
  BY <1>2, <1>3, <1>4, <1>6 DEF UploadIsFresh
<1>12. ResumeIsAlone'
  <2>1. resume.phase = "answered" /\ resume.ok => resume.id \in 1..Len(sessions)
    BY HeardIs DEF ImportInv, ResumeIsAlone
  <2>2. QED
    BY <1>1, <1>4, <2>1 DEF ImportInv, ResumeIsAlone
<1>13. LaneIsSerial'
  <2>1. \A i \in DOMAIN patchQueue : patchQueue[i].id \in 1..Len(sessions)
    BY HeardIs
  <2>2. QED
    BY <1>1, <1>4, <2>1 DEF ImportInv, LaneIsSerial
<1>14. PatchesAreCounted' /\ LaneIsOfPreview' /\ PreviewIsResumable'
  BY <1>1 DEF ImportInv, PatchesAreCounted, LaneIsOfPreview, PreviewIsResumable
<1>15. TableTracks'
  <2>1. preview.id # 0 => preview.id \in 1..Len(sessions)
    BY HeardIs
  <2>2. QED
    BY <1>1, <1>4, <2>1 DEF ImportInv, TableTracks, Awaited, Undisturbed
<1>16. ConfirmsShow'
  <2>1. \A i \in DOMAIN confirms : confirms[i].id \in 1..Len(sessions)
    BY HeardIs
  <2>2. QED
    BY <1>1, <1>4, <2>1 DEF ImportInv, ConfirmsShow, Undisturbed
<1>17. ConfirmsRecord'
  BY <1>1 DEF ImportInv, ConfirmsRecord, AllInsertable
<1>18. QED
  BY <1>8, <1>10, <1>11, <1>12, <1>13, <1>14, <1>15, <1>16, <1>17 DEF ImportInv

LEMMA UploadAnswerKeeps ==
  ASSUME ImportInv, UploadAnswer
  PROVE  ImportInv'
<1>1. /\ upload.phase = "answered" /\ preview' = upload.fresh /\ importStep' = "preview"
      /\ storedDecision' = [id |-> upload.fresh.id, decided |-> decided'] /\ decided' \in BOOLEAN
      /\ storedImport' = upload.id /\ upload' = Idle
      /\ UNCHANGED <<sessions, recorded, rateKnown, pendingPatchCount, patchQueue, burst, resume, confirms, cancelling>>
  BY DEF UploadAnswer, Show, serverVars
<1>2. /\ importNotes \subseteq importNotes'
      /\ "zeroed" \in importNotes' <=> "zeroed" \in importNotes
      /\ "lostAnswer" \in importNotes' <=> "lostAnswer" \in importNotes
      /\ "raced" \notin importNotes' => /\ "raced" \notin importNotes /\ preview.id = 0 /\ PatchesIn(patchQueue) = {}
                                        /\ confirms = <<>> /\ resume.phase = "none" /\ cancelling.phase = "none"
  BY DEF UploadAnswer
<1>3. /\ upload.id = Len(sessions) /\ upload.id # 0 /\ upload.fresh.id = upload.id
      /\ upload.fresh.rows = FreshRows /\ sessions[upload.id].rows = FreshRows
      /\ upload \in ImportRequests /\ upload.fresh \in ImportPreviews /\ upload.id \in Nat
  BY <1>1 DEF ImportInv, UploadIsFresh, ImportShapes, ImportRequests
<1>4. Len(sessions) \in Nat /\ Heard = Len(sessions) - 1 /\ Heard' = Len(sessions)
  BY <1>1, HeardIs, ImportConstants DEF Heard
<1>5. ImportShapes'
  BY <1>1, <1>3, ImportConstants DEF ImportInv, ImportShapes
<1>6. ImportIds'
  <2>1. /\ resume.id <= Heard'
        /\ \A i \in DOMAIN patchQueue : patchQueue[i].id <= Heard'
        /\ \A i \in DOMAIN burst : burst[i].id <= Heard'
        /\ \A i \in DOMAIN confirms : confirms[i].id <= Heard'
    BY <1>4, HeardIs
  <2>2. preview'.id <= Heard' /\ storedImport' <= Heard' /\ preview'.id # 0
    BY <1>1, <1>3, <1>4
  <2>3. QED
    BY <1>1, <2>1, <2>2 DEF ImportIds
<1>7. UploadIsFresh'
  BY <1>1, ImportConstants DEF UploadIsFresh
<1>8. ResumeIsAlone'
  BY <1>1, <1>2 DEF ImportInv, ResumeIsAlone
<1>9. LaneIsSerial'
  BY <1>1, <1>2 DEF ImportInv, LaneIsSerial
<1>10. PatchesAreCounted'
  BY <1>1, <1>2 DEF ImportInv, PatchesAreCounted
<1>11. "raced" \notin importNotes' => burst = <<>>
  BY <1>2, BurstHasPatch
<1>12. LaneIsOfPreview'
  <2> SUFFICES ASSUME "raced" \notin importNotes'
               PROVE  /\ \A i \in DOMAIN patchQueue : patchQueue[i].kind = "patch" => patchQueue[i].id = preview'.id
                      /\ \A i \in DOMAIN burst : burst[i].id = preview'.id
    BY <1>1 DEF LaneIsOfPreview
  <2>1. DOMAIN burst = {}
    BY <1>11
  <2>2. QED
    BY <1>2, <2>1 DEF PatchesIn
<1>13. PreviewIsResumable'
  BY <1>1, <1>3 DEF PreviewIsResumable
<1>14. TableTracks'
  BY <1>1, <1>3 DEF TableTracks
<1>15. ConfirmsShow'
  BY <1>1, <1>2 DEF ImportInv, ConfirmsShow, Undisturbed
<1>16. ConfirmsRecord'
  BY <1>1 DEF ImportInv, ConfirmsRecord, AllInsertable
<1>17. QED
  BY <1>5, <1>6, <1>7, <1>8, <1>9, <1>10, <1>12, <1>13, <1>14, <1>15, <1>16 DEF ImportInv

LEMMA RemountKeeps ==
  ASSUME ImportInv, ReloadCard \/ ReturnToCard
  PROVE  ImportInv'
<1>1. /\ preview' = NoPreview /\ importStep' = "upload" /\ pendingPatchCount' = 0 /\ patchQueue' = <<>> /\ burst' = <<>>
      /\ decided' = FALSE /\ upload' = Idle /\ cancelling' = Idle
      /\ resume' = IF storedImport = 0 THEN Idle ELSE [Idle EXCEPT !.phase = "sent", !.id = storedImport]
      /\ UNCHANGED <<sessions, recorded, rateKnown, storedImport, storedDecision, importNotes>>
  BY Zenon DEF ReloadCard, ReturnToCard, Remount, serverVars, storageVars
<1>2. /\ DOMAIN confirms' = DOMAIN confirms /\ confirms' \in Seq(ImportConfirms)
      /\ \A j \in DOMAIN confirms :
              /\ confirms'[j].phase = confirms[j].phase /\ confirms'[j].id = confirms[j].id
              /\ confirms'[j].shown = confirms[j].shown /\ confirms'[j].copied = confirms[j].copied
              /\ confirms'[j].answer = confirms[j].answer /\ confirms'[j].left = confirms[j].left
              /\ ~confirms'[j].mine /\ (confirms'[j].edited <=> confirms[j].edited)
              /\ (confirms'[j].overtaken <=> confirms[j].overtaken)
  <2>1. CASE ReloadCard
    BY <2>1, MarkedGone DEF ReloadCard
  <2>2. CASE ReturnToCard
    BY <2>2, MarkedLeft DEF ReturnToCard
  <2>3. QED
    BY <2>1, <2>2
<1>3. storedImport \in Nat
  BY DEF ImportInv, ImportShapes
<1>4. /\ resume' \in ImportRequests /\ resume'.phase \in {"none", "sent"} /\ resume'.id = storedImport
      /\ ~resume'.ok
  BY <1>1, <1>3, ImportConstants DEF ImportRequests
<1>5. DOMAIN patchQueue' = {} /\ DOMAIN burst' = {} /\ PatchesIn(patchQueue)' = {}
  BY <1>1 DEF PatchesIn
<1>6. ImportShapes'
  <2>1. patchQueue' \in Seq(ImportJobs) /\ burst' \in Seq(ImportBursts)
    BY <1>1
  <2>2. QED
    BY <1>1, <1>2, <1>4, <2>1, ImportConstants DEF ImportInv, ImportShapes
<1>7. Heard' = Len(sessions) /\ Heard \in 0..Len(sessions) /\ Len(sessions) \in Nat
  BY <1>1, HeardIs, ImportConstants DEF Heard
<1>8. ImportIds'
  <2>1. storedImport <= Len(sessions) /\ \A i \in DOMAIN confirms : confirms[i].id <= Len(sessions)
    BY <1>7, HeardIs
  <2>2. QED
    BY <1>1, <1>2, <1>4, <1>5, <1>7, <2>1, ImportConstants DEF ImportIds
<1>9. UploadIsFresh'
  BY <1>1, ImportConstants DEF UploadIsFresh
<1>10. ResumeIsAlone'
  BY <1>1, <1>2, <1>4, ImportConstants DEF ResumeIsAlone
<1>11. LaneIsSerial' /\ LaneIsOfPreview'
  BY <1>1, <1>5, ImportConstants DEF LaneIsSerial, LaneIsOfPreview
<1>12. PatchesAreCounted'
  <2>1. Cardinality({}) = 0
    BY FS_EmptySet
  <2>2. Cardinality(PatchesIn(patchQueue)') = 0
    BY <1>5, <2>1
  <2>3. QED
    BY <1>1, <2>2 DEF PatchesAreCounted
<1>13. PreviewIsResumable' /\ TableTracks'
  BY <1>1, ImportConstants DEF PreviewIsResumable, TableTracks
<1>14. ConfirmsShow'
  BY <1>1, <1>2, <1>5 DEF ImportInv, ConfirmsShow, Undisturbed
<1>15. ConfirmsRecord'
  BY <1>1, <1>2 DEF ImportInv, ConfirmsRecord, AllInsertable
<1>16. QED
  BY <1>6, <1>8, <1>9, <1>10, <1>11, <1>12, <1>13, <1>14, <1>15 DEF ImportInv

LEMMA ResumeAnswerKeeps ==
  ASSUME ImportInv, ResumeAnswer
  PROVE  ImportInv'
<1>1. /\ resume.phase = "answered" /\ resume' = Idle
      /\ UNCHANGED <<sessions, recorded, rateKnown, pendingPatchCount, patchQueue, burst, upload, confirms, cancelling,
                     importNotes>>
  BY DEF ResumeAnswer, serverVars
<1>2. /\ resume.ok => /\ preview' = resume.fresh /\ importStep' = "preview" /\ decided' \in BOOLEAN
                      /\ storedDecision' = [id |-> resume.fresh.id, decided |-> decided']
                      /\ storedImport' = storedImport
      /\ ~resume.ok => storedImport' = 0 /\ UNCHANGED <<preview, importStep, decided>>
  BY DEF ResumeAnswer, Show
<1>3. /\ resume \in ImportRequests /\ resume.fresh \in ImportPreviews
      /\ storedImport \in Nat /\ preview \in ImportPreviews /\ importStep \in {"upload", "preview", "done"}
      /\ decided \in BOOLEAN
  BY DEF ImportInv, ImportShapes, ImportRequests
<1>4. resume.ok => resume.fresh.id = resume.id /\ resume.id # 0
  BY <1>1 DEF ImportInv, ResumeIsAlone
<1>5. "raced" \notin importNotes =>
       /\ preview.id = 0 /\ importStep = "upload" /\ patchQueue = <<>>
       /\ "ended" \notin importNotes => storedImport = resume.id
       /\ resume.ok /\ "late" \notin importNotes => resume.fresh.rows = sessions[resume.id].rows
  BY <1>1 DEF ImportInv, ResumeIsAlone
<1>6. ImportShapes'
  <2>1. preview' \in ImportPreviews /\ importStep' \in {"upload", "preview", "done"} /\ decided' \in BOOLEAN
        /\ storedImport' \in Nat
    BY <1>2, <1>3
  <2>2. QED
    BY <1>1, <2>1, ImportConstants DEF ImportInv, ImportShapes
<1>7. Heard' = Heard
  BY <1>1 DEF Heard
<1>8. ImportIds'
  <2>1. Heard \in Nat /\ preview.id <= Heard /\ resume.id <= Heard /\ storedImport <= Heard
    BY HeardIs
  <2>2. preview'.id <= Heard /\ storedImport' <= Heard
    BY <1>2, <1>4, <2>1
  <2>3. importStep' = "preview" => preview'.id # 0
    BY <1>2, <1>4 DEF ImportInv, ImportIds
  <2>4. QED
    BY <1>1, <1>7, <2>1, <2>2, <2>3, ImportConstants DEF ImportInv, ImportIds
<1>9. UploadIsFresh' /\ LaneIsSerial' /\ PatchesAreCounted'
  BY <1>1 DEF ImportInv, UploadIsFresh, LaneIsSerial, PatchesAreCounted
<1>10. ResumeIsAlone'
  BY <1>1, ImportConstants DEF ResumeIsAlone
<1>11. patchQueue = <<>> => DOMAIN patchQueue = {} /\ DOMAIN burst = {} /\ PatchesIn(patchQueue) = {}
  <2> SUFFICES ASSUME patchQueue = <<>> PROVE DOMAIN patchQueue = {} /\ DOMAIN burst = {} /\ PatchesIn(patchQueue) = {}
    OBVIOUS
  <2>1. DOMAIN patchQueue = {}
    OBVIOUS
  <2>2. PatchesIn(patchQueue) = {}
    BY <2>1 DEF PatchesIn
  <2>3. burst = <<>>
    BY <2>2, BurstHasPatch
  <2>4. QED
    BY <2>1, <2>2, <2>3
<1>12. LaneIsOfPreview'
  BY <1>1, <1>2, <1>5, <1>11 DEF LaneIsOfPreview
<1>13. PreviewIsResumable'
  BY <1>1, <1>2, <1>4, <1>5 DEF PreviewIsResumable
<1>14. TableTracks'
  <2> SUFFICES ASSUME Undisturbed', preview'.id # 0, NEW r \in ImportRows
               PROVE  preview'.rows[r] = sessions'[preview'.id].rows[r]
    BY DEF TableTracks
  <2>1. "raced" \notin importNotes /\ "late" \notin importNotes
    BY <1>1 DEF Undisturbed
  <2>2. QED
    BY <1>1, <1>2, <1>4, <1>5, <2>1
<1>15. ConfirmsShow'
  BY <1>1 DEF ImportInv, ConfirmsShow, Undisturbed
<1>16. ConfirmsRecord'
  BY <1>1 DEF ImportInv, ConfirmsRecord, AllInsertable
<1>17. QED
  BY <1>6, <1>8, <1>9, <1>10, <1>12, <1>13, <1>14, <1>15, <1>16 DEF ImportInv

LEMMA ClearKeeps ==
  ASSUME ImportInv, CancelAnswer \/ StartOver
  PROVE  ImportInv'
<1>1. /\ preview' = NoPreview /\ importStep' = "upload" /\ pendingPatchCount' = 0 /\ decided' = FALSE
      /\ importNotes' = IF PatchesIn(patchQueue) # {} THEN importNotes \cup {"zeroed"} ELSE importNotes
      /\ UNCHANGED <<sessions, recorded, rateKnown, patchQueue, burst, resume, upload, confirms>>
      /\ storedImport' \in {0, storedImport} /\ cancelling' \in {Idle, cancelling}
  BY DEF CancelAnswer, StartOver, Clear, serverVars, requestVars
<1>2. resume.phase = "none" \/ "raced" \in importNotes
  BY DEF ImportInv, ResumeIsAlone, CancelAnswer, StartOver
<1>3. storedImport \in 0..Heard /\ storedImport \in Nat /\ cancelling \in ImportRequests /\ Heard \in Nat
      /\ patchQueue \in Seq(ImportJobs)
  BY HeardIs DEF ImportInv, ImportShapes
<1>4. /\ importNotes \subseteq importNotes' /\ ("raced" \in importNotes' <=> "raced" \in importNotes)
      /\ "zeroed" \notin importNotes' => PatchesIn(patchQueue) = {} /\ "zeroed" \notin importNotes
      /\ (Undisturbed' => Undisturbed)
  BY <1>1 DEF Undisturbed
<1>5. ImportShapes'
  <2>1. pendingPatchCount' \in Nat /\ decided' \in BOOLEAN /\ importStep' \in {"upload", "preview", "done"}
    BY <1>1
  <2>2. preview' \in ImportPreviews
    BY <1>1, ImportConstants
  <2>3. cancelling' \in ImportRequests
    BY <1>1, <1>3, ImportConstants
  <2>4. storedImport' \in Nat
    BY <1>1, <1>3
  <2>5. QED
    BY <1>1, <2>1, <2>2, <2>3, <2>4 DEF ImportInv, ImportShapes
<1>6. Heard' = Heard
  BY <1>1 DEF Heard
<1>7. ImportIds'
  BY <1>1, <1>3, <1>6, ImportConstants DEF ImportInv, ImportIds
<1>8. UploadIsFresh' /\ LaneIsSerial'
  BY <1>1 DEF ImportInv, UploadIsFresh, LaneIsSerial
<1>9. ResumeIsAlone'
  BY <1>1, <1>2, <1>4 DEF ImportInv, ResumeIsAlone
<1>10. PatchesAreCounted'
  <2>1. Cardinality(PatchesIn(patchQueue)) \in Nat
        /\ (Cardinality(PatchesIn(patchQueue)) = 0 <=> PatchesIn(patchQueue) = {})
    BY <1>3, PatchesAreFew
  <2>2. QED
    BY <1>1, <1>4, <2>1 DEF PatchesAreCounted
<1>11. LaneIsOfPreview'
  <2> SUFFICES ASSUME "zeroed" \notin importNotes'
               PROVE  /\ \A i \in DOMAIN patchQueue : patchQueue[i].kind # "patch"
                      /\ DOMAIN burst = {}
    BY <1>1, ImportConstants DEF LaneIsOfPreview
  <2>1. burst = <<>>
    BY <1>4, BurstHasPatch
  <2>2. QED
    BY <1>4, <2>1 DEF PatchesIn
<1>12. PreviewIsResumable' /\ TableTracks'
  BY <1>1, ImportConstants DEF PreviewIsResumable, TableTracks
<1>13. ConfirmsShow'
  BY <1>1, <1>4 DEF ImportInv, ConfirmsShow
<1>14. ConfirmsRecord'
  BY <1>1 DEF ImportInv, ConfirmsRecord, AllInsertable
<1>15. QED
  BY <1>5, <1>7, <1>8, <1>9, <1>10, <1>11, <1>12, <1>13, <1>14 DEF ImportInv

(***************************************************************************)
(* The table's edits and the lane.                                         *)
(***************************************************************************)
\* What a job of the table is.
LEMMA PatchJobIs ==
  ASSUME ImportInv, preview.id # 0, NEW field \in {"value", "skip", "bulk"}, NEW r \in ImportRows, NEW to \in RowState
  PROVE  /\ PatchJob(field, r, to) \in ImportJobs /\ PatchJob(field, r, to).kind = "patch"
         /\ PatchJob(field, r, to).field = field /\ PatchJob(field, r, to).id = preview.id
         /\ ~PatchJob(field, r, to).served /\ PatchJob(field, r, to).row = r
<1>1. preview.id \in Nat \ {0} /\ NoPreview \in ImportPreviews
  BY ImportConstants DEF ImportInv, ImportShapes, ImportPreviews
<1> HIDE DEF ImportPreviews, RowState
<1>2. QED
  BY <1>1 DEF PatchJob, ImportJobs

\* An edit joins the lane.
LEMMA EnqueueKeeps ==
  ASSUME ImportInv, importStep = "preview",
         NEW job \in ImportJobs, job.kind = "patch", job.id = preview.id, ~job.served, Enqueue(job),
         \/ burst' = burst
         \/ job.field = "bulk" /\ burst' \in Seq(ImportBursts) /\ \A i \in DOMAIN burst' : burst'[i].id = preview.id,
         UNCHANGED <<sessions, recorded, rateKnown, preview, importStep, decided, storedImport, storedDecision,
                     resume, upload, cancelling, importNotes>>
  PROVE  ImportInv'
<1>1. /\ patchQueue' = Append(patchQueue, job) /\ pendingPatchCount' = pendingPatchCount + 1
      /\ confirms' = [i \in DOMAIN confirms |-> [confirms[i] EXCEPT !.edited = TRUE]]
  BY DEF Enqueue
<1>2. /\ DOMAIN confirms' = DOMAIN confirms /\ confirms' \in Seq(ImportConfirms)
      /\ \A j \in DOMAIN confirms :
              /\ confirms'[j].phase = confirms[j].phase /\ confirms'[j].id = confirms[j].id
              /\ confirms'[j].shown = confirms[j].shown /\ confirms'[j].copied = confirms[j].copied
              /\ confirms'[j].answer = confirms[j].answer /\ confirms'[j].left = confirms[j].left
              /\ (confirms'[j].mine <=> confirms[j].mine) /\ confirms'[j].edited
              /\ (confirms'[j].overtaken <=> confirms[j].overtaken)
  BY <1>1, MarkedEdited
<1>3. patchQueue \in Seq(ImportJobs) /\ Len(patchQueue) \in Nat /\ DOMAIN patchQueue = 1..Len(patchQueue)
      /\ pendingPatchCount \in Nat
  BY LenProperties DEF ImportInv, ImportShapes
<1>4. /\ patchQueue' \in Seq(ImportJobs) /\ Len(patchQueue') = Len(patchQueue) + 1
      /\ patchQueue'[Len(patchQueue) + 1] = job /\ \A k \in 1..Len(patchQueue) : patchQueue'[k] = patchQueue[k]
  BY <1>1, <1>3, AppendedAt
<1>5. DOMAIN patchQueue' = 1..(Len(patchQueue) + 1)
  BY <1>4, LenProperties
<1>6. /\ \A k \in DOMAIN patchQueue' : patchQueue'[k] = job \/ (k \in DOMAIN patchQueue /\ patchQueue'[k] = patchQueue[k])
      /\ \A k \in DOMAIN patchQueue : k \in DOMAIN patchQueue' /\ patchQueue'[k] = patchQueue[k]
      /\ \E k \in DOMAIN patchQueue' : patchQueue'[k] = job
  <2>1. Len(patchQueue) + 1 \in DOMAIN patchQueue'
    BY <1>3, <1>5
  <2>2. \A k \in DOMAIN patchQueue' : k = Len(patchQueue) + 1 \/ k \in DOMAIN patchQueue
    BY <1>3, <1>5
  <2>3. \A k \in DOMAIN patchQueue : k \in DOMAIN patchQueue' /\ patchQueue'[k] = patchQueue[k]
    BY <1>3, <1>4, <1>5
  <2>4. ASSUME NEW k \in DOMAIN patchQueue'
        PROVE  patchQueue'[k] = job \/ (k \in DOMAIN patchQueue /\ patchQueue'[k] = patchQueue[k])
    <3>1. CASE k = Len(patchQueue) + 1
      BY <1>4, <3>1
    <3>2. CASE k \in DOMAIN patchQueue
      BY <2>3, <3>2
    <3>3. QED
      BY <2>2, <3>1, <3>2
  <2>5. \E k \in DOMAIN patchQueue' : patchQueue'[k] = job
    BY <1>4, <2>1
  <2>6. QED
    BY <2>3, <2>4, <2>5
<1>7. ImportShapes'
  <2>1. burst' \in Seq(ImportBursts) /\ pendingPatchCount' \in Nat
    BY <1>1, <1>3 DEF ImportInv, ImportShapes
  <2>2. QED
    BY <1>2, <1>4, <2>1 DEF ImportInv, ImportShapes
<1>8. Heard' = Heard
  BY DEF Heard
<1>9. ImportIds'
  <2>1. preview.id <= Heard /\ \A i \in DOMAIN patchQueue' : patchQueue'[i].id <= Heard
    BY <1>6 DEF ImportInv, ImportIds
  <2>2. QED
    <3>1. \A i \in DOMAIN burst' : burst'[i].id <= Heard
      BY <2>1 DEF ImportInv, ImportIds
    <3>2. QED
      BY <1>2, <1>8, <2>1, <3>1 DEF ImportInv, ImportIds
<1>10. UploadIsFresh'
  BY DEF ImportInv, UploadIsFresh
<1>11. ResumeIsAlone'
  BY DEF ImportInv, ResumeIsAlone
<1>12. LaneIsSerial'
  <2>1. \A i \in DOMAIN patchQueue' :
           /\ patchQueue'[i].served => i = 1
           /\ patchQueue'[i].kind = "refresh" => patchQueue'[i].field = "value"
           /\ patchQueue'[i].served /\ patchQueue'[i].ok =>
                /\ patchQueue'[i].fresh.id = patchQueue'[i].id
                /\ "late" \notin importNotes => patchQueue'[i].fresh.rows = sessions[patchQueue'[i].id].rows
    BY <1>6 DEF ImportInv, LaneIsSerial
  <2>2. burst' # <<>> => \E i \in DOMAIN patchQueue' : patchQueue'[i].field = "bulk"
    <3>1. CASE burst' = burst
      <4>1. burst # <<>> => \E i \in DOMAIN patchQueue : patchQueue[i].field = "bulk"
        BY DEF ImportInv, LaneIsSerial
      <4>2. QED
        BY <1>6, <3>1, <4>1
    <3>2. CASE job.field = "bulk"
      BY <1>6, <3>2
    <3>3. QED
      BY <3>1, <3>2
  <2>3. QED
    BY <2>1, <2>2 DEF LaneIsSerial
<1>13. PatchesAreCounted'
  <2>1. Cardinality(PatchesIn(patchQueue)) \in Nat /\ Cardinality(PatchesIn(patchQueue)') = Cardinality(PatchesIn(patchQueue)) + 1
    <3>1. Cardinality(PatchesIn(Append(patchQueue, job))) = Cardinality(PatchesIn(patchQueue)) + 1
      BY <1>3, PatchAppended
    <3>2. PatchesIn(patchQueue)' = PatchesIn(Append(patchQueue, job))
      BY <1>1 DEF PatchesIn
    <3>3. QED
      BY <1>3, <3>1, <3>2, PatchesAreFew
  <2>2. QED
    BY <1>1, <1>3, <2>1 DEF ImportInv, PatchesAreCounted
<1>14. LaneIsOfPreview'
  BY <1>6 DEF ImportInv, LaneIsOfPreview
<1>15. PreviewIsResumable'
  BY DEF ImportInv, PreviewIsResumable
<1>16. TableTracks'
  <2>1. \A r : Awaited(r) => Awaited(r)'
    BY <1>6 DEF Awaited
  <2>2. QED
    BY <2>1 DEF ImportInv, TableTracks, Undisturbed
<1>17. ConfirmsShow'
  BY <1>2 DEF ImportInv, ConfirmsShow
<1>18. ConfirmsRecord'
  BY <1>2 DEF ImportInv, ConfirmsRecord, AllInsertable
<1>19. QED
  BY <1>7, <1>9, <1>10, <1>11, <1>12, <1>13, <1>14, <1>15, <1>16, <1>17, <1>18 DEF ImportInv

LEMMA EditsKeep ==
  ASSUME ImportInv, NEW r \in ImportRows, CommitEdit(r) \/ ToggleSkip(r)
  PROVE  ImportInv'
<1>1. /\ importStep = "preview" /\ preview.id # 0
      /\ UNCHANGED <<sessions, recorded, rateKnown, preview, importStep, burst, decided, storedImport, storedDecision,
                     resume, upload, cancelling, importNotes>>
  BY DEF CommitEdit, ToggleSkip, serverVars, storageVars
<1>2. preview.rows[r] \in RowState
  BY DEF ImportInv, ImportShapes, ImportPreviews, ImportTables
<1>3. CASE CommitEdit(r)
  <2>1. PICK v \in ImportValues : Enqueue(PatchJob("value", r, [preview.rows[r] EXCEPT !.value = v]))
    BY <1>3 DEF CommitEdit
  <2> DEFINE to == [preview.rows[r] EXCEPT !.value = v]
             job == PatchJob("value", r, to)
  <2>2. to \in RowState
    BY <1>2 DEF RowState
  <2> HIDE DEF to
  <2>3. job \in ImportJobs /\ job.kind = "patch" /\ job.id = preview.id /\ ~job.served
    BY <1>1, <2>2, PatchJobIs
  <2>4. Enqueue(job)
    BY <2>1 DEF to
  <2> HIDE DEF job
  <2>5. QED
    BY <1>1, <2>3, <2>4, EnqueueKeeps
<1>4. CASE ToggleSkip(r)
  <2> DEFINE to == [preview.rows[r] EXCEPT !.skip = ~@]
             job == PatchJob("skip", r, to)
  <2>2. to \in RowState
    BY <1>2 DEF RowState
  <2>4. Enqueue(job)
    BY <1>4 DEF ToggleSkip
  <2> HIDE DEF to
  <2>3. job \in ImportJobs /\ job.kind = "patch" /\ job.id = preview.id /\ ~job.served
    BY <1>1, <2>2, PatchJobIs
  <2> HIDE DEF job
  <2>5. QED
    BY <1>1, <2>3, <2>4, EnqueueKeeps
<1>5. QED
  BY <1>3, <1>4

LEMMA SkipAllRowsKeeps ==
  ASSUME ImportInv, SkipAllRows
  PROVE  ImportInv'
<1>1. /\ importStep = "preview"
      /\ UNCHANGED <<sessions, recorded, rateKnown, preview, importStep, decided, storedImport, storedDecision,
                     resume, upload, cancelling, importNotes>>
  BY DEF SkipAllRows, BulkEnabled, serverVars, storageVars
<1>2. preview.id # 0
  BY <1>1 DEF ImportInv, ImportIds
<1>3. preview \in ImportPreviews
  BY DEF ImportInv, ImportShapes
<1> DEFINE job(r) == PatchJob("bulk", r, [preview.rows[r] EXCEPT !.skip = TRUE])
<1>4. PICK bar \in SkipBars : \E rows \in InTableOrder(bar) :
        Enqueue(Head([i \in DOMAIN rows |-> job(rows[i])])) /\ burst' = Tail([i \in DOMAIN rows |-> job(rows[i])])
  BY DEF SkipAllRows
<1>5. PICK rows \in InTableOrder(bar) :
        Enqueue(Head([i \in DOMAIN rows |-> job(rows[i])])) /\ burst' = Tail([i \in DOMAIN rows |-> job(rows[i])])
  BY <1>4
<1>6. bar \subseteq ImportRows /\ bar # {}
  <2>1. CASE bar \in preview.groups
    BY <1>3, <2>1 DEF ImportPreviews, ImportGroups
  <2>2. CASE bar \in {BlockedRows} \ {{}}
    BY <1>3, <2>2 DEF ImportPreviews, BlockedRows
  <2>3. QED
    BY <2>1, <2>2 DEF SkipBars
<1>7. Cardinality(bar) \in Nat \ {0} /\ rows \in [1..Cardinality(bar) -> bar]
  <2>1. IsFiniteSet(bar)
    BY <1>6, ImportConstants, FS_Subset
  <2>2. QED
    BY <1>6, <2>1, FS_CardinalityType, FS_EmptySet DEF InTableOrder
<1>8. \A r \in ImportRows : /\ job(r) \in ImportJobs /\ job(r).kind = "patch" /\ job(r).field = "bulk"
                            /\ job(r).id = preview.id /\ ~job(r).served
  <2> SUFFICES ASSUME NEW r \in ImportRows
               PROVE  /\ job(r) \in ImportJobs /\ job(r).kind = "patch" /\ job(r).field = "bulk"
                      /\ job(r).id = preview.id /\ ~job(r).served
    OBVIOUS
  <2> DEFINE to == [preview.rows[r] EXCEPT !.skip = TRUE]
  <2>1. to \in RowState
    BY <1>3 DEF ImportPreviews, ImportTables, RowState
  <2> HIDE DEF to
  <2>2. /\ PatchJob("bulk", r, to) \in ImportJobs /\ PatchJob("bulk", r, to).kind = "patch"
        /\ PatchJob("bulk", r, to).field = "bulk" /\ PatchJob("bulk", r, to).id = preview.id
        /\ ~PatchJob("bulk", r, to).served
    BY <1>2, <2>1, PatchJobIs
  <2>3. QED
    BY <2>2 DEF to
<1> HIDE DEF job
<1> DEFINE jobs == [i \in DOMAIN rows |-> job(rows[i])]
           burstJobs == {j \in ImportBursts : j.id = preview.id}
<1>9. \A i \in 1..Cardinality(bar) : rows[i] \in ImportRows
  BY <1>6, <1>7
<1>10. \A i \in 1..Cardinality(bar) : job(rows[i]) \in burstJobs
  BY <1>8, <1>9 DEF ImportBursts
<1>11. jobs \in [1..Cardinality(bar) -> burstJobs] /\ Cardinality(bar) \in Nat \ {0}
  BY <1>7, <1>10
<1>12. Enqueue(Head(jobs)) /\ burst' = Tail(jobs)
  BY <1>5
<1> HIDE DEF jobs, burstJobs
<1>13. jobs \in Seq(burstJobs) /\ Len(jobs) = Cardinality(bar)
  <2>1. jobs \in Seq(burstJobs)
    BY <1>11, SeqDef
  <2>2. DOMAIN jobs = 1..Len(jobs) /\ Len(jobs) \in Nat
    BY <2>1, LenProperties
  <2>3. DOMAIN jobs = 1..Cardinality(bar)
    BY <1>11
  <2>4. QED
    BY <1>11, <2>1, <2>2, <2>3
<1>14. Head(jobs) \in burstJobs /\ Tail(jobs) \in Seq(burstJobs)
  <2>1. jobs # <<>>
    BY <1>11, <1>13
  <2>2. QED
    BY <1>13, <2>1, HeadTailProperties
<1>15. burst' \in Seq(ImportBursts) /\ \A i \in DOMAIN burst' : burst'[i].id = preview.id
  <2>1. Len(burst') \in Nat /\ DOMAIN burst' = 1..Len(burst') /\ \A i \in DOMAIN burst' : burst'[i] \in burstJobs
    BY <1>12, <1>14, LenProperties, ElementOfSeq
  <2>2. burst' \in [1..Len(burst') -> burstJobs]
    BY <1>12, <1>14, LenProperties
  <2>3. burst' \in [1..Len(burst') -> ImportBursts]
    BY <2>1, <2>2 DEF burstJobs
  <2>4. burst' \in Seq(ImportBursts)
    BY <2>1, <2>3, SeqDef
  <2>5. QED
    BY <2>1, <2>4 DEF burstJobs
<1>16. Head(jobs) \in ImportJobs /\ Head(jobs).kind = "patch" /\ Head(jobs).field = "bulk"
       /\ Head(jobs).id = preview.id /\ ~Head(jobs).served
  BY <1>14 DEF burstJobs, ImportBursts
<1>17. QED
  BY <1>1, <1>12, <1>15, <1>16, EnqueueKeeps

\* What the currency list's change asks of the lane.
LEMMA RefreshSessionKeeps ==
  ASSUME ImportInv, RefreshSession
  PROVE  ImportInv'
<1> DEFINE plain == PatchJob("value", 1, preview.rows[1])
           job == [plain EXCEPT !.kind = "refresh"]
<1>1. UNCHANGED <<sessions, recorded, rateKnown, preview, importStep, pendingPatchCount, burst, decided, storedImport,
                  storedDecision, resume, upload, confirms, cancelling, importNotes>>
  BY DEF RefreshSession, serverVars, storageVars, requestVars
<1>2. patchQueue' = IF preview.id = 0 THEN patchQueue ELSE Append(patchQueue, job)
  BY DEF RefreshSession
<1>3. patchQueue \in Seq(ImportJobs) /\ Len(patchQueue) \in Nat /\ DOMAIN patchQueue = 1..Len(patchQueue)
      /\ preview.id \in Nat /\ preview.id <= Heard
  BY LenProperties DEF ImportInv, ImportShapes, ImportPreviews, ImportIds
<1>4. preview.id # 0 => job \in ImportJobs /\ job.kind = "refresh" /\ job.field = "value" /\ job.id = preview.id /\ ~job.served
  <2> SUFFICES ASSUME preview.id # 0
               PROVE  job \in ImportJobs /\ job.kind = "refresh" /\ job.field = "value" /\ job.id = preview.id /\ ~job.served
    OBVIOUS
  <2>1. 1 \in ImportRows /\ preview.rows[1] \in RowState
    BY ImportConstants DEF ImportInv, ImportShapes, ImportPreviews, ImportTables
  <2>2. plain \in ImportJobs /\ plain.field = "value" /\ plain.id = preview.id /\ ~plain.served
    BY <2>1, PatchJobIs
  <2> HIDE DEF plain
  <2>3. QED
    BY <2>2 DEF ImportJobs
<1> HIDE DEF job
<1>5. /\ patchQueue' \in Seq(ImportJobs)
      /\ \A k \in DOMAIN patchQueue' :
            \/ patchQueue'[k] = job /\ preview.id # 0
            \/ k \in DOMAIN patchQueue /\ patchQueue'[k] = patchQueue[k]
      /\ \A k \in DOMAIN patchQueue : k \in DOMAIN patchQueue' /\ patchQueue'[k] = patchQueue[k]
      /\ PatchesIn(patchQueue)' = PatchesIn(patchQueue)
  <2>1. CASE preview.id = 0
    <3>1. patchQueue' = patchQueue
      BY <1>2, <2>1
    <3>2. QED
      BY <1>3, <3>1 DEF PatchesIn
  <2>2. CASE preview.id # 0
    <3>1. patchQueue' = Append(patchQueue, job) /\ job \in ImportJobs /\ job.kind # "patch"
      BY <1>2, <1>4, <2>2
    <3>2. /\ patchQueue' \in Seq(ImportJobs) /\ Len(patchQueue') = Len(patchQueue) + 1
          /\ patchQueue'[Len(patchQueue) + 1] = job /\ \A k \in 1..Len(patchQueue) : patchQueue'[k] = patchQueue[k]
      BY <1>3, <3>1, AppendedAt
    <3>3. DOMAIN patchQueue' = 1..(Len(patchQueue) + 1)
      BY <3>2, LenProperties
    <3>4. \A k \in DOMAIN patchQueue' : k = Len(patchQueue) + 1 \/ k \in DOMAIN patchQueue
      BY <1>3, <3>3
    <3>5. \A k \in DOMAIN patchQueue : k \in DOMAIN patchQueue' /\ patchQueue'[k] = patchQueue[k]
      BY <1>3, <3>2, <3>3
    <3>6. PatchesIn(Append(patchQueue, job)) = PatchesIn(patchQueue)
      BY <1>3, <3>1, PatchAppended
    <3>7. PatchesIn(patchQueue)' = PatchesIn(Append(patchQueue, job))
      BY <3>1 DEF PatchesIn
    <3>8. QED
      BY <2>2, <3>2, <3>4, <3>5, <3>6, <3>7
  <2>3. QED
    BY <2>1, <2>2
<1>6. ImportShapes'
  BY <1>1, <1>5 DEF ImportInv, ImportShapes
<1>7. Heard' = Heard
  BY <1>1 DEF Heard
<1>8. ImportIds'
  <2>1. \A i \in DOMAIN patchQueue' : patchQueue'[i].id <= Heard
    BY <1>3, <1>4, <1>5 DEF ImportInv, ImportIds
  <2>2. QED
    BY <1>1, <1>7, <2>1 DEF ImportInv, ImportIds
<1>9. UploadIsFresh'
  BY <1>1 DEF ImportInv, UploadIsFresh
<1>10. ResumeIsAlone'
  BY <1>1, <1>2 DEF ImportInv, ResumeIsAlone
<1>11. LaneIsSerial'
  <2>1. \A i \in DOMAIN patchQueue' :
           /\ patchQueue'[i].served => i = 1
           /\ patchQueue'[i].kind = "refresh" => patchQueue'[i].field = "value"
           /\ patchQueue'[i].served /\ patchQueue'[i].ok =>
                /\ patchQueue'[i].fresh.id = patchQueue'[i].id
                /\ "late" \notin importNotes => patchQueue'[i].fresh.rows = sessions[patchQueue'[i].id].rows
    BY <1>4, <1>5 DEF ImportInv, LaneIsSerial
  <2>2. burst # <<>> => \E i \in DOMAIN patchQueue' : patchQueue'[i].field = "bulk"
    <3>1. burst # <<>> => \E i \in DOMAIN patchQueue : patchQueue[i].field = "bulk"
      BY DEF ImportInv, LaneIsSerial
    <3>2. QED
      BY <1>5, <3>1
  <2>3. QED
    BY <1>1, <2>1, <2>2 DEF LaneIsSerial
<1>12. PatchesAreCounted'
  BY <1>1, <1>5 DEF ImportInv, PatchesAreCounted
<1>13. LaneIsOfPreview'
  BY <1>1, <1>4, <1>5 DEF ImportInv, LaneIsOfPreview
<1>14. PreviewIsResumable'
  BY <1>1 DEF ImportInv, PreviewIsResumable
<1>15. TableTracks'
  <2>1. \A r : Awaited(r) => Awaited(r)'
    BY <1>5 DEF Awaited
  <2>2. QED
    BY <1>1, <2>1 DEF ImportInv, TableTracks, Undisturbed
<1>16. ConfirmsShow'
  BY <1>1, <1>5 DEF ImportInv, ConfirmsShow, Undisturbed
<1>17. ConfirmsRecord'
  BY <1>1 DEF ImportInv, ConfirmsRecord, AllInsertable
<1>18. QED
  BY <1>6, <1>8, <1>9, <1>10, <1>11, <1>12, <1>13, <1>14, <1>15, <1>16, <1>17 DEF ImportInv

\* What the lane's head finds at the server.
LEMMA ServedKeeps ==
  ASSUME ImportInv, 1 \in DOMAIN patchQueue, ~patchQueue[1].served,
         NEW ok \in BOOLEAN, NEW fresh \in ImportPreviews,
         patchQueue' = JobAnswered(patchQueue, 1, ok, fresh),
         sessions' \in Seq(ImportSessions), Len(sessions') = Len(sessions),
         \A k \in 1..Len(sessions) : k # patchQueue[1].id => sessions'[k] = sessions[k],
         ok => fresh.id = patchQueue[1].id /\ fresh.rows = sessions'[patchQueue[1].id].rows,
         patchQueue[1].kind # "patch" => sessions' = sessions,
         \/ sessions' = sessions
         \/ "lostAnswer" \in importNotes'
         \/ ok /\ \A r \in ImportRows : r # patchQueue[1].row =>
                   sessions'[patchQueue[1].id].rows[r] = sessions[patchQueue[1].id].rows[r],
         importNotes' \in {importNotes, importNotes \cup {"lostAnswer"}},
         UNCHANGED <<recorded, rateKnown, preview, importStep, pendingPatchCount, burst, decided, storedImport,
                     storedDecision, resume, upload, confirms, cancelling>>
  PROVE  ImportInv'
<1> DEFINE job == patchQueue[1]
<1>1. patchQueue \in Seq(ImportJobs) /\ DOMAIN patchQueue = 1..Len(patchQueue) /\ Len(sessions) \in Nat
      /\ job.id \in 1..Heard /\ Heard \in 0..Len(sessions) /\ job \in ImportJobs
  BY HeardIs DEF ImportInv, ImportShapes
<1>2. /\ patchQueue' \in Seq(ImportJobs) /\ DOMAIN patchQueue' = DOMAIN patchQueue
      /\ PatchesIn(patchQueue)' = PatchesIn(patchQueue)
      /\ \A j \in DOMAIN patchQueue : j # 1 => patchQueue'[j] = patchQueue[j]
      /\ patchQueue'[1].kind = job.kind /\ patchQueue'[1].field = job.field /\ patchQueue'[1].id = job.id
      /\ patchQueue'[1].row = job.row
      /\ patchQueue'[1].served /\ (patchQueue'[1].ok <=> ok) /\ patchQueue'[1].fresh = fresh
  <2>1. \A p : p = JobAnswered(patchQueue, 1, ok, fresh) =>
         /\ p \in Seq(ImportJobs) /\ Len(p) = Len(patchQueue) /\ DOMAIN p = DOMAIN patchQueue
         /\ PatchesIn(p) = PatchesIn(patchQueue)
         /\ \A j \in DOMAIN patchQueue : j # 1 => p[j] = patchQueue[j]
         /\ p[1].kind = job.kind /\ p[1].field = job.field /\ p[1].id = job.id /\ p[1].row = job.row
         /\ p[1].served /\ (p[1].ok <=> ok) /\ p[1].fresh = fresh
    BY <1>1, JobServed, SMTT(20)
  <2>2. PatchesIn(patchQueue)' = PatchesIn(patchQueue')
    BY DEF PatchesIn
  <2>3. QED
    BY <2>1, <2>2
<1>3. /\ ("raced" \in importNotes' <=> "raced" \in importNotes) /\ ("zeroed" \in importNotes' <=> "zeroed" \in importNotes)
      /\ ("late" \in importNotes' <=> "late" \in importNotes) /\ ("ended" \in importNotes' <=> "ended" \in importNotes)
      /\ Undisturbed' => Undisturbed /\ "lostAnswer" \notin importNotes'
  BY DEF Undisturbed
<1>4. /\ \A j \in DOMAIN patchQueue : patchQueue'[j].kind = patchQueue[j].kind /\ patchQueue'[j].id = patchQueue[j].id
                                      /\ patchQueue'[j].field = patchQueue[j].field
  BY <1>2
<1>5. ImportShapes'
  BY <1>2 DEF ImportInv, ImportShapes
<1>6. Heard' = Heard
  BY DEF Heard
<1>7. ImportIds'
  BY <1>2, <1>4, <1>6 DEF ImportInv, ImportIds
<1>8. UploadIsFresh'
  <2>1. upload.phase = "answered" => Len(sessions) \in 1..Len(sessions) /\ job.id # Len(sessions)
    BY <1>1 DEF ImportInv, UploadIsFresh, Heard
  <2>2. QED
    BY <2>1 DEF ImportInv, UploadIsFresh
<1>9. ResumeIsAlone'
  <2>1. patchQueue # <<>>
    OBVIOUS
  <2>2. QED
    BY <1>3, <2>1 DEF ImportInv, ResumeIsAlone
<1>10. \A j \in DOMAIN patchQueue : j # 1 => ~patchQueue[j].served
  BY DEF ImportInv, LaneIsSerial
<1>11. LaneIsSerial'
  <2>1. \A i \in DOMAIN patchQueue' :
           /\ patchQueue'[i].served => i = 1
           /\ patchQueue'[i].kind = "refresh" => patchQueue'[i].field = "value"
           /\ patchQueue'[i].served /\ patchQueue'[i].ok =>
                /\ patchQueue'[i].fresh.id = patchQueue'[i].id
                /\ patchQueue'[i].fresh.rows = sessions'[patchQueue'[i].id].rows
    BY <1>2, <1>4, <1>10 DEF ImportInv, LaneIsSerial
  <2>2. burst # <<>> => \E i \in DOMAIN patchQueue' : patchQueue'[i].field = "bulk"
    BY <1>2, <1>4 DEF ImportInv, LaneIsSerial
  <2>3. QED
    BY <2>1, <2>2 DEF LaneIsSerial
<1>12. PatchesAreCounted'
  BY <1>2, <1>3 DEF ImportInv, PatchesAreCounted
<1>13. LaneIsOfPreview'
  BY <1>2, <1>3, <1>4 DEF ImportInv, LaneIsOfPreview
<1>14. PreviewIsResumable'
  BY <1>3 DEF ImportInv, PreviewIsResumable
<1>15. TableTracks'
  <2> SUFFICES ASSUME Undisturbed', preview.id # 0, NEW r \in ImportRows
               PROVE  Awaited(r)' \/ preview.rows[r] = sessions'[preview.id].rows[r]
    BY DEF TableTracks
  <2>1. ~Awaited(r)
    BY <1>10 DEF Awaited
  <2>2. preview.rows[r] = sessions[preview.id].rows[r] /\ preview.id \in 1..Len(sessions)
    BY <1>3, <2>1, HeardIs DEF ImportInv, TableTracks
  <2>3. CASE sessions' = sessions
    BY <2>2, <2>3
  <2>4. CASE preview.id # job.id
    BY <2>2, <2>4
  <2>5. CASE preview.id = job.id /\ sessions' # sessions
    <3>1. /\ ok /\ job.kind = "patch"
          /\ r # job.row => sessions'[job.id].rows[r] = sessions[job.id].rows[r]
      BY <1>1, <1>3, <2>5 DEF ImportJobs
    <3>2. r = job.row => Awaited(r)'
      BY <1>2, <3>1 DEF Awaited
    <3>3. QED
      BY <2>2, <2>5, <3>1, <3>2
  <2>6. QED
    BY <2>3, <2>4, <2>5
<1>16. ConfirmsShow'
  <2>1. ASSUME NEW i \in DOMAIN confirms, Undisturbed', ~confirms[i].edited
        PROVE  sessions' = sessions
    <3>1. 1 \notin PatchesIn(patchQueue)
      BY <1>3, <2>1 DEF ImportInv, ConfirmsShow
    <3>2. QED
      BY <3>1 DEF PatchesIn
  <2>2. \A i \in DOMAIN confirms :
          /\ confirms[i].phase = "sent" => confirms[i].copied = confirms[i].shown
          /\ Undisturbed /\ ~confirms[i].edited =>
               /\ confirms[i].copied = confirms[i].shown /\ PatchesIn(patchQueue) = {}
               /\ confirms[i].phase = "sent" => sessions[confirms[i].id].rows = confirms[i].shown
    BY DEF ImportInv, ConfirmsShow
  <2>3. ASSUME NEW i \in DOMAIN confirms, Undisturbed', ~confirms[i].edited
        PROVE  /\ confirms[i].copied = confirms[i].shown /\ PatchesIn(patchQueue)' = {}
               /\ confirms[i].phase = "sent" => sessions'[confirms[i].id].rows = confirms[i].shown
    BY <1>2, <1>3, <2>1, <2>2, <2>3
  <2>4. QED
    BY <2>2, <2>3 DEF ConfirmsShow
<1>17. ConfirmsRecord'
  BY DEF ImportInv, ConfirmsRecord, AllInsertable
<1>18. QED
  BY <1>5, <1>7, <1>8, <1>9, <1>11, <1>12, <1>13, <1>14, <1>15, <1>16, <1>17 DEF ImportInv

LEMMA LaneServeKeeps ==
  ASSUME ImportInv, LaneServe
  PROVE  ImportInv'
<1>1. 1 \in DOMAIN patchQueue /\ (ServePatch(1) \/ ServeRefresh(1))
  BY DEF LaneServe, Sendable
<1> DEFINE job == patchQueue[1]
           rows == sessions[job.id].rows
           row == IF job.field = "value" THEN [rows[job.row] EXCEPT !.value = job.to.value]
                                         ELSE [rows[job.row] EXCEPT !.skip = job.to.skip]
           patched == [rows EXCEPT ![job.row] = row]
           edited == [sessions EXCEPT ![job.id].rows = patched]
<1>2. /\ job \in ImportJobs /\ job.id \in DOMAIN sessions /\ rows \in ImportTables /\ sessions[job.id] \in ImportSessions
      /\ job.id \in Nat /\ sessions \in Seq(ImportSessions) /\ DOMAIN sessions = 1..Len(sessions)
  <2>1. job \in ImportJobs /\ job.id \in 1..Heard /\ Heard \in 0..Len(sessions) /\ Len(sessions) \in Nat
        /\ DOMAIN sessions = 1..Len(sessions)
    BY <1>1, HeardIs
  <2>2. job.id \in DOMAIN sessions /\ job.id \in Nat
    BY <2>1
  <2>3. QED
    BY <2>1, <2>2, HeardIs DEF ImportInv, ImportShapes
<1>3. CASE ServePatch(1)
  <2>1. /\ job.kind = "patch" /\ ~job.served
        /\ UNCHANGED <<recorded, rateKnown, preview, importStep, pendingPatchCount, burst, decided, storedImport,
                       storedDecision, resume, upload, confirms, cancelling>>
    BY <1>3 DEF ServePatch, storageVars, requestVars
  <2>2. row \in RowState
    <3>1. rows[job.row] \in RowState /\ job.to \in RowState
      BY <1>2 DEF ImportTables, ImportJobs
    <3>2. QED
      BY <3>1 DEF RowState
  <2>3. patched \in ImportTables /\ \A r \in ImportRows : r # job.row => patched[r] = rows[r]
    <3> HIDE DEF row, rows
    <3>1. QED
      BY <1>2, <2>2 DEF ImportTables
  <2>4. PICK new : new = patched
    OBVIOUS
  <2>5. \/ /\ sessions' = [sessions EXCEPT ![job.id].rows = new] /\ importNotes' = importNotes
           /\ patchQueue' = JobAnswered(patchQueue, 1, TRUE, BuildPreview(job.id, new))
        \/ /\ sessions' = [sessions EXCEPT ![job.id].rows = new] /\ importNotes' = importNotes \cup {"lostAnswer"}
           /\ patchQueue' = JobAnswered(patchQueue, 1, FALSE, NoPreview)
        \/ /\ sessions' = sessions /\ importNotes' = importNotes
           /\ patchQueue' = JobAnswered(patchQueue, 1, FALSE, NoPreview)
    BY <1>3, <2>4 DEF ServePatch, Patched, JobAnswered
  <2>6. new \in ImportTables /\ \A r \in ImportRows : r # job.row => new[r] = rows[r]
    BY <2>3, <2>4
  <2> HIDE DEF patched
  <2>7. sessions' = [sessions EXCEPT ![job.id].rows = new] =>
          /\ sessions' \in Seq(ImportSessions) /\ Len(sessions') = Len(sessions)
          /\ \A k \in 1..Len(sessions) : k # job.id => sessions'[k] = sessions[k]
          /\ sessions'[job.id].rows = new
    <3> SUFFICES ASSUME sessions' = [sessions EXCEPT ![job.id].rows = new]
                 PROVE  /\ sessions' \in Seq(ImportSessions) /\ Len(sessions') = Len(sessions)
                        /\ \A k \in 1..Len(sessions) : k # job.id => sessions'[k] = sessions[k]
                        /\ sessions'[job.id].rows = new
      OBVIOUS
    <3> DEFINE h == [sessions[job.id] EXCEPT !.rows = new]
    <3>1. h \in ImportSessions /\ h.rows = new
      <4> HIDE DEF ImportTables
      <4>1. QED
        BY <1>2, <2>6 DEF ImportSessions
    <3>2. sessions' = [sessions EXCEPT ![job.id] = h]
      BY <1>2
    <3> HIDE DEF h
    <3>3. /\ sessions' \in Seq(ImportSessions) /\ Len(sessions') = Len(sessions)
          /\ \A k \in 1..Len(sessions) : sessions'[k] = IF k = job.id THEN h ELSE sessions[k]
      BY <1>2, <3>1, <3>2, ExceptSeq
    <3>4. QED
      BY <1>2, <3>1, <3>3
  <2>8. /\ BuildPreview(job.id, new) \in ImportPreviews /\ BuildPreview(job.id, new).id = job.id
        /\ BuildPreview(job.id, new).rows = new /\ NoPreview \in ImportPreviews
    BY <1>2, <2>6, PreviewIsBuilt, ImportConstants
  <2>9. CASE /\ sessions' = [sessions EXCEPT ![job.id].rows = new] /\ importNotes' = importNotes
             /\ patchQueue' = JobAnswered(patchQueue, 1, TRUE, BuildPreview(job.id, new))
    BY <1>1, <2>1, <2>6, <2>7, <2>8, <2>9, ServedKeeps
  <2>10. CASE /\ sessions' = [sessions EXCEPT ![job.id].rows = new] /\ importNotes' = importNotes \cup {"lostAnswer"}
              /\ patchQueue' = JobAnswered(patchQueue, 1, FALSE, NoPreview)
    BY <1>1, <2>1, <2>7, <2>8, <2>10, ServedKeeps
  <2>11. CASE /\ sessions' = sessions /\ importNotes' = importNotes
              /\ patchQueue' = JobAnswered(patchQueue, 1, FALSE, NoPreview)
    BY <1>1, <1>2, <2>1, <2>8, <2>11, ServedKeeps
  <2>12. QED
    BY <2>5, <2>9, <2>10, <2>11
<1>4. CASE ServeRefresh(1)
  <2> DEFINE built == IF Live(job.id) THEN BuildPreview(job.id, rows) ELSE NoPreview
  <2>1. /\ job.kind = "refresh" /\ ~job.served
        /\ UNCHANGED <<sessions, recorded, rateKnown, preview, importStep, pendingPatchCount, burst, decided,
                       storedImport, storedDecision, resume, upload, confirms, cancelling, importNotes>>
        /\ patchQueue' = JobAnswered(patchQueue, 1, Live(job.id), built)
    BY <1>4 DEF ServeRefresh, JobAnswered, serverVars, storageVars, requestVars
  <2>2. built \in ImportPreviews /\ (Live(job.id) => built.id = job.id /\ built.rows = rows)
    <3>1. /\ BuildPreview(job.id, rows) \in ImportPreviews /\ BuildPreview(job.id, rows).id = job.id
          /\ BuildPreview(job.id, rows).rows = rows /\ NoPreview \in ImportPreviews
      BY <1>2, PreviewIsBuilt, ImportConstants
    <3>2. QED
      BY <3>1
  <2>3. Live(job.id) \in BOOLEAN
    BY <1>2 DEF Live, ImportSessions
  <2>4. PICK b \in BOOLEAN : b = Live(job.id)
    BY <2>3
  <2> HIDE DEF built
  <2>5. /\ patchQueue' = JobAnswered(patchQueue, 1, b, built)
        /\ b => built.id = job.id /\ built.rows = sessions'[job.id].rows
    BY <2>1, <2>2, <2>4
  <2>6. QED
    BY <1>1, <1>2, <2>1, <2>2, <2>5, ServedKeeps
<1>5. QED
  BY <1>1, <1>3, <1>4

\* The answer of the lane's head, and the next row of a bulk action.
LEMMA LaneAnswerKeeps ==
  ASSUME ImportInv, LaneAnswer
  PROVE  ImportInv'
<1> DEFINE job == patchQueue[1]
           rest == Pop(1, patchQueue)
           next == job.field = "bulk" /\ burst # <<>>
<1>1. /\ 1 \in DOMAIN patchQueue /\ job.served
      /\ IF ~job.ok THEN preview' = preview
         ELSE IF job.kind = "patch" THEN ApplyResponse(job) ELSE ApplyRefresh(job)
      /\ patchQueue' = IF next THEN Append(rest, Head(burst)) ELSE rest
      /\ burst' = IF next THEN Tail(burst) ELSE burst
      /\ pendingPatchCount' =
            LET n == IF next THEN pendingPatchCount + 1 ELSE pendingPatchCount
            IN  IF job.kind = "refresh" THEN n ELSE IF n = 0 THEN 0 ELSE n - 1
      /\ confirms' = IF next THEN [k \in DOMAIN confirms |-> [confirms[k] EXCEPT !.edited = TRUE]] ELSE confirms
      /\ UNCHANGED <<sessions, recorded, rateKnown, importStep, decided, storedImport, storedDecision, resume,
                     upload, cancelling, importNotes>>
  <2>1. PICK i \in DOMAIN patchQueue :
      /\ patchQueue[i].served
      /\ IF ~patchQueue[i].ok THEN UNCHANGED preview
         ELSE IF patchQueue[i].kind = "patch" THEN ApplyResponse(patchQueue[i]) ELSE ApplyRefresh(patchQueue[i])
      /\ patchQueue' = IF patchQueue[i].field = "bulk" /\ burst # <<>>
                       THEN Append(Pop(i, patchQueue), Head(burst)) ELSE Pop(i, patchQueue)
      /\ burst' = IF patchQueue[i].field = "bulk" /\ burst # <<>> THEN Tail(burst) ELSE burst
      /\ pendingPatchCount' =
            LET n == IF patchQueue[i].field = "bulk" /\ burst # <<>> THEN pendingPatchCount + 1 ELSE pendingPatchCount
            IN  IF patchQueue[i].kind = "refresh" THEN n ELSE IF n = 0 THEN 0 ELSE n - 1
      /\ confirms' = IF patchQueue[i].field = "bulk" /\ burst # <<>>
                     THEN [k \in DOMAIN confirms |-> [confirms[k] EXCEPT !.edited = TRUE]] ELSE confirms
      /\ UNCHANGED <<serverVars, importStep, decided, backgroundVars, storageVars, resume,
                           upload, cancelling, importBudget, importNotes>>
    BY DEF LaneAnswer
  <2>2. i = 1
    BY <2>1 DEF ImportInv, LaneIsSerial
  <2>3. QED
    BY <2>1, <2>2 DEF serverVars, storageVars
<1>2. /\ patchQueue \in Seq(ImportJobs) /\ burst \in Seq(ImportBursts) /\ Len(patchQueue) \in Nat \ {0}
      /\ DOMAIN patchQueue = 1..Len(patchQueue) /\ Heard \in 0..Len(sessions) /\ Len(sessions) \in Nat
      /\ job \in ImportJobs /\ job.id \in 1..Heard /\ preview \in ImportPreviews /\ preview.id \in 0..Heard
      /\ job.fresh \in ImportPreviews /\ job.kind \in {"patch", "refresh"} /\ job.row \in ImportRows
  <2>1. job \in ImportJobs /\ job.id \in 1..Heard
    BY <1>1, HeardIs
  <2>2. patchQueue \in Seq(ImportJobs) /\ burst \in Seq(ImportBursts) /\ preview \in ImportPreviews
    BY DEF ImportInv, ImportShapes
  <2>3. Len(patchQueue) \in Nat \ {0} /\ DOMAIN patchQueue = 1..Len(patchQueue)
    BY <1>1, <2>2, LenProperties
  <2>4. Heard \in 0..Len(sessions) /\ Len(sessions) \in Nat /\ preview.id \in 0..Heard
    BY HeardIs
  <2>5. job.fresh \in ImportPreviews /\ job.kind \in {"patch", "refresh"} /\ job.row \in ImportRows
    BY <2>1 DEF ImportJobs
  <2>6. QED
    BY <2>1, <2>2, <2>3, <2>4, <2>5
<1>3. /\ rest \in Seq(ImportJobs) /\ Len(rest) = Len(patchQueue) - 1
      /\ \A j \in DOMAIN rest : j + 1 \in DOMAIN patchQueue /\ rest[j] = patchQueue[j + 1]
      /\ \A j \in DOMAIN patchQueue : j # 1 => j - 1 \in DOMAIN rest /\ rest[j - 1] = patchQueue[j]
      /\ Cardinality(PatchesIn(rest))
              = IF job.kind = "patch" THEN Cardinality(PatchesIn(patchQueue)) - 1 ELSE Cardinality(PatchesIn(patchQueue))
  BY <1>1, <1>2, HeadSettled
<1>4. next => job.kind = "patch"
  BY <1>1, <1>2 DEF ImportInv, LaneIsSerial
<1>5. /\ job.ok => job.fresh.id = job.id
      /\ job.ok /\ "late" \notin importNotes => job.fresh.rows = sessions[job.id].rows
  BY <1>1 DEF ImportInv, LaneIsSerial
<1>6. \A j \in DOMAIN patchQueue : j # 1 => ~patchQueue[j].served
  BY DEF ImportInv, LaneIsSerial
<1> HIDE DEF rest
<1>7. next => /\ Head(burst) \in ImportBursts /\ Tail(burst) \in Seq(ImportBursts) /\ 1 \in DOMAIN burst
              /\ Head(burst) = burst[1]
              /\ \A i \in DOMAIN Tail(burst) : i + 1 \in DOMAIN burst /\ Tail(burst)[i] = burst[i + 1]
  <2> SUFFICES ASSUME burst # <<>>
               PROVE  /\ Head(burst) \in ImportBursts /\ Tail(burst) \in Seq(ImportBursts) /\ 1 \in DOMAIN burst
                      /\ Head(burst) = burst[1]
                      /\ \A i \in DOMAIN Tail(burst) : i + 1 \in DOMAIN burst /\ Tail(burst)[i] = burst[i + 1]
    OBVIOUS
  <2>1. /\ Head(burst) \in ImportBursts /\ Tail(burst) \in Seq(ImportBursts) /\ Len(Tail(burst)) = Len(burst) - 1
        /\ \A i \in 1..Len(Tail(burst)) : Tail(burst)[i] = burst[i + 1]
    BY <1>2, HeadTailProperties
  <2>2. Len(burst) \in Nat \ {0} /\ DOMAIN burst = 1..Len(burst) /\ DOMAIN Tail(burst) = 1..(Len(burst) - 1)
    BY <1>2, <2>1, LenProperties, EmptySeq
  <2>3. Head(burst) = burst[1]
    BY <1>2
  <2>4. QED
    BY <2>1, <2>2, <2>3
<1>8. next => /\ Head(burst) \in ImportJobs /\ Head(burst).kind = "patch" /\ Head(burst).field = "bulk"
              /\ ~Head(burst).served
  BY <1>7 DEF ImportBursts
<1>9. /\ patchQueue' \in Seq(ImportJobs)
      /\ \A k \in DOMAIN patchQueue' : \/ next /\ patchQueue'[k] = Head(burst)
                                       \/ \E j \in DOMAIN patchQueue : j # 1 /\ patchQueue'[k] = patchQueue[j]
      /\ \A j \in DOMAIN patchQueue : j # 1 => \E k \in DOMAIN patchQueue' : patchQueue'[k] = patchQueue[j]
      /\ next => \E k \in DOMAIN patchQueue' : patchQueue'[k] = Head(burst)
  <2>1. \A j \in DOMAIN rest : \E k \in DOMAIN patchQueue : k # 1 /\ rest[j] = patchQueue[k]
    <3>1. DOMAIN rest = 1..Len(rest) /\ Len(rest) \in Nat
      BY <1>3, LenProperties
    <3>2. \A j \in DOMAIN rest : j + 1 # 1
      BY <3>1
    <3>3. QED
      BY <1>3, <3>2
  <2>2. CASE ~next
    <3>1. patchQueue' = rest
      BY <1>1, <2>2
    <3>2. \A j \in DOMAIN patchQueue : j # 1 => \E k \in DOMAIN rest : rest[k] = patchQueue[j]
      BY <1>3
    <3> HIDE DEF next
    <3>3. QED
      BY <1>3, <2>1, <2>2, <3>1, <3>2
  <2>3. CASE next
    <3>1. patchQueue' = Append(rest, Head(burst)) /\ Head(burst) \in ImportJobs
      BY <1>1, <1>8, <2>3
    <3>2. /\ patchQueue' \in Seq(ImportJobs) /\ Len(patchQueue') = Len(rest) + 1
          /\ patchQueue'[Len(rest) + 1] = Head(burst) /\ \A k \in 1..Len(rest) : patchQueue'[k] = rest[k]
      BY <1>3, <3>1, AppendedAt
    <3>3. DOMAIN patchQueue' = 1..(Len(rest) + 1) /\ DOMAIN rest = 1..Len(rest) /\ Len(rest) \in Nat
      BY <1>3, <3>2, LenProperties
    <3> HIDE DEF next
    <3>4. \A k \in DOMAIN patchQueue' : k = Len(rest) + 1 \/ k \in DOMAIN rest
      BY <3>3
    <3>5. \A k \in DOMAIN rest : k \in DOMAIN patchQueue' /\ patchQueue'[k] = rest[k]
      BY <3>2, <3>3
    <3>6. Len(rest) + 1 \in DOMAIN patchQueue'
      BY <3>3
    <3>7. ASSUME NEW k \in DOMAIN patchQueue'
          PROVE  \/ patchQueue'[k] = Head(burst)
                 \/ \E j \in DOMAIN patchQueue : j # 1 /\ patchQueue'[k] = patchQueue[j]
      <4>1. CASE k = Len(rest) + 1
        BY <3>2, <4>1
      <4>2. CASE k \in DOMAIN rest
        BY <2>1, <3>5, <4>2
      <4>3. QED
        BY <3>4, <4>1, <4>2
    <3>8. ASSUME NEW j \in DOMAIN patchQueue, j # 1
          PROVE  \E k \in DOMAIN patchQueue' : patchQueue'[k] = patchQueue[j]
      BY <1>3, <3>5, <3>8
    <3>9. \E k \in DOMAIN patchQueue' : patchQueue'[k] = Head(burst)
      BY <3>2, <3>6
    <3>10. QED
      BY <2>3, <3>2, <3>7, <3>8, <3>9
  <2>4. QED
    BY <2>2, <2>3
<1>10. Cardinality(PatchesIn(patchQueue)')
         = IF next THEN Cardinality(PatchesIn(rest)) + 1 ELSE Cardinality(PatchesIn(rest))
  <2>1. CASE next
    <3>1. Cardinality(PatchesIn(Append(rest, Head(burst)))) = Cardinality(PatchesIn(rest)) + 1
      BY <1>3, <1>8, <2>1, PatchAppended
    <3>2. PatchesIn(patchQueue)' = PatchesIn(Append(rest, Head(burst)))
      BY <1>1, <2>1 DEF PatchesIn
    <3> HIDE DEF next
    <3>3. QED
      BY <2>1, <3>1, <3>2
  <2>2. CASE ~next
    <3>1. PatchesIn(patchQueue)' = PatchesIn(rest)
      BY <1>1, <2>2 DEF PatchesIn
    <3> HIDE DEF next
    <3>2. QED
      BY <2>2, <3>1
  <2>3. QED
    BY <2>1, <2>2
<1>11. /\ preview' \in ImportPreviews /\ preview'.id \in {preview.id, job.id}
       /\ job.kind = "refresh" => preview' = preview \/ (preview.id = job.id /\ job.ok /\ preview' = job.fresh)
       /\ ~job.ok => preview' = preview
       /\ job.ok /\ job.kind = "patch" /\ preview.id = job.id =>
            /\ preview'.id = job.id /\ preview'.rows[job.row] = job.fresh.rows[job.row]
            /\ \A r \in ImportRows : r # job.row => preview'.rows[r] = preview.rows[r]
  <2>1. CASE ~job.ok
    BY <1>1, <1>2, <2>1
  <2>2. CASE job.ok /\ job.kind = "refresh"
    BY <1>1, <1>2, <1>5, <2>2 DEF ApplyRefresh
  <2>3. CASE job.ok /\ job.kind = "patch"
    <3> DEFINE table == [preview.rows EXCEPT ![job.row] = job.fresh.rows[job.row]]
    <3>1. table \in ImportTables /\ table[job.row] = job.fresh.rows[job.row]
          /\ \A r \in ImportRows : r # job.row => table[r] = preview.rows[r]
      BY <1>2 DEF ImportPreviews, ImportTables
    <3>2. preview' = IF preview.id = 0 THEN job.fresh ELSE [job.fresh EXCEPT !.rows = table]
      BY <1>1, <2>3 DEF ApplyResponse
    <3> HIDE DEF table, ImportTables
    <3>3. /\ [job.fresh EXCEPT !.rows = table] \in ImportPreviews
          /\ [job.fresh EXCEPT !.rows = table].id = job.fresh.id /\ [job.fresh EXCEPT !.rows = table].rows = table
      BY <1>2, <3>1 DEF ImportPreviews
    <3>4. job.id # 0
      BY <1>2
    <3>5. QED
      BY <1>2, <1>5, <2>3, <3>1, <3>2, <3>3, <3>4
  <2>4. QED
    BY <1>2, <2>1, <2>2, <2>3
<1>12. \A k \in DOMAIN patchQueue' : ~patchQueue'[k].served
  BY <1>6, <1>8, <1>9
<1>13. /\ DOMAIN confirms' = DOMAIN confirms /\ confirms' \in Seq(ImportConfirms)
       /\ \A j \in DOMAIN confirms :
              /\ confirms'[j].phase = confirms[j].phase /\ confirms'[j].id = confirms[j].id
              /\ confirms'[j].shown = confirms[j].shown /\ confirms'[j].copied = confirms[j].copied
              /\ confirms'[j].answer = confirms[j].answer /\ confirms'[j].left = confirms[j].left
              /\ (confirms'[j].mine <=> confirms[j].mine)
              /\ (confirms'[j].edited <=> next \/ confirms[j].edited)
              /\ (confirms'[j].overtaken <=> confirms[j].overtaken)
  <2>1. CASE next
    <3>1. confirms' = [k \in DOMAIN confirms |-> [confirms[k] EXCEPT !.edited = TRUE]]
      BY <1>1, <2>1
    <3> HIDE DEF next
    <3>2. QED
      BY <2>1, <3>1, MarkedEdited
  <2>2. CASE ~next
    <3>1. confirms' = confirms
      BY <1>1, <2>2
    <3> HIDE DEF next
    <3>2. QED
      BY <2>2, <3>1 DEF ImportInv, ImportShapes
  <2>3. QED
    BY <2>1, <2>2
<1>14. burst' \in Seq(ImportBursts) /\ \A i \in DOMAIN burst' : \E k \in DOMAIN burst : burst'[i] = burst[k]
  <2>1. CASE next
    BY <1>1, <1>7, <2>1
  <2>2. CASE ~next
    BY <1>1, <1>2, <2>2
  <2>3. QED
    BY <2>1, <2>2
<1>15. LET n == IF next THEN pendingPatchCount + 1 ELSE pendingPatchCount
       IN  pendingPatchCount' = IF job.kind = "refresh" THEN n ELSE IF n = 0 THEN 0 ELSE n - 1
  BY <1>1
<1>16. UNCHANGED <<sessions, recorded, rateKnown, importStep, decided, storedImport, storedDecision, resume,
                   upload, cancelling, importNotes>>
  BY <1>1
<1>17. next => \E k \in DOMAIN burst : Head(burst) = burst[k]
  BY <1>7
<1>18. burst' # <<>> => \E i \in DOMAIN patchQueue' : patchQueue'[i].field = "bulk"
  <2>1. CASE next
    BY <1>8, <1>9, <2>1
  <2>2. CASE ~next
    <3> SUFFICES ASSUME burst' # <<>> PROVE \E i \in DOMAIN patchQueue' : patchQueue'[i].field = "bulk"
      OBVIOUS
    <3>1. burst # <<>> /\ job.field # "bulk"
      BY <1>1, <2>2
    <3>2. PICK i \in DOMAIN patchQueue : patchQueue[i].field = "bulk"
      BY <3>1 DEF ImportInv, LaneIsSerial
    <3>3. i # 1
      BY <3>1, <3>2
    <3>4. QED
      BY <1>9, <3>2, <3>3
  <2>3. QED
    BY <2>1, <2>2
<1> HIDE DEF next
<1>19. ImportShapes'
  <2>1. pendingPatchCount' \in Nat
    <3>1. pendingPatchCount \in Nat
      BY DEF ImportInv, ImportShapes
    <3>2. QED
      BY <1>15, <3>1
  <2>2. QED
    BY <1>9, <1>11, <1>13, <1>14, <1>16, <2>1 DEF ImportInv, ImportShapes
<1>20. Heard' = Heard
  BY <1>16 DEF Heard
<1>21. ImportIds'
  <2>1. preview'.id <= Heard /\ (importStep = "preview" => preview'.id # 0)
    BY <1>2, <1>11 DEF ImportInv, ImportIds
  <2>2. \A i \in DOMAIN burst : burst[i].id <= Heard
    BY DEF ImportInv, ImportIds
  <2>3. \A i \in DOMAIN patchQueue' : patchQueue'[i].id <= Heard
    BY <1>9, <1>17, <2>2 DEF ImportInv, ImportIds
  <2>4. \A i \in DOMAIN burst' : burst'[i].id <= Heard
    BY <1>14, <2>2
  <2>5. QED
    BY <1>13, <1>16, <1>20, <2>1, <2>3, <2>4 DEF ImportInv, ImportIds
<1>22. UploadIsFresh'
  BY <1>16 DEF ImportInv, UploadIsFresh
<1>23. ResumeIsAlone'
  <2>1. patchQueue # <<>>
    BY <1>1
  <2>2. QED
    BY <1>16, <2>1 DEF ImportInv, ResumeIsAlone
<1>24. LaneIsSerial'
  <2>1. \A i \in DOMAIN patchQueue' : patchQueue'[i].kind = "refresh" => patchQueue'[i].field = "value"
    BY <1>8, <1>9 DEF ImportInv, LaneIsSerial
  <2>2. QED
    BY <1>12, <1>18, <2>1 DEF LaneIsSerial
<1>25. Cardinality(PatchesIn(patchQueue)) \in Nat /\ (job.kind = "patch" => Cardinality(PatchesIn(patchQueue)) > 0)
  <2>1. Cardinality(PatchesIn(patchQueue)) \in Nat
        /\ (Cardinality(PatchesIn(patchQueue)) = 0 <=> PatchesIn(patchQueue) = {})
    BY <1>2, PatchesAreFew
  <2>2. job.kind = "patch" => 1 \in PatchesIn(patchQueue)
    BY <1>1 DEF PatchesIn
  <2>3. QED
    BY <2>1, <2>2
<1>26. PatchesAreCounted'
  <2> DEFINE c == Cardinality(PatchesIn(patchQueue))
  <2>1. Cardinality(PatchesIn(patchQueue)') = IF next THEN c ELSE IF job.kind = "patch" THEN c - 1 ELSE c
    BY <1>3, <1>4, <1>10, <1>25
  <2>2. pendingPatchCount <= c /\ ("zeroed" \notin importNotes => pendingPatchCount = c) /\ pendingPatchCount \in Nat
    BY DEF ImportInv, PatchesAreCounted, ImportShapes
  <2> HIDE DEF c
  <2>3. c \in Nat /\ (job.kind = "patch" => c > 0)
    BY <1>25 DEF c
  <2>4. pendingPatchCount' <= Cardinality(PatchesIn(patchQueue)')
    BY <1>2, <1>4, <1>15, <2>1, <2>2, <2>3
  <2>5. "zeroed" \notin importNotes => pendingPatchCount' = Cardinality(PatchesIn(patchQueue)')
    BY <1>2, <1>4, <1>15, <2>1, <2>2, <2>3
  <2>6. QED
    BY <1>16, <2>4, <2>5 DEF PatchesAreCounted
\* An answer of the shown session's lane leaves the shown session's number alone.
<1>27. "raced" \notin importNotes /\ (importStep = "preview" \/ "zeroed" \notin importNotes) =>
         /\ preview'.id = preview.id /\ (preview.id = 0 => preview' = preview)
         /\ job.kind = "patch" => job.id = preview.id
  <2> SUFFICES ASSUME "raced" \notin importNotes, importStep = "preview" \/ "zeroed" \notin importNotes
               PROVE  /\ preview'.id = preview.id /\ (preview.id = 0 => preview' = preview)
                      /\ job.kind = "patch" => job.id = preview.id
    OBVIOUS
  <2>1. job.kind = "patch" => job.id = preview.id
    BY <1>1 DEF ImportInv, LaneIsOfPreview
  <2>2. job.id # 0
    BY <1>2
  <2>3. QED
    BY <1>2, <1>5, <1>11, <2>1, <2>2
<1>28. LaneIsOfPreview'
  <2>1. "raced" \notin importNotes /\ (importStep = "preview" \/ "zeroed" \notin importNotes) =>
         /\ \A i \in DOMAIN patchQueue' : patchQueue'[i].kind = "patch" => patchQueue'[i].id = preview'.id
         /\ \A i \in DOMAIN burst' : burst'[i].id = preview'.id
    BY <1>9, <1>14, <1>17, <1>27 DEF ImportInv, LaneIsOfPreview
  <2>2. "raced" \notin importNotes /\ "zeroed" \notin importNotes /\ importStep = "upload" => preview'.id = 0
    BY <1>27 DEF ImportInv, LaneIsOfPreview
  <2>3. QED
    BY <1>16, <2>1, <2>2 DEF LaneIsOfPreview
<1>29. PreviewIsResumable'
  BY <1>16, <1>27 DEF ImportInv, PreviewIsResumable
<1>30. TableTracks'
  <2> SUFFICES ASSUME Undisturbed, preview'.id # 0, NEW r \in ImportRows
               PROVE  preview'.rows[r] = sessions[preview'.id].rows[r]
    BY <1>16 DEF TableTracks, Undisturbed
  <2>1. preview'.id = preview.id /\ preview.id # 0 /\ (job.kind = "patch" => job.id = preview.id)
    BY <1>27 DEF Undisturbed
  <2>2. Awaited(r) \/ preview.rows[r] = sessions[preview.id].rows[r]
    BY <2>1 DEF ImportInv, TableTracks
  <2>3. Awaited(r) => job.kind = "patch" /\ job.ok /\ r = job.row
    BY <1>6 DEF Awaited
  <2>8. "late" \notin importNotes
    BY DEF Undisturbed
  <2>4. CASE ~job.ok
    BY <1>11, <2>1, <2>2, <2>3, <2>4
  <2>5. CASE job.ok /\ job.kind = "patch"
    BY <1>5, <1>11, <2>1, <2>2, <2>3, <2>5, <2>8
  <2>6. CASE job.ok /\ job.kind = "refresh"
    BY <1>5, <1>11, <2>1, <2>2, <2>3, <2>6, <2>8
  <2>7. QED
    BY <1>2, <2>4, <2>5, <2>6
<1>31. ConfirmsShow'
  <2>1. \A i \in DOMAIN confirms :
          /\ confirms[i].phase = "sent" => confirms[i].copied = confirms[i].shown
          /\ Undisturbed /\ ~confirms[i].edited =>
               /\ confirms[i].copied = confirms[i].shown /\ PatchesIn(patchQueue) = {}
               /\ confirms[i].phase = "sent" => sessions[confirms[i].id].rows = confirms[i].shown
    BY DEF ImportInv, ConfirmsShow
  <2>2. ASSUME PatchesIn(patchQueue) = {}, ~next PROVE PatchesIn(patchQueue)' = {}
    <3>1. \A k \in DOMAIN patchQueue' : patchQueue'[k].kind # "patch"
      BY <1>9, <2>2 DEF PatchesIn
    <3>2. QED
      BY <3>1 DEF PatchesIn
  <2>3. ASSUME NEW i \in DOMAIN confirms, Undisturbed, ~confirms'[i].edited
        PROVE  /\ confirms[i].copied = confirms[i].shown /\ PatchesIn(patchQueue)' = {}
               /\ confirms[i].phase = "sent" => sessions[confirms[i].id].rows = confirms[i].shown
    BY <1>13, <2>1, <2>2, <2>3
  <2>4. Undisturbed' <=> Undisturbed
    BY <1>16 DEF Undisturbed
  <2>5. QED
    BY <1>13, <1>16, <2>1, <2>3, <2>4 DEF ConfirmsShow
<1>32. ConfirmsRecord'
  BY <1>13, <1>16 DEF ImportInv, ConfirmsRecord, AllInsertable
<1>33. QED
  BY <1>19, <1>21, <1>22, <1>23, <1>24, <1>26, <1>28, <1>29, <1>30, <1>31, <1>32 DEF ImportInv

LEMMA ImportSame ==
  ASSUME ImportInv,
         UNCHANGED <<sessions, recorded, rateKnown, preview, importStep, pendingPatchCount, patchQueue, burst, decided,
                     storedImport, storedDecision, resume, upload, confirms, cancelling, importNotes>>
  PROVE  ImportInv'
<1>2. ImportShapes'
  BY DEF ImportInv, ImportShapes
<1>3. ImportIds' /\ UploadIsFresh' /\ ResumeIsAlone'
  BY DEF ImportInv, ImportIds, Heard, UploadIsFresh, ResumeIsAlone
<1>4. LaneIsSerial' /\ PatchesAreCounted' /\ LaneIsOfPreview' /\ PreviewIsResumable'
  BY DEF ImportInv, LaneIsSerial, PatchesAreCounted, LaneIsOfPreview, PreviewIsResumable
<1>5. TableTracks' /\ ConfirmsShow'
  BY DEF ImportInv, TableTracks, Awaited, ConfirmsShow, Undisturbed
<1>6. ConfirmsRecord'
  BY DEF ImportInv, ConfirmsRecord, AllInsertable
<1>7. QED
  BY <1>2, <1>3, <1>4, <1>5, <1>6 DEF ImportInv
LEMMA ImportStands ==
  ASSUME ImportInv, UNCHANGED importVars
  PROVE  ImportInv'
BY ImportSame DEF importVars, serverVars, tableVars, storageVars, requestVars

(***************************************************************************)
(* What earlier mounts left behind.                                        *)
(***************************************************************************)
LEMMA LeftJobs ==
  ASSUME NEW lane, NEW n, LeftLane(lane, n)
  PROVE  /\ Head(lane.jobs) \in ImportJobs /\ Head(lane.jobs).id <= n /\ Head(lane.jobs).id \in Nat \ {0}
         /\ Tail(lane.jobs) \in Seq(ImportJobs)
         /\ \A i \in DOMAIN Tail(lane.jobs) : Tail(lane.jobs)[i].id <= n
<1>1. lane.jobs \in Seq(ImportJobs) /\ lane.jobs # <<>> /\ \A i \in DOMAIN lane.jobs : lane.jobs[i].id <= n
  BY DEF LeftLane
<1>2. Len(lane.jobs) \in Nat \ {0} /\ DOMAIN lane.jobs = 1..Len(lane.jobs)
  BY <1>1, EmptySeq, LenProperties
<1>3. /\ Head(lane.jobs) = lane.jobs[1] /\ Tail(lane.jobs) \in Seq(ImportJobs) /\ 1 \in DOMAIN lane.jobs
      /\ Len(Tail(lane.jobs)) = Len(lane.jobs) - 1
      /\ \A i \in 1..Len(Tail(lane.jobs)) : Tail(lane.jobs)[i] = lane.jobs[i + 1]
  BY <1>1, <1>2, HeadTailProperties
<1>4. DOMAIN Tail(lane.jobs) = 1..Len(Tail(lane.jobs))
  BY <1>3, LenProperties
<1>5. \A i \in DOMAIN Tail(lane.jobs) : i + 1 \in DOMAIN lane.jobs /\ Tail(lane.jobs)[i] = lane.jobs[i + 1]
  BY <1>2, <1>3, <1>4
<1>6. lane.jobs[1] \in ImportJobs
  BY <1>1, <1>2, ElementOfSeq
<1>7. lane.jobs[1].id \in Nat \ {0}
  BY <1>6 DEF ImportJobs
<1>8. QED
  BY <1>1, <1>3, <1>5, <1>6, <1>7

LEMMA LaneWith ==
  ASSUME NEW lane, NEW n, LeftLane(lane, n), NEW jobs
  PROVE  [lane EXCEPT !.jobs = jobs] = [mount |-> lane.mount, jobs |-> jobs]
BY DEF LeftLane

LEMMA PatchedTyped ==
  ASSUME NEW job \in ImportJobs, sessions[job.id].rows \in ImportTables
  PROVE  Patched(job) \in ImportTables
<1> DEFINE old == sessions[job.id].rows[job.row]
           new == IF job.field = "value" THEN [old EXCEPT !.value = job.to.value] ELSE [old EXCEPT !.skip = job.to.skip]
<1>1. job.row \in ImportRows /\ job.to \in RowState
  BY DEF ImportJobs
<1>2. old \in RowState
  BY <1>1 DEF ImportTables
<1>3. new \in RowState
  <2>1. \A a \in RowState, b \in RowState :
          [a EXCEPT !.value = b.value] \in RowState /\ [a EXCEPT !.skip = b.skip] \in RowState
    BY DEF RowState
  <2> HIDE DEF old
  <2>2. QED
    BY <1>1, <1>2, <2>1
<1>4. Patched(job) = [sessions[job.id].rows EXCEPT ![job.row] = new]
  BY DEF Patched
<1> HIDE DEF new
<1>5. QED
  BY <1>1, <1>3, <1>4 DEF ImportTables

\* An edit of a session on which nothing of the card rests disturbs nothing; another is
\* noted as late.
LEMMA LeftServeKeeps ==
  ASSUME ImportInv, LeftInv, LeftServe
  PROVE  ImportInv'
<1>1. UNCHANGED <<recorded, rateKnown, preview, importStep, pendingPatchCount, patchQueue, burst, decided, storedImport,
                  storedDecision, resume, upload, confirms, cancelling>>
  BY DEF LeftServe, tableVars, storageVars, requestVars
<1>2. PICK lane \in leftLanes :
        \/ /\ Live(Head(lane.jobs).id)
           /\ sessions' = [sessions EXCEPT ![Head(lane.jobs).id].rows = Patched(Head(lane.jobs))]
           /\ importNotes' = IF Unread(Head(lane.jobs).id) THEN importNotes ELSE importNotes \cup {"late"}
        \/ UNCHANGED <<sessions, importNotes>>
  BY DEF LeftServe
<1>3. CASE UNCHANGED <<sessions, importNotes>>
  BY <1>1, <1>3, ImportSame
<1>4. CASE /\ Live(Head(lane.jobs).id)
           /\ sessions' = [sessions EXCEPT ![Head(lane.jobs).id].rows = Patched(Head(lane.jobs))]
           /\ importNotes' = IF Unread(Head(lane.jobs).id) THEN importNotes ELSE importNotes \cup {"late"}
  <2> DEFINE job == Head(lane.jobs)
             n == job.id
  <2>1. job \in ImportJobs /\ n \in 1..Heard /\ n \in DOMAIN sessions
    <3>1. LeftLane(lane, Heard) /\ Heard \in Nat
      BY HeardIs DEF LeftInv
    <3>2. job \in ImportJobs /\ n <= Heard /\ n \in Nat \ {0}
      BY <3>1, LeftJobs
    <3>3. QED
      BY <1>4, <3>1, <3>2 DEF Live
  <2>2. /\ sessions \in Seq(ImportSessions) /\ DOMAIN sessions = 1..Len(sessions) /\ Len(sessions) \in Nat
        /\ Heard \in 0..Len(sessions) /\ sessions[n] \in ImportSessions
    BY <2>1, HeardIs, LenProperties, ElementOfSeq DEF ImportInv, ImportShapes
  <2>3. Patched(job) \in ImportTables
    BY <2>1, <2>2, PatchedTyped DEF ImportSessions
  <2>4. /\ sessions' \in Seq(ImportSessions) /\ Len(sessions') = Len(sessions) /\ DOMAIN sessions' = DOMAIN sessions
        /\ \A k \in 1..Len(sessions) : k # n => sessions'[k].rows = sessions[k].rows
    <3>1. [sessions[n] EXCEPT !.rows = Patched(job)] \in ImportSessions
      BY <2>2, <2>3 DEF ImportSessions
    <3>2. sessions' = [sessions EXCEPT ![n] = [sessions[n] EXCEPT !.rows = Patched(job)]]
      BY <1>4
    <3>3. sessions' \in Seq(ImportSessions) /\ Len(sessions') = Len(sessions)
      BY <2>1, <2>2, <3>1, <3>2, ExceptSeq
    <3>4. \A k \in 1..Len(sessions) : k # n => sessions'[k] = sessions[k]
      BY <2>2, <3>2
    <3>5. QED
      BY <2>2, <3>3, <3>4, LenProperties
  <2>5. Heard' = Heard
    BY <1>1, <2>4 DEF Heard
  <2>6. /\ "raced" \in importNotes' <=> "raced" \in importNotes
        /\ "zeroed" \in importNotes' <=> "zeroed" \in importNotes
        /\ "ended" \in importNotes' <=> "ended" \in importNotes
        /\ "late" \notin importNotes' => Unread(n) /\ importNotes' = importNotes
        /\ Undisturbed' => Undisturbed /\ Unread(n)
    BY <1>4 DEF Undisturbed
  <2>7. ImportShapes'
    BY <1>1, <2>4 DEF ImportInv, ImportShapes
  <2>8. ImportIds'
    BY <1>1, <2>5 DEF ImportInv, ImportIds
  <2>9. UploadIsFresh'
    <3>1. upload.phase = "answered" => upload.id = Len(sessions) /\ n # upload.id /\ upload.id \in 1..Len(sessions)
      BY <2>1, <2>2, HeardIs DEF Heard, ImportInv, UploadIsFresh
    <3>2. QED
      BY <1>1, <2>4, <3>1 DEF ImportInv, UploadIsFresh
  <2>10. ResumeIsAlone'
    <3>1. resume.phase = "answered" /\ resume.ok => resume.id \in 1..Len(sessions)
      BY HeardIs DEF ImportInv, ResumeIsAlone
    <3>2. "late" \notin importNotes' /\ resume.phase = "answered" => resume.id # n
      BY <2>6 DEF Unread
    <3>3. "late" \notin importNotes' => "late" \notin importNotes
      BY <2>6
    <3>4. QED
      BY <1>1, <2>4, <2>6, <3>1, <3>2, <3>3 DEF ImportInv, ResumeIsAlone
  <2>11. LaneIsSerial'
    <3>1. \A i \in DOMAIN patchQueue : patchQueue[i].id \in 1..Len(sessions)
      BY HeardIs
    <3>2. "late" \notin importNotes' => "late" \notin importNotes /\ \A i \in DOMAIN patchQueue : patchQueue[i].id # n
      BY <2>6 DEF Unread
    <3>3. QED
      BY <1>1, <2>4, <3>1, <3>2 DEF ImportInv, LaneIsSerial
  <2>12. PatchesAreCounted' /\ LaneIsOfPreview'
    BY <1>1, <2>6 DEF ImportInv, PatchesAreCounted, LaneIsOfPreview
  <2>13. PreviewIsResumable'
    BY <1>1, <2>6 DEF ImportInv, PreviewIsResumable
  <2>14. TableTracks'
    <3>1. preview.id # 0 => preview.id \in 1..Len(sessions)
      BY HeardIs
    <3>2. Undisturbed' => Undisturbed /\ preview.id # n
      BY <2>6 DEF Unread
    <3>3. QED
      BY <1>1, <2>4, <3>1, <3>2 DEF ImportInv, TableTracks, Awaited
  <2>15. ConfirmsShow'
    <3>1. \A i \in DOMAIN confirms : confirms[i].id \in 1..Len(sessions)
      BY HeardIs
    <3>2. Undisturbed' =>
            Undisturbed /\ \A i \in DOMAIN confirms : confirms[i].phase = "sent" => confirms[i].id # n
      BY <2>6 DEF Unread
    <3>3. QED
      BY <1>1, <2>4, <3>1, <3>2 DEF ImportInv, ConfirmsShow
  <2>16. ConfirmsRecord'
    BY <1>1 DEF ImportInv, ConfirmsRecord, AllInsertable
  <2>17. QED
    BY <2>7, <2>8, <2>9, <2>10, <2>11, <2>12, <2>13, <2>14, <2>15, <2>16 DEF ImportInv
<1>5. QED
  BY <1>2, <1>3, <1>4

\* A write of an earlier mount to localStorage is noted while a session can be resumed.
LEMMA LeftEndKeeps ==
  ASSUME ImportInv, LeftInv, LeftEnd
  PROVE  ImportInv'
<1>1. UNCHANGED <<recorded, rateKnown, preview, importStep, pendingPatchCount, patchQueue, burst, decided, resume,
                  upload, confirms, cancelling>>
  BY DEF LeftEnd, tableVars, requestVars
<1>2. PICK e \in leftEnds :
        /\ sessions' \in {sessions, Drop(e.drop)} /\ storedImport' = e.to
        /\ importNotes' = IF Resumable THEN importNotes \cup {"ended"} ELSE importNotes
  BY DEF LeftEnd
<1>3. e.to \in 0..Heard /\ Heard \in 0..Len(sessions)
  BY HeardIs DEF LeftInv
<1>4. /\ sessions' \in Seq(ImportSessions) /\ Len(sessions') = Len(sessions)
      /\ \A k \in 1..Len(sessions) : sessions'[k].rows = sessions[k].rows
  BY <1>2, SessionDropped DEF ImportInv, ImportShapes
<1>5. Heard' = Heard
  BY <1>1, <1>4 DEF Heard
<1>6. /\ "raced" \in importNotes' <=> "raced" \in importNotes
      /\ "zeroed" \in importNotes' <=> "zeroed" \in importNotes
      /\ "late" \in importNotes' <=> "late" \in importNotes
      /\ Undisturbed' <=> Undisturbed
      /\ "ended" \notin importNotes' => "ended" \notin importNotes /\ ~Resumable
  BY <1>2 DEF Undisturbed
<1>7. ImportShapes'
  BY <1>1, <1>2, <1>3, <1>4 DEF ImportInv, ImportShapes
<1>8. ImportIds'
  BY <1>1, <1>2, <1>3, <1>5 DEF ImportInv, ImportIds
<1>9. UploadIsFresh'
  <2>1. upload.phase = "answered" => upload.id \in 1..Len(sessions)
    BY HeardIs DEF ImportInv, UploadIsFresh
  <2>2. QED
    BY <1>1, <1>4, <2>1 DEF ImportInv, UploadIsFresh
<1>10. ResumeIsAlone'
  <2>1. resume.phase = "answered" /\ resume.ok => resume.id \in 1..Len(sessions)
    BY HeardIs DEF ImportInv, ResumeIsAlone
  <2>2. "ended" \notin importNotes' => resume.phase = "none"
    BY <1>6 DEF Resumable
  <2>3. QED
    BY <1>1, <1>4, <1>6, <2>1, <2>2 DEF ImportInv, ResumeIsAlone
<1>11. LaneIsSerial'
  <2>1. \A i \in DOMAIN patchQueue : patchQueue[i].id \in 1..Len(sessions)
    BY HeardIs
  <2>2. QED
    BY <1>1, <1>4, <1>6, <2>1 DEF ImportInv, LaneIsSerial
<1>12. PatchesAreCounted' /\ LaneIsOfPreview'
  BY <1>1, <1>6 DEF ImportInv, PatchesAreCounted, LaneIsOfPreview
<1>13. PreviewIsResumable'
  <2>1. "ended" \notin importNotes' => importStep # "preview"
    BY <1>6 DEF Resumable
  <2>2. QED
    BY <1>1, <2>1 DEF PreviewIsResumable
<1>14. TableTracks'
  <2>1. preview.id # 0 => preview.id \in 1..Len(sessions)
    BY HeardIs
  <2>2. QED
    BY <1>1, <1>4, <1>6, <2>1 DEF ImportInv, TableTracks, Awaited
<1>15. ConfirmsShow'
  <2>1. \A i \in DOMAIN confirms : confirms[i].id \in 1..Len(sessions)
    BY HeardIs
  <2>2. QED
    BY <1>1, <1>4, <1>6, <2>1 DEF ImportInv, ConfirmsShow
<1>16. ConfirmsRecord'
  BY <1>1 DEF ImportInv, ConfirmsRecord, AllInsertable
<1>17. QED
  BY <1>7, <1>8, <1>9, <1>10, <1>11, <1>12, <1>13, <1>14, <1>15, <1>16 DEF ImportInv

LEMMA SessionPatched ==
  ASSUME sessions \in Seq(ImportSessions), NEW id \in DOMAIN sessions, NEW rows
  PROVE  Len([sessions EXCEPT ![id].rows = rows]) = Len(sessions)
<1> DEFINE session == [sessions[id] EXCEPT !.rows = rows]
           S == ImportSessions \cup {session}
<1>1. DOMAIN sessions = 1..Len(sessions)
  BY LenProperties
<1>2. sessions \in Seq(S) /\ session \in S
  BY SMTT(30)
<1>3. Len([sessions EXCEPT ![id] = session]) = Len(sessions)
  BY <1>1, <1>2, ExceptSeq
<1>4. QED
  BY <1>3

\* The sessions the card has heard of only grow.
LEMMA HeardGrows ==
  ASSUME ImportInv, ImportNext
  PROVE  Heard \in Nat /\ Heard' \in Nat /\ Heard <= Heard'
<1>1. /\ Len(sessions) \in Nat /\ Heard \in 0..Len(sessions) /\ sessions \in Seq(ImportSessions)
      /\ \A id : Len(Drop(id)) = Len(sessions)
  BY HeardIs, SessionDropped DEF ImportInv, ImportShapes
<1>2. CASE UNCHANGED upload /\ Len(sessions') = Len(sessions)
  BY <1>1, <1>2 DEF Heard
<1>3. CASE UploadFile
  BY <1>1, <1>3 DEF UploadFile, Heard, serverVars
<1>4. CASE ServeUpload
  <2>1. Len(sessions') = Len(sessions) + 1 /\ upload.phase = "sent" /\ upload'.phase = "answered"
    BY <1>1, <1>4 DEF ServeUpload
  <2>2. QED
    BY <1>1, <2>1 DEF Heard
<1>5. CASE UploadAnswer
  BY <1>1, <1>5, ImportConstants DEF UploadAnswer, Heard, serverVars
<1>6. CASE ReloadCard \/ ReturnToCard
  <2>1. upload' = Idle /\ sessions' = sessions
    BY <1>6, Zenon DEF ReloadCard, ReturnToCard, Remount, serverVars
  <2>2. QED
    BY <1>1, <2>1, ImportConstants DEF Heard
<1>7. CASE ServeResume \/ ResumeAnswer \/ LeftEnd \/ SkipAllRows \/ RefreshSession \/ LaneAnswer \/ ChooseCategory
           \/ ConfirmImport \/ CancelImport \/ ServeCancel \/ CancelAnswer \/ StartOver
  BY <1>1, <1>2, <1>7 DEF ServeResume, ResumeAnswer, LeftEnd, SkipAllRows, RefreshSession, LaneAnswer, ChooseCategory,
     ConfirmImport, CancelImport, ServeCancel, CancelAnswer, StartOver, serverVars, requestVars
<1>8. CASE RecordByHand \/ ConfigureCurrency \/ SessionExpires
  BY <1>1, <1>2, <1>8 DEF RecordByHand, ConfigureCurrency, SessionExpires, requestVars
<1>9. CASE \E r \in ImportRows : CommitEdit(r) \/ ToggleSkip(r)
  BY <1>2, <1>9 DEF CommitEdit, ToggleSkip, serverVars
<1>10. CASE \E i \in DOMAIN confirms : ConfirmGate(i) \/ ConfirmCommit(i) \/ ConfirmAnswer(i)
  <2>1. PICK i \in DOMAIN confirms : ConfirmGate(i) \/ ConfirmCommit(i) \/ ConfirmAnswer(i)
    BY <1>10
  <2>2. UNCHANGED upload /\ (sessions' = sessions \/ sessions' = Drop(confirms[i].id))
    BY <2>1, Zenon DEF ConfirmGate, ConfirmCommit, ConfirmAnswer, serverVars
  <2>3. QED
    BY <1>1, <1>2, <2>2
<1>11. CASE LaneServe
  <2>1. \A i \in DOMAIN patchQueue : Live(patchQueue[i].id) =>
          Len([sessions EXCEPT ![patchQueue[i].id].rows = Patched(patchQueue[i])]) = Len(sessions)
    BY <1>1, SessionPatched DEF Live
  <2>2. UNCHANGED upload /\ Len(sessions') = Len(sessions)
    BY <1>11, <2>1 DEF LaneServe, ServePatch, ServeRefresh, serverVars, requestVars
  <2>3. QED
    BY <1>2, <2>2
<1>12. CASE LeftServe
  <2>1. PICK lane \in leftLanes :
          \/ /\ Live(Head(lane.jobs).id)
             /\ sessions' = [sessions EXCEPT ![Head(lane.jobs).id].rows = Patched(Head(lane.jobs))]
          \/ UNCHANGED sessions
    BY <1>12 DEF LeftServe
  <2>2. UNCHANGED upload /\ Len(sessions') = Len(sessions)
    BY <1>1, <1>12, <2>1, SessionPatched DEF LeftServe, Live, requestVars
  <2>3. QED
    BY <1>2, <2>2
<1>13. QED
  BY <1>3, <1>4, <1>5, <1>6, <1>7, <1>8, <1>9, <1>10, <1>11, <1>12 DEF ImportNext

LEMMA LeftStands ==
  ASSUME LeftInv, Heard \in Nat, Heard' \in Nat, Heard <= Heard'
  PROVE  /\ \A lane \in leftLanes : LeftLane(lane, Heard')
         /\ \A e \in leftEnds : e.to \in 0..Heard'
<1>1. \A lane \in leftLanes : LeftLane(lane, Heard')
  <2> SUFFICES ASSUME NEW lane \in leftLanes PROVE LeftLane(lane, Heard')
    OBVIOUS
  <2>1. LeftLane(lane, Heard)
    BY DEF LeftInv
  <2>2. \A i \in DOMAIN lane.jobs : lane.jobs[i].id \in Nat /\ lane.jobs[i].id <= Heard
    <3>1. lane.jobs \in Seq(ImportJobs) /\ \A i \in DOMAIN lane.jobs : lane.jobs[i].id <= Heard
      BY <2>1 DEF LeftLane
    <3>2. \A i \in DOMAIN lane.jobs : lane.jobs[i] \in ImportJobs
      BY <3>1, ElementOfSeq, LenProperties
    <3>3. QED
      BY <3>1, <3>2 DEF ImportJobs
  <2>3. \A i \in DOMAIN lane.jobs : lane.jobs[i].id <= Heard'
    BY <2>2
  <2>4. QED
    BY <2>1, <2>3 DEF LeftLane
<1>2. \A e \in leftEnds : e.to \in 0..Heard'
  BY DEF LeftInv
<1>3. QED
  BY <1>1, <1>2

\* What a mount has in its lane is of sessions it has heard of.
LEMMA OwnLaneIs ==
  ASSUME ImportInv, NEW lane \in OwnLane
  PROVE  LeftLane(lane, Heard)
<1> DEFINE queued == patchQueue \o burst
           jobs == IF patchQueue # <<>> /\ patchQueue[1].served THEN Tail(queued) ELSE queued
<1>1. lane = [mount |-> importBudget.disturbances, jobs |-> jobs] /\ jobs # <<>>
  BY DEF OwnLane
<1>2. patchQueue \in Seq(ImportJobs) /\ burst \in Seq(ImportJobs)
  <2>1. burst \in Seq(ImportBursts) /\ ImportBursts \subseteq ImportJobs
    BY DEF ImportInv, ImportShapes, ImportBursts
  <2>2. burst \in Seq(ImportJobs)
    BY <2>1, SMTT(30)
  <2>3. QED
    BY <2>2 DEF ImportInv, ImportShapes
<1>3. queued \in Seq(ImportJobs) /\ DOMAIN queued = 1..Len(queued) /\ Len(queued) = Len(patchQueue) + Len(burst)
  BY <1>2, ConcatProperties, LenProperties
<1>4. \A i \in DOMAIN queued : queued[i].id <= Heard
  <2>1. /\ \A i \in 1..Len(patchQueue) : patchQueue[i].id <= Heard
        /\ \A i \in 1..Len(burst) : burst[i].id <= Heard
        /\ Len(patchQueue) \in Nat /\ Len(burst) \in Nat
    BY <1>2, HeardIs, LenProperties DEF ImportInv, ImportIds
  <2>2. \A i \in 1..(Len(patchQueue) + Len(burst)) :
          queued[i] = IF i <= Len(patchQueue) THEN patchQueue[i] ELSE burst[i - Len(patchQueue)]
    BY <1>2, ConcatProperties
  <2>3. QED
    BY <1>3, <2>1, <2>2
<1>5. CASE patchQueue # <<>> /\ patchQueue[1].served
  <2>1. queued # <<>>
    BY <1>2, <1>3, <1>5, EmptySeq, LenProperties
  <2>2. PICK l : LeftLane(l, Heard) /\ l.jobs = queued
    <3>1. LeftLane([mount |-> 0, jobs |-> queued], Heard)
      BY <1>3, <1>4, <2>1 DEF LeftLane
    <3>2. QED
      BY <3>1
  <2>3. Tail(queued) \in Seq(ImportJobs) /\ \A i \in DOMAIN Tail(queued) : Tail(queued)[i].id <= Heard
    BY <2>2, LeftJobs
  <2>4. QED
    BY <1>1, <1>5, <2>3 DEF LeftLane
<1>6. CASE ~(patchQueue # <<>> /\ patchQueue[1].served)
  BY <1>1, <1>3, <1>4, <1>6 DEF LeftLane
<1>7. QED
  BY <1>5, <1>6

LEMMA LeftStarts == ImportInit => LeftInv
BY DEF ImportInit, LeftInv

LEMMA LeftSteps ==
  ASSUME ImportInv, LeftInv, ImportNext
  PROVE  LeftInv'
<1>1. /\ Heard \in Nat /\ Heard' \in Nat /\ Heard <= Heard'
      /\ \A lane \in leftLanes : LeftLane(lane, Heard')
      /\ \A e \in leftEnds : e.to \in 0..Heard'
  BY HeardGrows, LeftStands
<1>2. CASE UNCHANGED <<leftLanes, leftEnds>>
  BY <1>1, <1>2 DEF LeftInv
<1>3. CASE ReloadCard \/ ReturnToCard
  <2>1. upload' = Idle /\ sessions' = sessions
    BY <1>3 DEF ReloadCard, ReturnToCard, Remount, serverVars
  <2>2. Heard' = Len(sessions) /\ Heard \in 0..Len(sessions) /\ Len(sessions) \in Nat
    BY <2>1, HeardIs, ImportConstants DEF Heard
  <2>3. \A lane \in leftLanes \cup OwnLane : LeftLane(lane, Heard')
    <3>1. \A lane \in OwnLane : LeftLane(lane, Heard')
      <4> SUFFICES ASSUME NEW lane \in OwnLane PROVE LeftLane(lane, Heard')
        OBVIOUS
      <4>1. LeftLane(lane, Heard)
        BY OwnLaneIs
      <4>2. lane.jobs \in Seq(ImportJobs) /\ \A i \in DOMAIN lane.jobs : lane.jobs[i].id <= Heard
        BY <4>1 DEF LeftLane
      <4>3. \A i \in DOMAIN lane.jobs : lane.jobs[i] \in ImportJobs
        BY <4>2, ElementOfSeq, LenProperties
      <4>4. \A i \in DOMAIN lane.jobs : lane.jobs[i].id <= Heard'
        BY <2>2, <4>2, <4>3 DEF ImportJobs
      <4>5. QED
        BY <4>1, <4>4 DEF LeftLane
    <3>2. QED
      BY <1>1, <3>1
  <2>4. CASE ReloadCard
    <3>1. /\ leftLanes' = {[lane EXCEPT !.jobs = <<Head(@)>>] : lane \in leftLanes \cup OwnLane}
          /\ leftEnds' = {}
      BY <2>4 DEF ReloadCard
    <3>2. ASSUME NEW lane \in leftLanes \cup OwnLane
          PROVE  LeftLane([lane EXCEPT !.jobs = <<Head(@)>>], Heard')
      <4>1. LeftLane(lane, Heard')
        BY <2>3
      <4>2. Head(lane.jobs) \in ImportJobs /\ Head(lane.jobs).id <= Heard'
        BY <4>1, LeftJobs
      <4>3. [lane EXCEPT !.jobs = <<Head(@)>>] = [mount |-> lane.mount, jobs |-> <<Head(lane.jobs)>>]
        BY <4>1 DEF LeftLane
      <4>4. /\ <<Head(lane.jobs)>> \in Seq(ImportJobs) /\ <<Head(lane.jobs)>> # <<>>
            /\ \A i \in DOMAIN <<Head(lane.jobs)>> : <<Head(lane.jobs)>>[i].id <= Heard'
        BY <4>2
      <4>5. QED
        BY <4>3, <4>4 DEF LeftLane
    <3>3. QED
      BY <3>1, <3>2 DEF LeftInv
  <2>5. CASE ReturnToCard
    <3>1. leftLanes' = leftLanes \cup OwnLane /\ leftEnds' = leftEnds \cup OwnEnds
      BY <2>5 DEF ReturnToCard
    <3>2. \A e \in OwnEnds : e.to = 0 \/ (upload.phase = "answered" /\ e.to = upload.id)
      BY DEF OwnEnds, End
    <3>3. upload.phase = "answered" => upload.id = Len(sessions)
      BY DEF ImportInv, UploadIsFresh
    <3>4. \A e \in leftEnds' : e.to \in 0..Heard'
      BY <1>1, <2>2, <3>1, <3>2, <3>3
    <3>5. QED
      BY <2>3, <3>1, <3>4 DEF LeftInv
  <2>6. QED
    BY <1>3, <2>4, <2>5
<1>4. CASE LeftServe
  <2>1. PICK lane \in leftLanes :
          /\ leftLanes' = (leftLanes \ {lane})
                          \cup (IF Tail(lane.jobs) = <<>> THEN {} ELSE {[lane EXCEPT !.jobs = Tail(lane.jobs)]})
          /\ leftEnds' = leftEnds
    BY <1>4 DEF LeftServe
  <2>2. LeftLane(lane, Heard')
    BY <1>1
  <2>3. [lane EXCEPT !.jobs = Tail(lane.jobs)] = [mount |-> lane.mount, jobs |-> Tail(lane.jobs)]
    BY <2>2, LaneWith
  <2>4. Tail(lane.jobs) # <<>> => LeftLane([lane EXCEPT !.jobs = Tail(lane.jobs)], Heard')
    BY <2>2, <2>3, LeftJobs DEF LeftLane
  <2>5. QED
    BY <1>1, <2>1, <2>4 DEF LeftInv
<1>5. CASE LeftEnd
  BY <1>1, <1>5 DEF LeftEnd, LeftInv
<1>6. CASE UploadFile \/ ServeUpload \/ UploadAnswer \/ ServeResume \/ ResumeAnswer \/ SkipAllRows \/ RefreshSession
           \/ LaneAnswer \/ ChooseCategory \/ ConfirmImport \/ CancelImport \/ ServeCancel \/ CancelAnswer \/ StartOver
  BY <1>2, <1>6 DEF UploadFile, ServeUpload, UploadAnswer, ServeResume, ResumeAnswer, SkipAllRows, RefreshSession,
     LaneAnswer, ChooseCategory, ConfirmImport, CancelImport, ServeCancel, CancelAnswer, StartOver, backgroundVars
<1>7. CASE RecordByHand \/ ConfigureCurrency \/ SessionExpires \/ LaneServe
  BY <1>2, <1>7, Zenon DEF RecordByHand, ConfigureCurrency, SessionExpires, LaneServe, ServePatch, ServeRefresh,
     backgroundVars
<1>8. CASE \E r \in ImportRows : CommitEdit(r) \/ ToggleSkip(r)
  BY <1>2, <1>8 DEF CommitEdit, ToggleSkip, backgroundVars
<1>9. CASE \E i \in DOMAIN confirms : ConfirmGate(i) \/ ConfirmCommit(i) \/ ConfirmAnswer(i)
  BY <1>2, <1>9, Zenon DEF ConfirmGate, ConfirmCommit, ConfirmAnswer, backgroundVars
<1>10. QED
  BY <1>3, <1>4, <1>5, <1>6, <1>7, <1>8, <1>9 DEF ImportNext

LEMMA ImportSteps == ImportInv /\ LeftInv /\ [ImportNext]_importVars => ImportInv' /\ LeftInv'
<1> SUFFICES ASSUME ImportInv, LeftInv, [ImportNext]_importVars PROVE ImportInv' /\ LeftInv'
  OBVIOUS
<1>1. CASE UNCHANGED importVars
  <2>1. LeftInv'
    BY <1>1 DEF LeftInv, Heard, importVars, serverVars, requestVars, backgroundVars
  <2>2. QED
    BY <1>1, <2>1, ImportStands
<1>2. ASSUME ImportNext PROVE ImportInv'
  <2>1. CASE UploadFile \/ ServeUpload \/ UploadAnswer
    BY <2>1, UploadFileKeeps, ServeUploadKeeps, UploadAnswerKeeps
  <2>2. CASE ReloadCard \/ ReturnToCard \/ ServeResume \/ ResumeAnswer
    BY <2>2, RemountKeeps, ServeResumeKeeps, ResumeAnswerKeeps
  <2>3. CASE LeftServe \/ LeftEnd
    BY <2>3, LeftServeKeeps, LeftEndKeeps
  <2>4. CASE \E r \in ImportRows : CommitEdit(r) \/ ToggleSkip(r)
    BY <2>4, EditsKeep
  <2>5. CASE SkipAllRows \/ RefreshSession \/ LaneServe \/ LaneAnswer \/ ChooseCategory
    BY <2>5, SkipAllRowsKeeps, RefreshSessionKeeps, LaneServeKeeps, LaneAnswerKeeps, ChooseCategoryKeeps
  <2>6. CASE ConfirmImport
    BY <2>6, ConfirmImportKeeps
  <2>7. CASE \E i \in DOMAIN confirms : ConfirmGate(i) \/ ConfirmCommit(i) \/ ConfirmAnswer(i)
    BY <2>7, ConfirmGateKeeps, ConfirmCommitKeeps, ConfirmAnswerKeeps
  <2>8. CASE CancelImport \/ ServeCancel
    BY <2>8, CancelKeeps
  <2>9. CASE CancelAnswer \/ StartOver
    BY <2>9, ClearKeeps
  <2>10. CASE RecordByHand \/ ConfigureCurrency \/ SessionExpires
    BY <2>10, RestOfSystemKeeps
  <2>11. QED
    BY <1>2, <2>1, <2>2, <2>3, <2>4, <2>5, <2>6, <2>7, <2>8, <2>9, <2>10 DEF ImportNext
<1>3. ASSUME ImportNext PROVE LeftInv'
  BY <1>3, LeftSteps
<1>4. QED
  BY <1>1, <1>2, <1>3

\* For files of any size, an import records no content twice and every row the user kept,
\* but for what is recorded between its gate and its transaction; it records the preview as
\* it was shown, and a reload asks for that session, but for the notes that ImportsWhatWasShown,
\* PreviewTracksServer and PreviewIsResumable name (useImportSession.ts, import_handlers.go).
THEOREM ImportHolds ==
  ImportSpec => [](/\ ImportTypeOK /\ NoDoubleImport /\ ConfirmRecordsAll /\ ImportsWhatWasShown
                   /\ PreviewTracksServer /\ PreviewIsResumable)
<1>1. ImportInit => ImportInv /\ LeftInv
  BY ImportStarts, LeftStarts
<1>2. ImportInv /\ LeftInv /\ [ImportNext]_importVars => ImportInv' /\ LeftInv'
  BY ImportSteps
<1>3. ImportInv => /\ ImportTypeOK /\ NoDoubleImport /\ ConfirmRecordsAll /\ ImportsWhatWasShown
                   /\ PreviewTracksServer /\ PreviewIsResumable
  BY ImportTyped, ImportPromises
<1>4. QED
  BY <1>1, <1>2, <1>3, PTL DEF ImportSpec

(***************************************************************************)
(* The entry row (EntryForm): what becomes of an entry is told key by key. *)
(* A key goes from its first send to the toast that offers a retry, to the *)
(* saved row and to the undo, and is never sent again once it is saved.    *)
(***************************************************************************)
EntryShapes ==
  /\ typedCount \in 0..MaxTyped /\ entry \in 0..typedCount /\ entryDefaults \in 0..typedCount
  /\ sendingEntry \in BOOLEAN
  /\ entrySends \in [EntryKeys -> [phase : {"none", "asked", "ok", "unknown", "refused"}, retry : BOOLEAN]]
  /\ entryOf \in [EntryKeys -> 0..typedCount]
  /\ entryToast \in [EntryKeys -> {"none", "retry", "refused", "loading", "saved"}]
  /\ undoBuffer \in 0..MaxEntryKeys
  /\ undos \subseteq [key : EntryKeys, phase : {"asked", "ok", "failed"}]
  /\ entryRows \in [EntryKeys -> {"none", "live", "trashed"}]
  /\ discarded \subseteq 1..typedCount /\ crossed \subseteq 1..typedCount /\ resent \subseteq 1..typedCount

Sending(k) == entrySends[k].phase # "none"
FirstSend(k) == Sending(k) /\ ~entrySends[k].retry
UnsavedEntry(k) == Sending(k) \/ entryToast[k] \in {"retry", "refused", "loading"}
ToUndo(k) == undoBuffer = k \/ \E u \in undos : u.key = k

\* A key that is not used has left no trace.
UnusedKeys ==
  \A k \in EntryKeys : entryOf[k] = 0 =>
     ~UnsavedEntry(k) /\ entryToast[k] = "none" /\ entryRows[k] = "none" /\ ~ToUndo(k)

\* What each key has come to: only a saved one can be undone, and it is not sent again.
KeysInPhase ==
  \A k \in EntryKeys :
     /\ UnsavedEntry(k) => entryRows[k] # "trashed" /\ ~ToUndo(k)
     /\ Sending(k) => entryToast[k] = IF entrySends[k].retry THEN "loading" ELSE "none"
     /\ entryToast[k] = "loading" => Sending(k)
     /\ entrySends[k].phase = "ok" => entryRows[k] = "live"

\* A key is undone once at a time, and until then its row is there.
UndosApart ==
  /\ \A u, v \in undos : u.key = v.key => u = v
  /\ \A u \in undos : u.key # undoBuffer
  /\ \A u \in undos : IF u.phase = "ok" THEN entryRows[u.key] = "trashed"
                      ELSE entryRows[u.key] = "live" \/ entryOf[u.key] \in crossed
  /\ undoBuffer # 0 => entryRows[undoBuffer] = "live" \/ entryOf[undoBuffer] \in crossed

GivenUp(e) == e \in discarded \cup crossed
InForm(e) == GivenUp(e) \/ e = entry \/ (\E k \in EntryKeys : entryOf[k] = e /\ entryRows[k] = "live")
             \/ \E u \in undos : entryOf[u.key] = e

\* The form can be emptied at the answer to a first send, and go back to its defaults.
FormCanGo ==
  /\ entryDefaults = 0 \/ entryDefaults = entry \/ GivenUp(entryDefaults)
  /\ \A k \in EntryKeys : FirstSend(k) => /\ entry = 0 \/ entry = entryOf[k] \/ GivenUp(entry)
                                         /\ InForm(entryOf[k])

EntriesKept ==
  \A e \in 1..typedCount :
     InForm(e) \/ \E k \in EntryKeys : entryOf[k] = e /\ (Sending(k) \/ entryToast[k] = "retry")

\* A key whose entry has, or may come to have, a row.
BusyKey(k) == Sending(k) \/ entryToast[k] = "retry" \/ entryRows[k] = "live"
              \/ \E u \in undos : u.key = k /\ u.phase = "ok"
OpenKey(k) == Sending(k) \/ entryToast[k] \in {"retry", "refused"}

\* An entry has one such key, and is in the form only while that key is open.
OneBusyKey ==
  /\ ~sendingEntry => \A k \in EntryKeys : Sending(k) => entryOf[k] \in resent
  /\ \A j, k \in EntryKeys : j # k /\ entryOf[j] = entryOf[k] /\ BusyKey(j) /\ BusyKey(k) => entryOf[k] \in resent
  /\ \A k \in EntryKeys : entryOf[k] = entry /\ BusyKey(k) => entry \in resent \/ OpenKey(k)

EntryInv == EntryShapes /\ UnusedKeys /\ KeysInPhase /\ UndosApart /\ FormCanGo /\ EntriesKept /\ OneBusyKey

LEMMA EntryStarts == EntryInit => EntryInv
<1> SUFFICES ASSUME EntryInit PROVE EntryInv
  OBVIOUS
<1>1. EntryShapes
  <2>1. MaxTyped \in Nat /\ MaxEntryKeys \in Nat
    BY EntryAssumption
  <2>2. NoSend \in [phase : {"none", "asked", "ok", "unknown", "refused"}, retry : BOOLEAN]
    BY DEF NoSend
  <2>3. typedCount = 0 /\ 0 \in 0..MaxTyped /\ 0 \in 0..0 /\ 0 \in 0..MaxEntryKeys
    BY <2>1 DEF EntryInit
  <2>4. entrySends \in [EntryKeys -> [phase : {"none", "asked", "ok", "unknown", "refused"}, retry : BOOLEAN]]
    BY <2>2 DEF EntryInit
  <2>5. QED
    BY <2>3, <2>4 DEF EntryInit, EntryShapes
<1>2. ASSUME NEW k \in EntryKeys
      PROVE  /\ entrySends[k].phase = "none" /\ ~entrySends[k].retry /\ entryOf[k] = 0 /\ entryToast[k] = "none"
             /\ entryRows[k] = "none" /\ undoBuffer # k
  BY EntryAssumption DEF EntryInit, NoSend, EntryKeys
<1>3. undos = {} /\ undoBuffer = 0 /\ typedCount = 0 /\ entryDefaults = 0
  BY DEF EntryInit
<1>4. UnusedKeys /\ KeysInPhase /\ UndosApart /\ FormCanGo /\ EntriesKept /\ OneBusyKey
  BY <1>2, <1>3 DEF UnusedKeys, KeysInPhase, UndosApart, FormCanGo, EntriesKept, OneBusyKey, UnsavedEntry, ToUndo,
                    Sending, FirstSend, BusyKey
<1>5. QED
  BY <1>1, <1>4 DEF EntryInv

LEMMA TypeEntryKeeps == ASSUME EntryInv, TypeEntry PROVE EntryInv'
<1>1. typedCount < MaxTyped /\ typedCount' = typedCount + 1 /\ entry' = typedCount + 1
  BY DEF TypeEntry
<1>2. IF FirstUnderWay
       THEN crossed' = crossed \cup Filled(entry) \cup {typedCount + 1} /\ UNCHANGED discarded
       ELSE discarded' = discarded \cup Filled(entry) /\ UNCHANGED crossed
  BY DEF TypeEntry
<1>3. UNCHANGED <<entryDefaults, sendingEntry, entrySends, entryOf, entryToast, undoBuffer, undos,
                   entryRows, resent>>
  BY DEF TypeEntry
<1>4. typedCount \in Nat /\ MaxTyped \in Nat
  BY EntryAssumption DEF EntryInv, EntryShapes
<1>5. \A e : e \in Filled(entry) <=> e = entry /\ e # 0
  BY DEF Filled
<1>6. EntryShapes'
  <2>1. /\ typedCount' \in 0..MaxTyped /\ entry' \in 0..typedCount' /\ entryDefaults' \in 0..typedCount'
        /\ entryOf' \in [EntryKeys -> 0..typedCount'] /\ resent' \subseteq 1..typedCount'
    BY <1>1, <1>3, <1>4 DEF EntryInv, EntryShapes
  <2>2. Filled(entry) \subseteq 1..typedCount' /\ typedCount + 1 \in 1..typedCount'
    BY <1>1, <1>4, <1>5 DEF EntryInv, EntryShapes
  <2>3. discarded \subseteq 1..typedCount' /\ crossed \subseteq 1..typedCount'
    BY <1>1, <1>4 DEF EntryInv, EntryShapes
  <2>4. discarded' \subseteq 1..typedCount' /\ crossed' \subseteq 1..typedCount'
    BY <1>2, <2>2, <2>3
  <2>5. QED
    BY <1>3, <2>1, <2>4 DEF EntryInv, EntryShapes
<1>7. UnusedKeys' /\ KeysInPhase' /\ UndosApart'
  BY <1>2, <1>3 DEF EntryInv, UnusedKeys, KeysInPhase, UndosApart, UnsavedEntry, ToUndo, Sending
<1>8. \A e : /\ GivenUp(e) => GivenUp(e)'
             /\ (e = entry /\ e # 0 => GivenUp(e)')
             /\ (e # 0 /\ InForm(e) => InForm(e)')
  BY <1>2, <1>3, <1>5 DEF GivenUp, InForm
<1>9. FirstUnderWay => GivenUp(entry)'
  BY <1>1, <1>2 DEF GivenUp
<1>10. FormCanGo'
  <2>1. entryDefaults' = 0 \/ entryDefaults' = entry' \/ GivenUp(entryDefaults)'
    BY <1>3, <1>8 DEF EntryInv, FormCanGo
  <2>2. ASSUME NEW k \in EntryKeys, FirstSend(k)' PROVE GivenUp(entry)' /\ InForm(entryOf[k])'
    <3>1. FirstSend(k) /\ FirstUnderWay
      BY <1>3, <2>2 DEF FirstSend, Sending, FirstUnderWay
    <3>2. entryOf[k] # 0 /\ entryOf'[k] = entryOf[k]
      BY <1>3, <3>1 DEF FirstSend, EntryInv, UnusedKeys, UnsavedEntry
    <3>3. InForm(entryOf[k])
      BY <3>1 DEF EntryInv, FormCanGo
    <3>4. QED
      BY <1>3, <1>8, <1>9, <3>1, <3>2, <3>3 DEF GivenUp, InForm
  <2>3. QED
    BY <2>1, <2>2 DEF FormCanGo
<1>11. EntriesKept'
  <2>1. ASSUME NEW e \in 1..typedCount'
        PROVE  InForm(e)' \/ \E k \in EntryKeys : entryOf'[k] = e /\ (Sending(k)' \/ entryToast'[k] = "retry")
    <3>1. CASE e = typedCount + 1
      BY <1>1, <3>1 DEF InForm
    <3>2. CASE e # typedCount + 1
      <4>1. e \in 1..typedCount
        BY <1>1, <1>4, <3>2
      <4>2. QED
        BY <1>3, <1>8, <4>1 DEF EntryInv, EntriesKept, Sending
    <3>3. QED
      BY <3>1, <3>2
  <2>2. QED
    BY <2>1 DEF EntriesKept
<1>12. OneBusyKey'
  <2>1. ASSUME NEW k \in EntryKeys PROVE entryOf'[k] # entry'
    BY <1>1, <1>3, <1>4 DEF EntryInv, EntryShapes
  <2>2. QED
    BY <1>3, <2>1 DEF EntryInv, OneBusyKey, BusyKey, Sending
<1>13. QED
  BY <1>6, <1>7, <1>10, <1>11, <1>12 DEF EntryInv

LEMMA EscapeEntryKeeps == ASSUME EntryInv, EscapeEntry PROVE EntryInv'
<1>1. /\ entry # entryDefaults /\ discarded' = discarded \cup Filled(entry) /\ entry' = entryDefaults
      /\ resent' = IF SavedAgain(entryDefaults) THEN resent \cup {entryDefaults} ELSE resent
  BY DEF EscapeEntry
<1>2. UNCHANGED <<entryDefaults, sendingEntry, entrySends, entryOf, entryToast, undoBuffer, undos,
                  entryRows, typedCount, crossed>>
  BY DEF EscapeEntry
<1>3. \A e : e \in Filled(entry) <=> e = entry /\ e # 0
  BY DEF Filled
<1>4. SavedAgain(entryDefaults) => entryDefaults # 0
  BY DEF SavedAgain, EntryInv, UnusedKeys, ToUndo
<1>5. EntryShapes'
  <2>1. Filled(entry) \subseteq 1..typedCount /\ (entryDefaults # 0 => entryDefaults \in 1..typedCount)
    BY <1>3 DEF EntryInv, EntryShapes
  <2>2. discarded' \subseteq 1..typedCount /\ resent' \subseteq 1..typedCount
    BY <1>1, <1>4, <2>1 DEF EntryInv, EntryShapes
  <2>3. QED
    BY <1>1, <1>2, <2>2 DEF EntryInv, EntryShapes
<1>6. UnusedKeys' /\ KeysInPhase' /\ UndosApart'
  BY <1>1, <1>2 DEF EntryInv, UnusedKeys, KeysInPhase, UndosApart, UnsavedEntry, ToUndo, Sending
<1>7. \A e : /\ GivenUp(e) => GivenUp(e)'
             /\ (e # 0 /\ InForm(e) => InForm(e)')
  BY <1>1, <1>2, <1>3 DEF GivenUp, InForm
<1>8. FormCanGo'
  <2>1. entry' = 0 \/ GivenUp(entry)'
    BY <1>1, <1>7 DEF EntryInv, FormCanGo
  <2>2. ASSUME NEW k \in EntryKeys, FirstSend(k)' PROVE InForm(entryOf[k])'
    <3>1. FirstSend(k) /\ entryOf[k] # 0 /\ entryOf'[k] = entryOf[k]
      BY <1>2, <2>2 DEF FirstSend, Sending, EntryInv, UnusedKeys, UnsavedEntry
    <3>2. QED
      BY <1>7, <3>1 DEF EntryInv, FormCanGo, InForm, GivenUp
  <2>3. QED
    BY <1>1, <1>2, <2>1, <2>2 DEF FormCanGo
<1>9. EntriesKept'
  BY <1>2, <1>7 DEF EntryInv, EntriesKept, Sending
<1>10. OneBusyKey'
  <2>1. \A k \in EntryKeys : (BusyKey(k)' <=> BusyKey(k)) /\ (OpenKey(k)' <=> OpenKey(k)) /\ (Sending(k)' <=> Sending(k))
    BY <1>2 DEF BusyKey, OpenKey, Sending
  <2>2. resent \subseteq resent'
    BY <1>1
  <2>3. ASSUME NEW k \in EntryKeys, entryOf[k] = entryDefaults, BusyKey(k), ~OpenKey(k)
        PROVE  entryDefaults \in resent'
    <3>1. SavedAgain(entryDefaults)
      BY <2>3 DEF SavedAgain, BusyKey, OpenKey
    <3>2. QED
      BY <1>1, <3>1
  <2>4. QED
    BY <1>1, <1>2, <2>1, <2>2, <2>3 DEF EntryInv, OneBusyKey
<1>11. QED
  BY <1>5, <1>6, <1>8, <1>9, <1>10 DEF EntryInv

LEMMA AddEntryKeeps == ASSUME EntryInv, AddEntry PROVE EntryInv'
<1>1. PICK k \in EntryKeys :
         /\ entryOf[k] = 0 /\ entryOf' = [entryOf EXCEPT ![k] = entry]
         /\ entrySends' = [entrySends EXCEPT ![k] = [phase |-> "asked", retry |-> FALSE]]
  BY DEF AddEntry
<1>2. /\ ~sendingEntry /\ entry # 0 /\ sendingEntry' = TRUE
      /\ resent' = IF \E j \in EntryKeys : entryOf[j] = entry /\ Unsure(j)
                   THEN resent \cup {entry} ELSE resent
  BY DEF AddEntry, MayAdd
<1>3. UNCHANGED <<entry, entryDefaults, entryToast, undoBuffer, undos, entryRows, typedCount, discarded, crossed>>
  BY DEF AddEntry
<1> DEFINE h == [phase |-> "asked", retry |-> FALSE]
<1>4. h \in [phase : {"none", "asked", "ok", "unknown", "refused"}, retry : BOOLEAN] /\ h.phase = "asked" /\ ~h.retry
  OBVIOUS
<1> HIDE DEF h
<1>5. \A j \in EntryKeys : /\ entryOf'[j] = IF j = k THEN entry ELSE entryOf[j]
                           /\ entrySends'[j] = IF j = k THEN h ELSE entrySends[j]
  BY <1>1 DEF EntryInv, EntryShapes, h
<1>6. ~UnsavedEntry(k) /\ entryToast[k] = "none" /\ entryRows[k] = "none" /\ ~ToUndo(k)
  BY <1>1 DEF EntryInv, UnusedKeys
<1>7. EntryShapes'
  <2>1. entryOf' \in [EntryKeys -> 0..typedCount] /\ resent' \subseteq 1..typedCount
    BY <1>1, <1>2 DEF EntryInv, EntryShapes
  <2>2. entrySends' \in [EntryKeys -> [phase : {"none", "asked", "ok", "unknown", "refused"}, retry : BOOLEAN]]
    BY <1>1, <1>4 DEF EntryInv, EntryShapes, h
  <2>3. QED
    BY <1>2, <1>3, <2>1, <2>2 DEF EntryInv, EntryShapes
<1>8. UnusedKeys'
  BY <1>2, <1>3, <1>5 DEF EntryInv, UnusedKeys, UnsavedEntry, ToUndo, Sending
<1>9. KeysInPhase'
  BY <1>3, <1>4, <1>5, <1>6 DEF EntryInv, KeysInPhase, UnsavedEntry, ToUndo, Sending
<1>10. UndosApart'
  BY <1>3, <1>5, <1>6 DEF EntryInv, UndosApart, ToUndo, EntryShapes, EntryKeys
<1>11. \A e : (GivenUp(e)' <=> GivenUp(e)) /\ (e # 0 /\ InForm(e) => InForm(e)')
  BY <1>1, <1>3, <1>5, <1>6 DEF GivenUp, InForm, ToUndo, EntryInv, EntryShapes
<1>12. FormCanGo'
  <2>1. ASSUME NEW j \in EntryKeys, FirstSend(j)'
        PROVE  (entry = 0 \/ entry = entryOf'[j] \/ GivenUp(entry)) /\ InForm(entryOf[j])'
    <3>1. CASE j = k
      BY <1>3, <1>5, <3>1 DEF InForm
    <3>2. CASE j # k
      <4>1. FirstSend(j) /\ entryOf[j] # 0
        BY <1>5, <2>1, <3>2 DEF FirstSend, Sending, EntryInv, UnusedKeys, UnsavedEntry
      <4>2. InForm(entryOf[j]) /\ (entry = 0 \/ entry = entryOf[j] \/ GivenUp(entry)) /\ entryOf'[j] = entryOf[j]
        BY <1>5, <3>2, <4>1 DEF EntryInv, FormCanGo
      <4>3. QED
        BY <1>3, <1>11, <4>1, <4>2 DEF InForm, GivenUp
    <3>3. QED
      BY <3>1, <3>2
  <2>2. QED
    BY <1>3, <1>11, <2>1 DEF EntryInv, FormCanGo
<1>13. EntriesKept'
  <2>1. ASSUME NEW e \in 1..typedCount, NEW j \in EntryKeys, entryOf[j] = e, Sending(j) \/ entryToast[j] = "retry"
        PROVE  entryOf'[j] = e /\ (Sending(j)' \/ entryToast'[j] = "retry")
    BY <1>1, <1>3, <1>5, <2>1 DEF Sending, EntryInv, EntryShapes
  <2>2. ASSUME NEW e \in 1..typedCount
        PROVE  InForm(e)' \/ \E j \in EntryKeys : entryOf'[j] = e /\ (Sending(j)' \/ entryToast'[j] = "retry")
    <3>1. e # 0
      BY DEF EntryInv, EntryShapes
    <3>2. QED
      BY <1>11, <2>1, <3>1 DEF EntryInv, EntriesKept
  <2>3. QED
    BY <1>3, <2>2 DEF EntriesKept
<1>14. OneBusyKey'
  <2>1. ASSUME NEW j \in EntryKeys, entryOf[j] = entry, BusyKey(j)
        PROVE  entry \in resent'
    <3>1. entry \in resent \/ OpenKey(j)
      BY <2>1 DEF EntryInv, OneBusyKey
    <3>2. Sending(j) => entry \in resent
      BY <1>2, <2>1 DEF EntryInv, OneBusyKey
    <3>3. CASE entryToast[j] = "refused"
      <4>1. ~Sending(j) \/ entry \in resent
        BY <3>2
      <4>2. ~(\E u \in undos : u.key = j)
        BY <3>3 DEF EntryInv, KeysInPhase, UnsavedEntry, ToUndo
      <4>3. entry \in resent \/ entryRows[j] = "live"
        BY <2>1, <3>3, <4>1, <4>2 DEF BusyKey
      <4>4. QED
        BY <1>2, <2>1, <3>3, <4>3 DEF Unsure
    <3>4. QED
      BY <1>2, <2>1, <3>1, <3>2, <3>3 DEF OpenKey, Unsure
  <2>2. resent \subseteq resent'
    BY <1>2
  <2>3. \A j \in EntryKeys \ {k} : (BusyKey(j)' <=> BusyKey(j)) /\ (OpenKey(j)' <=> OpenKey(j)) /\ entryOf'[j] = entryOf[j]
    BY <1>3, <1>5 DEF BusyKey, OpenKey, Sending
  <2>4. ASSUME NEW i \in EntryKeys, NEW j \in EntryKeys, i # j, entryOf'[i] = entryOf'[j], BusyKey(i)', BusyKey(j)'
        PROVE  entryOf'[j] \in resent'
    <3>1. CASE i # k /\ j # k
      BY <2>2, <2>3, <2>4, <3>1 DEF EntryInv, OneBusyKey
    <3>2. CASE i = k
      BY <1>5, <2>1, <2>3, <2>4, <3>2
    <3>3. CASE j = k
      BY <1>5, <2>1, <2>3, <2>4, <3>3
    <3>4. QED
      BY <3>1, <3>2, <3>3
  <2>5. ASSUME NEW j \in EntryKeys, entryOf'[j] = entry, BusyKey(j)' PROVE entry \in resent' \/ OpenKey(j)'
    <3>1. CASE j = k
      BY <1>4, <1>5, <3>1 DEF OpenKey, Sending
    <3>2. CASE j # k
      BY <2>1, <2>3, <2>5, <3>2
    <3>3. QED
      BY <3>1, <3>2
  <2>6. QED
    BY <1>2, <1>3, <2>4, <2>5 DEF OneBusyKey
<1>15. QED
  BY <1>7, <1>8, <1>9, <1>10, <1>12, <1>13, <1>14 DEF EntryInv

LEMMA ServeEntryKeeps == ASSUME EntryInv, ServeEntry PROVE EntryInv'
<1>1. PICK k \in EntryKeys, p \in {"ok", "unknown", "refused"}, stored \in BOOLEAN :
         /\ entrySends[k].phase = "asked" /\ entrySends' = [entrySends EXCEPT ![k].phase = p]
         /\ entryRows' = IF stored THEN [entryRows EXCEPT ![k] = IF @ = "none" THEN "live" ELSE @] ELSE entryRows
         /\ (p = "ok" => stored) /\ (p = "refused" => ~stored)
  <2>1. PICK k \in EntryKeys :
          /\ entrySends[k].phase = "asked"
          /\ LET stored == [entryRows EXCEPT ![k] = IF @ = "none" THEN "live" ELSE @]
             IN  \/ entryRows' = stored /\ entrySends' = [entrySends EXCEPT ![k].phase = "ok"]
                 \/ entryRows' \in {entryRows, stored} /\ entrySends' = [entrySends EXCEPT ![k].phase = "unknown"]
                 \/ /\ UNCHANGED entryRows
                    /\ entrySends' = [entrySends EXCEPT ![k].phase = "refused"]
    BY DEF ServeEntry
  <2> DEFINE row == [entryRows EXCEPT ![k] = IF @ = "none" THEN "live" ELSE @]
  <2>2. \/ entryRows' = row /\ entrySends' = [entrySends EXCEPT ![k].phase = "ok"]
        \/ entryRows' \in {entryRows, row} /\ entrySends' = [entrySends EXCEPT ![k].phase = "unknown"]
        \/ entryRows' = entryRows /\ entrySends' = [entrySends EXCEPT ![k].phase = "refused"]
    BY <2>1
  <2>3. TRUE \in BOOLEAN /\ FALSE \in BOOLEAN
    OBVIOUS
  <2>4. \E p \in {"ok", "unknown", "refused"}, stored \in BOOLEAN :
           /\ entrySends' = [entrySends EXCEPT ![k].phase = p]
           /\ entryRows' = IF stored THEN row ELSE entryRows
           /\ (p = "ok" => stored) /\ (p = "refused" => ~stored)
    <3> HIDE DEF row
    <3>1. QED
      BY <2>2, <2>3
  <2>5. QED
    BY <2>1, <2>4
<1>2. UNCHANGED <<entry, entryDefaults, sendingEntry, entryOf, entryToast, undoBuffer, undos,
                  typedCount, discarded, crossed, resent>>
  BY DEF ServeEntry
<1> DEFINE h == [entrySends[k] EXCEPT !.phase = p]
<1>3. /\ h \in [phase : {"none", "asked", "ok", "unknown", "refused"}, retry : BOOLEAN]
      /\ h.phase = p /\ h.retry = entrySends[k].retry
  BY DEF EntryInv, EntryShapes
<1>4. entrySends' = [entrySends EXCEPT ![k] = h]
  BY <1>1
<1> HIDE DEF h
<1>5. Sending(k) /\ entryRows[k] \in {"none", "live"}
  BY <1>1 DEF Sending, EntryInv, KeysInPhase, UnsavedEntry, EntryShapes
<1>6. \A j \in EntryKeys : /\ entrySends'[j] = IF j = k THEN h ELSE entrySends[j]
                           /\ entryRows'[j] = IF j = k /\ stored THEN "live" ELSE entryRows[j]
  <2>1. [entryRows EXCEPT ![k] = IF @ = "none" THEN "live" ELSE @] = [entryRows EXCEPT ![k] = "live"]
    BY <1>5 DEF EntryInv, EntryShapes
  <2>2. QED
    BY <1>1, <1>4, <2>1 DEF EntryInv, EntryShapes
<1>7. EntryShapes'
  <2>1. entrySends' \in [EntryKeys -> [phase : {"none", "asked", "ok", "unknown", "refused"}, retry : BOOLEAN]]
    BY <1>3, <1>4 DEF EntryInv, EntryShapes
  <2>2. entryRows' \in [EntryKeys -> {"none", "live", "trashed"}]
    BY <1>1 DEF EntryInv, EntryShapes
  <2>3. QED
    BY <1>2, <2>1, <2>2 DEF EntryInv, EntryShapes
<1>8. \A j \in EntryKeys : /\ Sending(j)' <=> Sending(j)
                           /\ FirstSend(j)' <=> FirstSend(j)
                           /\ UnsavedEntry(j)' <=> UnsavedEntry(j)
                           /\ OpenKey(j)' <=> OpenKey(j)
                           /\ ToUndo(j)' <=> ToUndo(j)
                           /\ (entryRows'[j] # entryRows[j] => j = k /\ entryRows'[j] = "live")
  BY <1>1, <1>2, <1>3, <1>5, <1>6 DEF Sending, FirstSend, UnsavedEntry, OpenKey, ToUndo
<1>9. UnusedKeys'
  BY <1>2, <1>5, <1>8 DEF EntryInv, UnusedKeys, UnsavedEntry
<1>10. KeysInPhase'
  BY <1>1, <1>2, <1>3, <1>5, <1>6, <1>8 DEF EntryInv, KeysInPhase
<1>11. UndosApart'
  <2>1. ~ToUndo(k)
    BY <1>5 DEF EntryInv, KeysInPhase, UnsavedEntry
  <2>2. QED
    BY <1>2, <1>6, <2>1 DEF EntryInv, UndosApart, ToUndo, EntryShapes, EntryKeys
<1>12. \A e : (GivenUp(e)' <=> GivenUp(e)) /\ (InForm(e) => InForm(e)')
  BY <1>2, <1>8 DEF GivenUp, InForm
<1>13. FormCanGo' /\ EntriesKept'
  BY <1>2, <1>8, <1>12 DEF EntryInv, FormCanGo, EntriesKept, GivenUp
<1>14. OneBusyKey'
  <2>1. \A j \in EntryKeys : BusyKey(j)' <=> BusyKey(j)
    BY <1>2, <1>5, <1>8 DEF BusyKey
  <2>2. QED
    BY <1>2, <1>8, <2>1 DEF EntryInv, OneBusyKey
<1>15. QED
  BY <1>7, <1>9, <1>10, <1>11, <1>13, <1>14 DEF EntryInv

\* What the end of a request leaves: Add is enabled for the entries of the others.
LEMMA SentLeaves ==
  ASSUME EntryInv, NEW k \in EntryKeys, Sending(k), Sent(k)
  PROVE  /\ entrySends' \in [EntryKeys -> [phase : {"none", "asked", "ok", "unknown", "refused"}, retry : BOOLEAN]]
         /\ \A j \in EntryKeys : /\ Sending(j)' <=> j # k /\ Sending(j)
                                 /\ FirstSend(j)' <=> j # k /\ FirstSend(j)
                                 /\ j # k => entrySends'[j] = entrySends[j]
                                 /\ j # k /\ Sending(j) => entryOf[j] \in resent'
         /\ entrySends'[k].phase = "none" /\ ~sendingEntry' /\ sendingEntry' \in BOOLEAN
         /\ resent \subseteq resent' /\ resent' \subseteq 1..typedCount
<1>1. NoSend \in [phase : {"none", "asked", "ok", "unknown", "refused"}, retry : BOOLEAN] /\ NoSend.phase = "none"
  BY DEF NoSend
<1>2. entrySends' = [entrySends EXCEPT ![k] = NoSend] /\ sendingEntry' = FALSE
      /\ resent' = resent \cup {entryOf[j] : j \in {i \in EntryKeys \ {k} : entrySends[i].phase # "none"}}
  BY DEF Sent
<1>3. entrySends' \in [EntryKeys -> [phase : {"none", "asked", "ok", "unknown", "refused"}, retry : BOOLEAN]]
      /\ \A j \in EntryKeys : entrySends'[j] = IF j = k THEN NoSend ELSE entrySends[j]
  BY <1>1, <1>2 DEF EntryInv, EntryShapes
<1>4. \A j \in EntryKeys : Sending(j) => entryOf[j] \in 1..typedCount
  <2>1. \A j \in EntryKeys : Sending(j) => entryOf[j] # 0
    BY DEF EntryInv, UnusedKeys, UnsavedEntry
  <2>2. \A j \in EntryKeys : entryOf[j] \in 0..typedCount /\ typedCount \in Nat
    BY DEF EntryInv, EntryShapes
  <2>3. QED
    BY <2>1, <2>2
<1>5. resent' \subseteq 1..typedCount
  BY <1>2, <1>4 DEF Sending, EntryInv, EntryShapes
<1>6. QED
  BY <1>1, <1>2, <1>3, <1>5 DEF Sending, FirstSend

LEMMA EntrySavedKeeps == ASSUME EntryInv, EntrySaved PROVE EntryInv'
<1>1. PICK k \in EntryKeys :
         /\ entrySends[k].phase = "ok" /\ Sent(k)
         /\ undoBuffer' = k /\ entryToast' = [entryToast EXCEPT ![k] = "saved"]
         /\ IF KeepsForm(k) THEN UNCHANGED <<entry, entryDefaults>>
            ELSE entry' = 0 /\ entryDefaults' = 0
  BY DEF EntrySaved
<1>2. UNCHANGED <<entryOf, undos, entryRows, typedCount, discarded, crossed>>
  BY DEF EntrySaved
<1>3. Sending(k) /\ entryRows[k] = "live" /\ entryOf[k] # 0 /\ ~ToUndo(k)
  BY <1>1 DEF Sending, EntryInv, KeysInPhase, UnusedKeys, UnsavedEntry
<1>4. /\ entrySends' \in [EntryKeys -> [phase : {"none", "asked", "ok", "unknown", "refused"}, retry : BOOLEAN]]
      /\ \A j \in EntryKeys : /\ Sending(j)' <=> j # k /\ Sending(j)
                              /\ FirstSend(j)' <=> j # k /\ FirstSend(j)
                              /\ j # k => entrySends'[j] = entrySends[j]
                              /\ j # k /\ Sending(j) => entryOf[j] \in resent'
      /\ entrySends'[k].phase = "none" /\ ~sendingEntry' /\ sendingEntry' \in BOOLEAN
      /\ resent \subseteq resent' /\ resent' \subseteq 1..typedCount
  BY <1>1, <1>3, SentLeaves
<1>5. \A j \in EntryKeys : entryToast'[j] = IF j = k THEN "saved" ELSE entryToast[j]
  BY <1>1 DEF EntryInv, EntryShapes
<1>6. k \in 1..MaxEntryKeys /\ k # 0
  BY DEF EntryKeys
<1>7. EntryShapes'
  <2>1. entry' \in 0..typedCount /\ entryDefaults' \in 0..typedCount /\ k \in 0..MaxEntryKeys
    BY <1>1, <1>6 DEF EntryInv, EntryShapes
  <2>2. entryToast' \in [EntryKeys -> {"none", "retry", "refused", "loading", "saved"}]
    BY <1>1 DEF EntryInv, EntryShapes
  <2>3. QED
    BY <1>1, <1>2, <1>4, <2>1, <2>2 DEF EntryInv, EntryShapes
<1>8. \A j \in EntryKeys : /\ UnsavedEntry(j)' <=> j # k /\ UnsavedEntry(j)
                           /\ OpenKey(j)' <=> j # k /\ OpenKey(j)
                           /\ (ToUndo(j)' => ToUndo(j) \/ j = k)
  BY <1>1, <1>2, <1>4, <1>5 DEF UnsavedEntry, OpenKey, ToUndo, Sending
<1>9. UnusedKeys'
  BY <1>2, <1>3, <1>5, <1>8 DEF EntryInv, UnusedKeys
<1>10. KeysInPhase'
  <2>1. ASSUME NEW j \in EntryKeys, j # k
        PROVE  /\ UnsavedEntry(j)' => entryRows'[j] # "trashed" /\ ~ToUndo(j)'
               /\ Sending(j)' => entryToast'[j] = IF entrySends'[j].retry THEN "loading" ELSE "none"
               /\ entryToast'[j] = "loading" => Sending(j)'
               /\ entrySends'[j].phase = "ok" => entryRows'[j] = "live"
    BY <1>2, <1>4, <1>5, <1>8, <2>1 DEF EntryInv, KeysInPhase
  <2>2. QED
    BY <1>4, <1>5, <1>8, <2>1 DEF KeysInPhase
<1>11. UndosApart'
  BY <1>1, <1>2, <1>3 DEF EntryInv, UndosApart, ToUndo
<1>12. entry' # entry => entry = 0 \/ entry = entryOf[k] \/ GivenUp(entry)
  BY <1>1, <1>3 DEF KeepsForm, FirstSend, EntryInv, FormCanGo
<1>13. \A e : (GivenUp(e)' <=> GivenUp(e)) /\ (e # 0 /\ InForm(e) => InForm(e)')
             /\ (e = entryOf[k] => InForm(e)')
  BY <1>2, <1>3, <1>12 DEF GivenUp, InForm
<1>14. FormCanGo'
  <2>1. \A j \in EntryKeys : FirstSend(j) => entryOf[j] # 0
    BY DEF FirstSend, EntryInv, UnusedKeys, UnsavedEntry
  <2>2. \A j \in EntryKeys : FirstSend(j)' => /\ entry' = 0 \/ entry' = entryOf'[j] \/ GivenUp(entry)'
                                              /\ InForm(entryOf[j])'
    BY <1>1, <1>2, <1>4, <1>13, <2>1 DEF EntryInv, FormCanGo, GivenUp
  <2>3. entryDefaults' = 0 \/ entryDefaults' = entry' \/ GivenUp(entryDefaults)'
    BY <1>1, <1>2 DEF EntryInv, FormCanGo, GivenUp
  <2>4. QED
    BY <2>2, <2>3 DEF FormCanGo
<1>15. EntriesKept'
  <2>1. ASSUME NEW e \in 1..typedCount
        PROVE  InForm(e)' \/ \E j \in EntryKeys : entryOf'[j] = e /\ (Sending(j)' \/ entryToast'[j] = "retry")
    <3>1. e # 0
      BY DEF EntryInv, EntryShapes
    <3>2. CASE e = entryOf[k]
      BY <1>13, <3>2
    <3>3. CASE e # entryOf[k]
      BY <1>2, <1>4, <1>5, <1>13, <3>1, <3>3 DEF EntryInv, EntriesKept
    <3>4. QED
      BY <3>2, <3>3
  <2>2. QED
    BY <1>2, <2>1 DEF EntriesKept
<1>16. OneBusyKey'
  <2>1. \A j \in EntryKeys : BusyKey(j)' => BusyKey(j)
    BY <1>2, <1>3, <1>4, <1>5 DEF BusyKey
  <2>2. ASSUME NEW j \in EntryKeys, entryOf'[j] = entry', BusyKey(j)' PROVE entry' \in resent' \/ OpenKey(j)'
    <3>1. entryOf[j] # 0
      BY <2>1, <2>2 DEF BusyKey, EntryInv, UnusedKeys, UnsavedEntry, ToUndo
    <3>2. entry' = entry /\ KeepsForm(k)
      BY <1>1, <1>2, <2>2, <3>1
    <3>3. j # k
      BY <1>2, <2>2, <3>2 DEF KeepsForm
    <3>4. QED
      BY <1>2, <1>4, <1>8, <2>1, <2>2, <3>2, <3>3 DEF EntryInv, OneBusyKey
  <2>3. QED
    BY <1>2, <1>4, <2>1, <2>2 DEF EntryInv, OneBusyKey
<1>17. QED
  BY <1>7, <1>9, <1>10, <1>11, <1>14, <1>15, <1>16 DEF EntryInv

LEMMA EntryFailedKeeps == ASSUME EntryInv, EntryFailed PROVE EntryInv'
<1>1. PICK k \in EntryKeys :
         /\ entrySends[k].phase \in {"unknown", "refused"} /\ Sent(k)
         /\ entryToast' = [entryToast EXCEPT ![k] = IF entrySends[k].phase = "unknown" THEN "retry" ELSE "refused"]
         /\ crossed' = IF entrySends[k].phase = "refused" /\ entrySends[k].retry
                       THEN crossed \cup {entryOf[k]} ELSE crossed
  BY DEF EntryFailed
<1>2. UNCHANGED <<entry, entryDefaults, entryOf, undoBuffer, undos, entryRows, typedCount, discarded>>
  BY DEF EntryFailed
<1>3. Sending(k) /\ entryOf[k] # 0 /\ ~ToUndo(k) /\ entryRows[k] # "trashed"
  BY <1>1 DEF Sending, EntryInv, KeysInPhase, UnusedKeys, UnsavedEntry
<1>4. /\ entrySends' \in [EntryKeys -> [phase : {"none", "asked", "ok", "unknown", "refused"}, retry : BOOLEAN]]
      /\ \A j \in EntryKeys : /\ Sending(j)' <=> j # k /\ Sending(j)
                              /\ FirstSend(j)' <=> j # k /\ FirstSend(j)
                              /\ j # k => entrySends'[j] = entrySends[j]
                              /\ j # k /\ Sending(j) => entryOf[j] \in resent'
      /\ entrySends'[k].phase = "none" /\ ~sendingEntry' /\ sendingEntry' \in BOOLEAN
      /\ resent \subseteq resent' /\ resent' \subseteq 1..typedCount
  BY <1>1, <1>3, SentLeaves
<1>5. \A j \in EntryKeys : entryToast'[j] = IF j # k THEN entryToast[j]
                                            ELSE IF entrySends[k].phase = "unknown" THEN "retry" ELSE "refused"
  BY <1>1 DEF EntryInv, EntryShapes
<1>6. EntryShapes'
  <2>1. entryOf[k] \in 1..typedCount
    BY <1>3 DEF EntryInv, EntryShapes
  <2>2. crossed' \subseteq 1..typedCount
    BY <1>1, <2>1 DEF EntryInv, EntryShapes
  <2>3. entryToast' \in [EntryKeys -> {"none", "retry", "refused", "loading", "saved"}]
    BY <1>1 DEF EntryInv, EntryShapes
  <2>4. QED
    BY <1>2, <1>4, <2>2, <2>3 DEF EntryInv, EntryShapes
<1>7. \A j \in EntryKeys : /\ UnsavedEntry(j)' <=> j = k \/ UnsavedEntry(j)
                           /\ (j # k => (OpenKey(j)' <=> OpenKey(j)))
                           /\ ToUndo(j)' <=> ToUndo(j)
  BY <1>1, <1>2, <1>4, <1>5 DEF UnsavedEntry, OpenKey, ToUndo, Sending
<1>8. UnusedKeys'
  BY <1>2, <1>3, <1>5, <1>7 DEF EntryInv, UnusedKeys
<1>9. KeysInPhase'
  <2>1. ASSUME NEW j \in EntryKeys, j # k
        PROVE  /\ UnsavedEntry(j)' => entryRows'[j] # "trashed" /\ ~ToUndo(j)'
               /\ Sending(j)' => entryToast'[j] = IF entrySends'[j].retry THEN "loading" ELSE "none"
               /\ entryToast'[j] = "loading" => Sending(j)'
               /\ entrySends'[j].phase = "ok" => entryRows'[j] = "live"
    BY <1>2, <1>4, <1>5, <1>7, <2>1 DEF EntryInv, KeysInPhase
  <2>2. QED
    BY <1>1, <1>2, <1>3, <1>4, <1>5, <1>7, <2>1 DEF KeysInPhase
<1>10. crossed \subseteq crossed'
  BY <1>1
<1>11. UndosApart'
  BY <1>2, <1>10 DEF EntryInv, UndosApart
<1>12. \A e : (GivenUp(e) => GivenUp(e)') /\ (InForm(e) => InForm(e)')
  BY <1>2, <1>10 DEF GivenUp, InForm
<1>13. FormCanGo'
  <2>1. \A j \in EntryKeys : FirstSend(j)' => /\ entry' = 0 \/ entry' = entryOf'[j] \/ GivenUp(entry)'
                                              /\ InForm(entryOf[j])'
    BY <1>2, <1>4, <1>12 DEF EntryInv, FormCanGo
  <2>2. entryDefaults' = 0 \/ entryDefaults' = entry' \/ GivenUp(entryDefaults)'
    BY <1>2, <1>12 DEF EntryInv, FormCanGo
  <2>3. QED
    BY <1>2, <2>1, <2>2 DEF FormCanGo, InForm
<1>14. ASSUME NEW e \in 1..typedCount, e = entryOf[k], entrySends[k].phase = "refused" PROVE InForm(e)'
  <2>1. CASE entrySends[k].retry
    BY <1>1, <1>14, <2>1 DEF InForm, GivenUp
  <2>2. CASE ~entrySends[k].retry
    <3>1. InForm(entryOf[k])
      BY <1>3, <2>2 DEF FirstSend, EntryInv, FormCanGo
    <3>2. QED
      BY <1>12, <1>14, <3>1
  <2>3. QED
    BY <2>1, <2>2
<1>15. EntriesKept'
  <2>1. ASSUME NEW e \in 1..typedCount
        PROVE  InForm(e)' \/ \E j \in EntryKeys : entryOf'[j] = e /\ (Sending(j)' \/ entryToast'[j] = "retry")
    <3>1. CASE e = entryOf[k]
      BY <1>1, <1>2, <1>5, <1>14, <3>1
    <3>2. CASE e # entryOf[k]
      BY <1>2, <1>4, <1>5, <1>12, <3>2 DEF EntryInv, EntriesKept
    <3>3. QED
      BY <3>1, <3>2
  <2>2. QED
    BY <1>2, <2>1 DEF EntriesKept
<1>16. OneBusyKey'
  <2>1. \A j \in EntryKeys : BusyKey(j)' => BusyKey(j)
    BY <1>1, <1>2, <1>3, <1>4, <1>5 DEF BusyKey
  <2>2. BusyKey(k)' => OpenKey(k)'
    BY <1>1, <1>2, <1>3, <1>4, <1>5 DEF BusyKey, OpenKey, ToUndo
  <2>3. QED
    BY <1>2, <1>4, <1>7, <2>1, <2>2 DEF EntryInv, OneBusyKey
<1>17. QED
  BY <1>6, <1>8, <1>9, <1>11, <1>13, <1>15, <1>16 DEF EntryInv

LEMMA RetryEntryKeeps == ASSUME EntryInv, RetryEntry PROVE EntryInv'
<1>1. PICK k \in EntryKeys :
         /\ entryToast[k] = "retry" /\ entryToast' = [entryToast EXCEPT ![k] = "loading"]
         /\ entrySends' = [entrySends EXCEPT ![k] = [phase |-> "asked", retry |-> TRUE]]
  BY DEF RetryEntry
<1>2. UNCHANGED <<entry, entryDefaults, entryOf, undoBuffer, undos, entryRows, typedCount, discarded, crossed, resent>>
      /\ sendingEntry' = TRUE
  BY DEF RetryEntry
<1> DEFINE h == [phase |-> "asked", retry |-> TRUE]
<1>3. h \in [phase : {"none", "asked", "ok", "unknown", "refused"}, retry : BOOLEAN] /\ h.phase = "asked" /\ h.retry
  OBVIOUS
<1> HIDE DEF h
<1>4. \A j \in EntryKeys : /\ entrySends'[j] = IF j = k THEN h ELSE entrySends[j]
                           /\ entryToast'[j] = IF j = k THEN "loading" ELSE entryToast[j]
  BY <1>1 DEF EntryInv, EntryShapes, h
<1>5. UnsavedEntry(k) /\ ~Sending(k)
  BY <1>1 DEF UnsavedEntry, EntryInv, KeysInPhase
<1>6. EntryShapes'
  <2>1. entryToast' \in [EntryKeys -> {"none", "retry", "refused", "loading", "saved"}]
    BY <1>1 DEF EntryInv, EntryShapes
  <2>2. entrySends' \in [EntryKeys -> [phase : {"none", "asked", "ok", "unknown", "refused"}, retry : BOOLEAN]]
    BY <1>1, <1>3 DEF EntryInv, EntryShapes, h
  <2>3. QED
    BY <1>2, <2>1, <2>2 DEF EntryInv, EntryShapes
<1>7. \A j \in EntryKeys : /\ Sending(j)' <=> j = k \/ Sending(j)
                           /\ FirstSend(j)' <=> FirstSend(j)
                           /\ UnsavedEntry(j)' <=> UnsavedEntry(j)
                           /\ OpenKey(j)' <=> OpenKey(j)
                           /\ BusyKey(j)' <=> BusyKey(j)
                           /\ ToUndo(j)' <=> ToUndo(j)
  BY <1>1, <1>2, <1>3, <1>4, <1>5 DEF Sending, FirstSend, UnsavedEntry, OpenKey, BusyKey, ToUndo
<1>8. UnusedKeys'
  BY <1>2, <1>4, <1>5, <1>7 DEF EntryInv, UnusedKeys
<1>9. KeysInPhase'
  BY <1>2, <1>3, <1>4, <1>5, <1>7 DEF EntryInv, KeysInPhase
<1>10. UndosApart'
  BY <1>2 DEF EntryInv, UndosApart
<1>11. \A e : (GivenUp(e)' <=> GivenUp(e)) /\ (InForm(e)' <=> InForm(e))
  BY <1>2 DEF GivenUp, InForm
<1>12. FormCanGo'
  <2>1. \A j \in EntryKeys : InForm(entryOf[j])' <=> InForm(entryOf[j])
    BY <1>11, <1>2 DEF InForm
  <2>2. QED
    BY <1>2, <1>7, <1>11, <2>1 DEF EntryInv, FormCanGo, GivenUp
<1>13. EntriesKept'
  BY <1>1, <1>2, <1>4, <1>7, <1>11 DEF EntryInv, EntriesKept
<1>14. OneBusyKey'
  BY <1>2, <1>7 DEF EntryInv, OneBusyKey
<1>15. QED
  BY <1>6, <1>8, <1>9, <1>10, <1>12, <1>13, <1>14 DEF EntryInv

LEMMA DismissFailureKeeps == ASSUME EntryInv, DismissFailure PROVE EntryInv'
<1>1. PICK k \in EntryKeys :
         /\ entryToast[k] \in {"retry", "refused"} /\ entryToast' = [entryToast EXCEPT ![k] = "none"]
         /\ discarded' = IF entry = entryOf[k] THEN discarded ELSE discarded \cup {entryOf[k]}
         /\ resent' = IF Unsure(k) THEN resent \cup {entryOf[k]} ELSE resent
  BY DEF DismissFailure
<1>2. UNCHANGED <<entry, entryDefaults, sendingEntry, entrySends, entryOf, undoBuffer, undos, entryRows, typedCount,
                  crossed>>
  BY DEF DismissFailure
<1>3. UnsavedEntry(k) /\ ~Sending(k) /\ entryOf[k] # 0 /\ ~ToUndo(k)
  BY <1>1 DEF UnsavedEntry, EntryInv, KeysInPhase, UnusedKeys
<1>4. \A j \in EntryKeys : entryToast'[j] = IF j = k THEN "none" ELSE entryToast[j]
  BY <1>1 DEF EntryInv, EntryShapes
<1>5. EntryShapes'
  <2>1. entryToast' \in [EntryKeys -> {"none", "retry", "refused", "loading", "saved"}]
    BY <1>1 DEF EntryInv, EntryShapes
  <2>2. entryOf[k] \in 1..typedCount
    BY <1>3 DEF EntryInv, EntryShapes
  <2>3. discarded' \subseteq 1..typedCount /\ resent' \subseteq 1..typedCount
    BY <1>1, <2>2 DEF EntryInv, EntryShapes
  <2>4. QED
    BY <1>2, <2>1, <2>3 DEF EntryInv, EntryShapes
<1>6. \A j \in EntryKeys : /\ Sending(j)' <=> Sending(j)
                           /\ FirstSend(j)' <=> FirstSend(j)
                           /\ UnsavedEntry(j)' <=> j # k /\ UnsavedEntry(j)
                           /\ OpenKey(j)' <=> j # k /\ OpenKey(j)
                           /\ ToUndo(j)' <=> ToUndo(j)
                           /\ (j # k => (BusyKey(j)' <=> BusyKey(j)))
  BY <1>2, <1>3, <1>4 DEF Sending, FirstSend, UnsavedEntry, OpenKey, ToUndo, BusyKey
<1>7. UnusedKeys'
  BY <1>2, <1>4, <1>6 DEF EntryInv, UnusedKeys
<1>8. KeysInPhase'
  BY <1>2, <1>3, <1>4, <1>6 DEF EntryInv, KeysInPhase
<1>9. UndosApart'
  BY <1>2 DEF EntryInv, UndosApart
<1>10. \A e : (GivenUp(e) => GivenUp(e)') /\ (InForm(e) => InForm(e)')
  BY <1>1, <1>2 DEF GivenUp, InForm
<1>11. FormCanGo'
  <2>1. \A j \in EntryKeys : FirstSend(j)' => /\ entry' = 0 \/ entry' = entryOf'[j] \/ GivenUp(entry)'
                                              /\ InForm(entryOf[j])'
    BY <1>2, <1>6, <1>10 DEF EntryInv, FormCanGo
  <2>2. entryDefaults' = 0 \/ entryDefaults' = entry' \/ GivenUp(entryDefaults)'
    BY <1>2, <1>10 DEF EntryInv, FormCanGo
  <2>3. QED
    BY <1>2, <2>1, <2>2 DEF FormCanGo, InForm
<1>12. EntriesKept'
  <2>1. ASSUME NEW e \in 1..typedCount
        PROVE  InForm(e)' \/ \E j \in EntryKeys : entryOf'[j] = e /\ (Sending(j)' \/ entryToast'[j] = "retry")
    <3>1. CASE e = entryOf[k]
      BY <1>1, <1>2, <3>1 DEF InForm, GivenUp
    <3>2. CASE e # entryOf[k]
      BY <1>2, <1>4, <1>6, <1>10, <3>2 DEF EntryInv, EntriesKept
    <3>3. QED
      BY <3>1, <3>2
  <2>2. QED
    BY <1>2, <2>1 DEF EntriesKept
<1>13. OneBusyKey'
  <2>1. resent \subseteq resent' /\ (BusyKey(k)' => BusyKey(k) /\ entryOf[k] \in resent')
    BY <1>1, <1>2, <1>3, <1>4 DEF BusyKey, Sending, ToUndo, Unsure
  <2>2. QED
    BY <1>2, <1>6, <2>1 DEF EntryInv, OneBusyKey
<1>14. QED
  BY <1>5, <1>7, <1>8, <1>9, <1>11, <1>12, <1>13 DEF EntryInv

\* A saved toast that goes, and an undo that is sent.
LEMMA SavedToastGoes ==
  ASSUME EntryInv,
         UNCHANGED <<entry, entryDefaults, sendingEntry, entrySends, entryOf, entryRows, typedCount, discarded,
                     crossed, resent>>,
         entryToast' \in {entryToast} \cup
            {[entryToast EXCEPT ![k] = "none"] : k \in {j \in EntryKeys : entryToast[j] = "saved"}},
         undoBuffer' = 0,
         \/ undos' = undos
         \/ undoBuffer # 0 /\ undos' = undos \cup {[key |-> undoBuffer, phase |-> "asked"]}
  PROVE  EntryInv'
<1>1. \A j \in EntryKeys : entryToast'[j] = entryToast[j] \/ (entryToast[j] = "saved" /\ entryToast'[j] = "none")
  BY DEF EntryInv, EntryShapes
<1>2. entryToast' \in [EntryKeys -> {"none", "retry", "refused", "loading", "saved"}]
  BY DEF EntryInv, EntryShapes
<1>3. undoBuffer # 0 => undoBuffer \in EntryKeys
  BY EntryAssumption DEF EntryInv, EntryShapes, EntryKeys
<1> DEFINE w == [key |-> undoBuffer, phase |-> "asked"]
<1>4. w.key = undoBuffer /\ w.phase = "asked" /\ (undoBuffer # 0 => w \in [key : EntryKeys, phase : {"asked", "ok", "failed"}])
  BY <1>3
<1>5. undos \subseteq undos' /\ \A u \in undos' : u \in undos \/ (u = w /\ undoBuffer # 0)
  OBVIOUS
<1> HIDE DEF w
<1>6. EntryShapes'
  <2>1. undos' \subseteq [key : EntryKeys, phase : {"asked", "ok", "failed"}]
    BY <1>4, <1>5 DEF EntryInv, EntryShapes
  <2>2. 0 \in 0..MaxEntryKeys
    BY EntryAssumption
  <2>3. QED
    BY <1>2, <2>1, <2>2 DEF EntryInv, EntryShapes
<1>7. \A j \in EntryKeys : /\ Sending(j)' <=> Sending(j)
                           /\ FirstSend(j)' <=> FirstSend(j)
                           /\ UnsavedEntry(j)' <=> UnsavedEntry(j)
                           /\ OpenKey(j)' <=> OpenKey(j)
                           /\ (ToUndo(j)' => ToUndo(j))
                           /\ (BusyKey(j)' <=> BusyKey(j))
  <2>1. ASSUME NEW j \in EntryKeys
        PROVE  /\ Sending(j)' <=> Sending(j)
               /\ FirstSend(j)' <=> FirstSend(j)
               /\ UnsavedEntry(j)' <=> UnsavedEntry(j)
               /\ OpenKey(j)' <=> OpenKey(j)
    BY <1>1 DEF Sending, FirstSend, UnsavedEntry, OpenKey
  <2>2. ASSUME NEW j \in EntryKeys, ToUndo(j)' PROVE ToUndo(j)
    BY <1>4, <1>5, <2>2 DEF ToUndo, EntryKeys
  <2>3. ASSUME NEW j \in EntryKeys PROVE BusyKey(j)' <=> BusyKey(j)
    BY <1>1, <1>4, <1>5, <2>1 DEF BusyKey
  <2>4. QED
    BY <2>1, <2>2, <2>3
<1>8. UnusedKeys'
  BY <1>1, <1>7 DEF EntryInv, UnusedKeys
<1>9. KeysInPhase'
  BY <1>1, <1>7 DEF EntryInv, KeysInPhase
<1>10. UndosApart'
  <2>1. \A u \in undos' : u.key # 0
    <3>1. \A u \in undos : u.key \in EntryKeys
      BY DEF EntryInv, EntryShapes
    <3>2. QED
      BY <1>4, <1>5, <3>1 DEF EntryKeys
  <2>2. QED
    BY <1>4, <1>5, <2>1 DEF EntryInv, UndosApart
<1>11. \A e : (GivenUp(e)' <=> GivenUp(e)) /\ (InForm(e) => InForm(e)')
  BY <1>5 DEF GivenUp, InForm
<1>12. FormCanGo'
  <2>1. \A j \in EntryKeys : InForm(entryOf[j]) => InForm(entryOf[j])'
    BY <1>11 DEF InForm
  <2>2. QED
    BY <1>7, <1>11, <2>1 DEF EntryInv, FormCanGo, GivenUp
<1>13. EntriesKept'
  BY <1>1, <1>7, <1>11 DEF EntryInv, EntriesKept
<1>14. OneBusyKey'
  BY <1>7 DEF EntryInv, OneBusyKey
<1>15. QED
  BY <1>6, <1>8, <1>9, <1>10, <1>12, <1>13, <1>14 DEF EntryInv

LEMMA UndoKeeps == ASSUME EntryInv, SavedToastCloses \/ UndoLastSave PROVE EntryInv'
<1>1. CASE SavedToastCloses
  <2>1. PICK k \in EntryKeys : entryToast[k] = "saved" /\ entryToast' = [entryToast EXCEPT ![k] = "none"]
    BY <1>1 DEF SavedToastCloses
  <2>2. UNCHANGED <<entry, entryDefaults, sendingEntry, entrySends, entryOf, entryRows, typedCount, discarded,
                    crossed, resent>> /\ undoBuffer' = 0 /\ undos' = undos
    BY <1>1 DEF SavedToastCloses
  <2>3. QED
    BY <2>1, <2>2, SavedToastGoes
<1>2. CASE UndoLastSave
  BY <1>2, SavedToastGoes DEF UndoLastSave
<1>3. QED
  BY <1>1, <1>2

LEMMA ServeUndoKeeps == ASSUME EntryInv, ServeUndo PROVE EntryInv'
<1>1. PICK u \in undos, p \in {"ok", "failed"}, gone \in BOOLEAN :
         /\ u.phase = "asked" /\ undos' = (undos \ {u}) \cup {[u EXCEPT !.phase = p]}
         /\ entryRows' = IF gone THEN [entryRows EXCEPT ![u.key] = "trashed"] ELSE entryRows
         /\ crossed \subseteq crossed' /\ crossed' \subseteq crossed \cup {entryOf[u.key]}
         /\ (p = "ok" => gone /\ entryRows[u.key] = "live") /\ (p = "failed" /\ gone => entryOf[u.key] \in crossed' \/ entryRows' = entryRows)
  <2>1. PICK u \in undos :
          /\ u.phase = "asked"
          /\ LET gone == [entryRows EXCEPT ![u.key] = "trashed"]
                 Answered(p) == undos' = (undos \ {u}) \cup {[u EXCEPT !.phase = p]}
             IN  \/ entryRows[u.key] = "live" /\ entryRows' = gone /\ Answered("ok") /\ UNCHANGED crossed
                 \/ Answered("failed") /\ UNCHANGED <<entryRows, crossed>>
                 \/ /\ entryRows' \in {entryRows, gone} /\ Answered("failed")
                    /\ crossed' = IF entryRows' = gone THEN crossed \cup {entryOf[u.key]} ELSE crossed
    BY DEF ServeUndo
  <2> DEFINE row == [entryRows EXCEPT ![u.key] = "trashed"]
             undone(p) == (undos \ {u}) \cup {[u EXCEPT !.phase = p]}
  <2>2. \/ entryRows[u.key] = "live" /\ entryRows' = row /\ undos' = undone("ok") /\ crossed' = crossed
        \/ undos' = undone("failed") /\ entryRows' = entryRows /\ crossed' = crossed
        \/ /\ entryRows' \in {entryRows, row} /\ undos' = undone("failed")
           /\ crossed' = IF entryRows' = row THEN crossed \cup {entryOf[u.key]} ELSE crossed
    BY <2>1
  <2>3. TRUE \in BOOLEAN /\ FALSE \in BOOLEAN
    OBVIOUS
  <2>4. \E p \in {"ok", "failed"}, gone \in BOOLEAN :
           /\ undos' = undone(p) /\ entryRows' = IF gone THEN row ELSE entryRows
           /\ crossed \subseteq crossed' /\ crossed' \subseteq crossed \cup {entryOf[u.key]}
           /\ (p = "ok" => gone /\ entryRows[u.key] = "live") /\ (p = "failed" /\ gone => entryOf[u.key] \in crossed' \/ entryRows' = entryRows)
    <3> HIDE DEF row, undone
    <3>1. QED
      BY <2>2, <2>3
  <2>5. QED
    BY <2>1, <2>4
<1>2. UNCHANGED <<entry, entryDefaults, sendingEntry, entrySends, entryOf, entryToast, undoBuffer, typedCount,
                  discarded, resent>>
  BY DEF ServeUndo
<1> DEFINE w == [u EXCEPT !.phase = p]
           k == u.key
<1>3. /\ w \in [key : EntryKeys, phase : {"asked", "ok", "failed"}] /\ w.key = k /\ w.phase = p /\ k \in EntryKeys
  BY DEF EntryInv, EntryShapes
<1>4. \A v \in undos' : v = w \/ (v \in undos /\ v # u)
  BY <1>1
<1>5. w \in undos' /\ \A v \in undos : v = u \/ v \in undos'
  BY <1>1
<1> HIDE DEF w
<1>6. /\ ToUndo(k) /\ ~UnsavedEntry(k) /\ entryOf[k] # 0 /\ undoBuffer # k
      /\ \A v \in undos : v.key = k => v = u
  BY <1>3 DEF ToUndo, EntryInv, KeysInPhase, UnusedKeys, UndosApart
<1> HIDE DEF k
<1>7. \A j \in EntryKeys : entryRows'[j] = entryRows[j] \/ (j = k /\ entryRows'[j] = "trashed" /\ (p = "ok" \/ entryOf[k] \in crossed'))
  <2>1. CASE ~gone
    BY <1>1, <2>1
  <2>2. CASE gone
    <3>1. \A j \in EntryKeys : entryRows'[j] = IF j = k THEN "trashed" ELSE entryRows[j]
      BY <1>1, <1>3, <2>2 DEF EntryInv, EntryShapes, k
    <3>2. QED
      BY <1>1, <2>2, <3>1 DEF k
  <2>3. QED
    BY <2>1, <2>2
<1>8. p = "ok" => entryRows'[k] = "trashed"
  BY <1>1, <1>3 DEF EntryInv, EntryShapes, k
<1>9. EntryShapes'
  <2>1. undos' \subseteq [key : EntryKeys, phase : {"asked", "ok", "failed"}]
    BY <1>3, <1>4 DEF EntryInv, EntryShapes
  <2>2. entryOf[k] \in 1..typedCount
    BY <1>3, <1>6 DEF EntryInv, EntryShapes
  <2>3. crossed' \subseteq 1..typedCount
    BY <1>1, <2>2 DEF EntryInv, EntryShapes, k
  <2>4. entryRows' \in [EntryKeys -> {"none", "live", "trashed"}]
    BY <1>1 DEF EntryInv, EntryShapes
  <2>5. QED
    BY <1>2, <2>1, <2>3, <2>4 DEF EntryInv, EntryShapes
<1>10. \A j \in EntryKeys : /\ Sending(j)' <=> Sending(j)
                            /\ FirstSend(j)' <=> FirstSend(j)
                            /\ UnsavedEntry(j)' <=> UnsavedEntry(j)
                            /\ OpenKey(j)' <=> OpenKey(j)
  BY <1>2 DEF Sending, FirstSend, UnsavedEntry, OpenKey
<1>11. \A j \in EntryKeys : ToUndo(j)' <=> ToUndo(j)
  BY <1>2, <1>3, <1>4, <1>5 DEF ToUndo, k
<1>12. UnusedKeys'
  BY <1>2, <1>6, <1>7, <1>10, <1>11 DEF EntryInv, UnusedKeys
<1>13. KeysInPhase'
  BY <1>2, <1>6, <1>7, <1>10, <1>11 DEF EntryInv, KeysInPhase, UnsavedEntry, Sending
<1>14. UndosApart'
  <2>1. entryRows'[k] = "live" \/ entryOf[k] \in crossed' \/ p = "ok"
    <3>1. entryRows[k] = "live" \/ entryOf[k] \in crossed
      BY <1>1 DEF EntryInv, UndosApart, k
    <3>2. QED
      BY <1>1, <1>3, <1>7, <3>1
  <2>2. \A v \in undos : v # u => v.key # k
    BY <1>6
  <2>3. \A v, x \in undos' : v.key = x.key => v = x
    BY <1>3, <1>4, <2>2 DEF EntryInv, UndosApart
  <2>4. \A v \in undos' : v.key # undoBuffer'
    BY <1>2, <1>3, <1>4, <1>6 DEF EntryInv, UndosApart
  <2>5. undoBuffer' # 0 => entryRows'[undoBuffer'] = "live" \/ entryOf'[undoBuffer'] \in crossed'
    <3>1. undoBuffer # 0 => undoBuffer \in EntryKeys
      BY EntryAssumption DEF EntryInv, EntryShapes, EntryKeys
    <3>2. QED
      BY <1>1, <1>2, <1>6, <1>7, <3>1 DEF EntryInv, UndosApart
  <2>6. ASSUME NEW v \in undos'
        PROVE  IF v.phase = "ok" THEN entryRows'[v.key] = "trashed"
               ELSE entryRows'[v.key] = "live" \/ entryOf'[v.key] \in crossed'
    <3>1. CASE v = w
      BY <1>2, <1>3, <1>8, <2>1, <3>1
    <3>2. CASE v # w
      <4>1. v \in undos /\ v # u /\ v.key \in EntryKeys /\ v.key # k
        BY <1>4, <2>2, <3>2 DEF EntryInv, EntryShapes
      <4>2. entryRows'[v.key] = entryRows[v.key]
        BY <1>7, <4>1
      <4>3. QED
        BY <1>1, <1>2, <4>1, <4>2 DEF EntryInv, UndosApart
    <3>3. QED
      BY <3>1, <3>2
  <2>7. QED
    BY <2>3, <2>4, <2>5, <2>6 DEF UndosApart
<1>15. \A e : (GivenUp(e) => GivenUp(e)') /\ (InForm(e) => InForm(e)')
  BY <1>1, <1>2, <1>3, <1>5, <1>7 DEF GivenUp, InForm, k
<1>16. FormCanGo'
  <2>1. \A j \in EntryKeys : FirstSend(j)' => /\ entry' = 0 \/ entry' = entryOf'[j] \/ GivenUp(entry)'
                                              /\ InForm(entryOf[j])'
    BY <1>2, <1>10, <1>15 DEF EntryInv, FormCanGo
  <2>2. entryDefaults' = 0 \/ entryDefaults' = entry' \/ GivenUp(entryDefaults)'
    BY <1>2, <1>15 DEF EntryInv, FormCanGo
  <2>3. QED
    BY <1>2, <2>1, <2>2 DEF FormCanGo, InForm
<1>17. EntriesKept'
  BY <1>2, <1>10, <1>15 DEF EntryInv, EntriesKept
<1>18. OneBusyKey'
  <2>1. ASSUME NEW j \in EntryKeys, BusyKey(j)' PROVE BusyKey(j)
    <3>1. CASE Sending(j) \/ entryToast[j] = "retry" \/ entryRows'[j] = "live"
      BY <1>7, <3>1 DEF BusyKey
    <3>2. CASE \E v \in undos' : v.key = j /\ v.phase = "ok"
      <4>1. PICK v \in undos' : v.key = j /\ v.phase = "ok"
        BY <3>2
      <4>2. CASE v \in undos
        BY <4>1, <4>2 DEF BusyKey
      <4>3. CASE v = w
        <5>1. p = "ok" /\ j = k
          BY <1>3, <4>1, <4>3
        <5>2. entryRows[k] = "live"
          BY <1>1, <5>1 DEF k
        <5>3. QED
          BY <5>1, <5>2 DEF BusyKey
      <4>4. QED
        BY <1>4, <4>2, <4>3
    <3>3. QED
      BY <1>2, <1>10, <2>1, <3>1, <3>2 DEF BusyKey
  <2>2. QED
    BY <1>2, <1>10, <2>1 DEF EntryInv, OneBusyKey
<1>19. QED
  BY <1>9, <1>12, <1>13, <1>14, <1>16, <1>17, <1>18 DEF EntryInv

LEMMA UndoAnsweredKeeps == ASSUME EntryInv, UndoAnswered PROVE EntryInv'
<1>1. PICK u \in undos :
         /\ u.phase # "asked" /\ undos' = undos \ {u}
         /\ IF u.phase = "ok"
            THEN /\ entry' = entryOf[u.key] /\ entryDefaults' = entryOf[u.key]
                 /\ crossed' = crossed \cup (IF entry = entryOf[u.key] THEN {} ELSE Filled(entry))
                                       \cup (IF FirstUnderWay THEN {entryOf[u.key]} ELSE {})
                 /\ discarded' = discarded \ {entryOf[u.key]} /\ UNCHANGED undoBuffer
            ELSE undoBuffer' = u.key /\ UNCHANGED <<entry, entryDefaults, crossed, discarded>>
  BY DEF UndoAnswered
<1>2. UNCHANGED <<sendingEntry, entrySends, entryOf, entryToast, entryRows, typedCount, resent>>
  BY DEF UndoAnswered
<1> DEFINE k == u.key
           e0 == entryOf[u.key]
<1>3. k \in EntryKeys /\ k # 0
  BY DEF EntryInv, EntryShapes, EntryKeys
<1>4. /\ ToUndo(k) /\ ~UnsavedEntry(k) /\ e0 \in 1..typedCount /\ undoBuffer # k
      /\ \A v \in undos : v.key = k => v = u
  BY <1>3 DEF ToUndo, EntryInv, KeysInPhase, UnusedKeys, UndosApart, EntryShapes
<1>5. IF u.phase = "ok" THEN entryRows[k] = "trashed" ELSE entryRows[k] = "live" \/ e0 \in crossed
  BY DEF EntryInv, UndosApart
<1>6. \A v : v \in undos' <=> v \in undos /\ v # u
  BY <1>1
<1>7. u.phase = "ok" => /\ entry' = e0 /\ entryDefaults' = e0 /\ undoBuffer' = undoBuffer
                        /\ crossed' = crossed \cup (IF entry = e0 THEN {} ELSE Filled(entry))
                                              \cup (IF FirstUnderWay THEN {e0} ELSE {})
                        /\ discarded' = discarded \ {e0}
  BY <1>1
<1>8. u.phase # "ok" => undoBuffer' = k /\ entry' = entry /\ entryDefaults' = entryDefaults
                        /\ crossed' = crossed /\ discarded' = discarded
  BY <1>1
<1> HIDE DEF k, e0
<1>9. e0 = entryOf[k] /\ k = u.key /\ u \in undos
  BY DEF k, e0
<1>10. Filled(entry) \subseteq 1..typedCount /\ \A e : e \in Filled(entry) <=> e = entry /\ e # 0
  BY DEF Filled, EntryInv, EntryShapes
<1>11. EntryShapes'
  <2>1. undos' \subseteq [key : EntryKeys, phase : {"asked", "ok", "failed"}] /\ undoBuffer' \in 0..MaxEntryKeys
    <3>1. k \in 0..MaxEntryKeys
      BY <1>3, EntryAssumption DEF EntryKeys
    <3>2. QED
      BY <1>6, <1>7, <1>8, <3>1 DEF EntryInv, EntryShapes
  <2>2. e0 \in 0..typedCount
    BY <1>4 DEF EntryInv, EntryShapes
  <2>3. crossed' \subseteq 1..typedCount /\ discarded' \subseteq 1..typedCount
    BY <1>4, <1>7, <1>8, <1>10 DEF EntryInv, EntryShapes
  <2>4. QED
    BY <1>2, <1>7, <1>8, <2>1, <2>2, <2>3 DEF EntryInv, EntryShapes
<1>12. \A j \in EntryKeys : /\ Sending(j)' <=> Sending(j)
                            /\ FirstSend(j)' <=> FirstSend(j)
                            /\ UnsavedEntry(j)' <=> UnsavedEntry(j)
                            /\ OpenKey(j)' <=> OpenKey(j)
                            /\ (ToUndo(j)' => ToUndo(j))
  BY <1>2, <1>4, <1>6, <1>7, <1>8 DEF Sending, FirstSend, UnsavedEntry, OpenKey, ToUndo
<1>13. UnusedKeys' /\ KeysInPhase'
  BY <1>2, <1>12 DEF EntryInv, UnusedKeys, KeysInPhase
<1>14. crossed \subseteq crossed'
  BY <1>7, <1>8
<1>15. UndosApart'
  <2>1. undoBuffer' = undoBuffer \/ (undoBuffer' = k /\ (entryRows[k] = "live" \/ e0 \in crossed))
    BY <1>5, <1>7, <1>8
  <2>2. \A v \in undos' : v \in undos /\ v.key # k
    BY <1>4, <1>6
  <2>3. QED
    BY <1>2, <1>9, <1>14, <2>1, <2>2 DEF EntryInv, UndosApart
<1>16. \A e : (GivenUp(e) => GivenUp(e)' \/ (e = entry' /\ e = e0)) /\ (e # 0 /\ InForm(e) => InForm(e)')
  <2>1. CASE u.phase = "ok"
    <3>1. \A e : GivenUp(e) => GivenUp(e)' \/ e = e0
      BY <1>7, <2>1 DEF GivenUp
    <3>2. \A v \in undos : v \in undos' \/ entryOf[v.key] = e0
      BY <1>6, <1>9
    <3>3. ASSUME NEW e, e # 0, InForm(e) PROVE InForm(e)'
      <4>1. CASE e = e0
        BY <1>7, <2>1, <4>1 DEF InForm
      <4>2. CASE e # e0
        <5>1. e = entry => e \in crossed'
          BY <1>7, <1>10, <2>1, <3>3, <4>2
        <5>2. GivenUp(e) \/ e = entry \/ (\E j \in EntryKeys : entryOf[j] = e /\ entryRows[j] = "live")
              \/ \E v \in undos : entryOf[v.key] = e
          BY <3>3 DEF InForm
        <5>3. (\E v \in undos : entryOf[v.key] = e) => \E v \in undos' : entryOf'[v.key] = e
          BY <1>2, <3>2, <4>2
        <5>4. GivenUp(e) \/ e = entry => GivenUp(e)'
          BY <3>1, <4>2, <5>1 DEF GivenUp
        <5>5. QED
          BY <1>2, <5>2, <5>3, <5>4 DEF InForm
      <4>3. QED
        BY <4>1, <4>2
    <3>4. QED
      BY <1>7, <2>1, <3>1, <3>3
  <2>2. CASE u.phase # "ok"
    <3>1. \A e : GivenUp(e)' <=> GivenUp(e)
      BY <1>8, <2>2 DEF GivenUp
    <3>2. \A v \in undos : v \in undos' \/ (entryOf[v.key] = e0 /\ (entryRows[k] = "live" \/ GivenUp(e0)))
      BY <1>5, <1>6, <1>9, <2>2 DEF GivenUp
    <3>3. ASSUME NEW e, InForm(e) PROVE InForm(e)'
      BY <1>2, <1>3, <1>8, <1>9, <2>2, <3>1, <3>2, <3>3 DEF InForm
    <3>4. QED
      BY <3>1, <3>3
  <2>3. QED
    BY <2>1, <2>2
<1>17. FormCanGo'
  <2>1. entryDefaults' = 0 \/ entryDefaults' = entry' \/ GivenUp(entryDefaults)'
    BY <1>7, <1>8, <1>16 DEF EntryInv, FormCanGo
  <2>2. ASSUME NEW j \in EntryKeys, FirstSend(j)'
        PROVE  (entry' = 0 \/ entry' = entryOf'[j] \/ GivenUp(entry)') /\ InForm(entryOf[j])'
    <3>1. FirstSend(j) /\ entryOf[j] # 0 /\ FirstUnderWay
      BY <1>12, <2>2 DEF FirstSend, Sending, FirstUnderWay, EntryInv, UnusedKeys, UnsavedEntry
    <3>2. InForm(entryOf[j]) /\ (entry = 0 \/ entry = entryOf[j] \/ GivenUp(entry))
      BY <3>1 DEF EntryInv, FormCanGo
    <3>3. InForm(entryOf[j])'
      BY <1>2, <1>16, <3>1, <3>2 DEF InForm
    <3>4. entry' = 0 \/ entry' = entryOf'[j] \/ GivenUp(entry)'
      <4>1. CASE u.phase = "ok"
        BY <1>7, <3>1, <4>1 DEF GivenUp
      <4>2. CASE u.phase # "ok"
        BY <1>2, <1>8, <3>2, <4>2 DEF GivenUp
      <4>3. QED
        BY <4>1, <4>2
    <3>5. QED
      BY <3>3, <3>4
  <2>3. QED
    BY <2>1, <2>2 DEF FormCanGo
<1>18. EntriesKept'
  <2>1. ASSUME NEW e \in 1..typedCount
        PROVE  InForm(e)' \/ \E j \in EntryKeys : entryOf'[j] = e /\ (Sending(j)' \/ entryToast'[j] = "retry")
    <3>1. e # 0
      BY DEF EntryInv, EntryShapes
    <3>2. QED
      BY <1>2, <1>12, <1>16, <3>1 DEF EntryInv, EntriesKept
  <2>2. QED
    BY <1>2, <2>1 DEF EntriesKept
<1>19. OneBusyKey'
  <2>1. ASSUME NEW j \in EntryKeys, BusyKey(j)' PROVE BusyKey(j)
    BY <1>2, <1>6, <1>12, <2>1 DEF BusyKey
  <2>2. ASSUME NEW j \in EntryKeys, entryOf[j] = entry', BusyKey(j)' PROVE entry' \in resent \/ OpenKey(j)
    <3>1. CASE u.phase = "ok"
      <4>1. BusyKey(k)
        BY <1>9, <3>1 DEF BusyKey
      <4>2. ~BusyKey(k)'
        BY <1>2, <1>3, <1>4, <1>5, <1>6, <1>12, <3>1 DEF BusyKey, UnsavedEntry, k
      <4>3. j # k
        BY <2>2, <4>2
      <4>4. entryOf[j] = entryOf[k]
        BY <1>7, <1>9, <2>2, <3>1
      <4>5. QED
        BY <1>3, <1>9, <2>1, <2>2, <4>1, <4>3, <4>4 DEF EntryInv, OneBusyKey
    <3>2. CASE u.phase # "ok"
      BY <1>8, <2>1, <2>2, <3>2 DEF EntryInv, OneBusyKey
    <3>3. QED
      BY <3>1, <3>2
  <2>3. QED
    BY <1>2, <1>12, <2>1, <2>2 DEF EntryInv, OneBusyKey
<1>20. QED
  BY <1>11, <1>13, <1>15, <1>17, <1>18, <1>19 DEF EntryInv

LEMMA EntryStands == ASSUME EntryInv, UNCHANGED entryVars PROVE EntryInv'
<1>1. UNCHANGED <<entry, entryDefaults, sendingEntry, entrySends, entryOf, entryToast, undoBuffer, undos,
                  entryRows, typedCount, discarded, crossed, resent>>
  BY DEF entryVars
<1>2. \A j : /\ Sending(j)' <=> Sending(j)
             /\ FirstSend(j)' <=> FirstSend(j)
             /\ UnsavedEntry(j)' <=> UnsavedEntry(j)
             /\ OpenKey(j)' <=> OpenKey(j)
             /\ ToUndo(j)' <=> ToUndo(j)
             /\ BusyKey(j)' <=> BusyKey(j)
             /\ GivenUp(j)' <=> GivenUp(j)
             /\ InForm(j)' <=> InForm(j)
  BY <1>1 DEF Sending, FirstSend, UnsavedEntry, OpenKey, ToUndo, BusyKey, GivenUp, InForm
<1>3. EntryShapes' /\ UnusedKeys' /\ KeysInPhase' /\ UndosApart'
  BY <1>1, <1>2 DEF EntryInv, EntryShapes, UnusedKeys, KeysInPhase, UndosApart
<1>4. FormCanGo'
  BY <1>1 DEF EntryInv, FormCanGo, GivenUp, InForm, FirstSend, Sending
<1>5. EntriesKept' /\ OneBusyKey'
  BY <1>1, <1>2 DEF EntryInv, EntriesKept, OneBusyKey
<1>6. QED
  BY <1>3, <1>4, <1>5 DEF EntryInv

LEMMA EntryStep == EntryInv /\ [EntryNext]_entryVars => EntryInv'
BY TypeEntryKeeps, EscapeEntryKeeps, AddEntryKeeps, ServeEntryKeeps, EntrySavedKeeps, EntryFailedKeeps,
   RetryEntryKeeps, DismissFailureKeeps, UndoKeeps, ServeUndoKeeps, UndoAnsweredKeeps, EntryStands DEF EntryNext

LEMMA EntryInvHolds == EntryInv => EntryTypeOK /\ EntryKept /\ OneRowPerEntry
<1> SUFFICES ASSUME EntryInv PROVE EntryTypeOK /\ EntryKept /\ OneRowPerEntry
  OBVIOUS
<1>1. EntryTypeOK
  <2>1. MaxTyped \in Nat /\ typedCount \in Nat /\ typedCount <= MaxTyped
    BY EntryAssumption DEF EntryInv, EntryShapes
  <2>2. 0..typedCount \subseteq 0..MaxTyped /\ 1..typedCount \subseteq 1..MaxTyped
    BY <2>1
  <2>3. QED
    BY <2>2 DEF EntryInv, EntryShapes, EntryTypeOK
<1>2. EntryKept
  BY DEF EntryInv, EntriesKept, EntryKept, InForm, GivenUp, UnderWay, LiveEntries, Sending
<1>3. ASSUME NEW e \in 1..typedCount, e \notin resent PROVE Cardinality(LiveEntries(e)) <= 1
  <2>1. \A j, k \in LiveEntries(e) : j = k
    BY <1>3 DEF LiveEntries, BusyKey, EntryInv, OneBusyKey
  <2>2. CASE LiveEntries(e) = {}
    BY <2>2, FS_EmptySet
  <2>3. CASE LiveEntries(e) # {}
    <3>1. PICK k : LiveEntries(e) = {k}
      BY <2>1, <2>3
    <3>2. QED
      BY <3>1, FS_Singleton
  <2>4. QED
    BY <2>2, <2>3
<1>4. QED
  BY <1>1, <1>2, <1>3 DEF OneRowPerEntry

\* What is typed in the entry row is kept and becomes one row, for any number of entries, keys
\* and failures, whichever way the answers come in, but for what EntryKept and OneRowPerEntry
\* name: an entry typed over a send, and one added again with its outcome unknown or after a
\* refusal that followed a landed request (TransactionEntryRow.tsx).
THEOREM EntryHolds == EntrySpec => [](EntryTypeOK /\ EntryKept /\ OneRowPerEntry)
BY EntryStarts, EntryStep, EntryInvHolds, PTL DEF EntrySpec

(***************************************************************************)
(* Editing a transaction (EditForm): the saves of a row are told apart by   *)
(* their numbers, and the one sent last is the one a form still open knows. *)
(***************************************************************************)
EditSpec == EditInit /\ [][EditNext]_editVars

OpenFormShapes == [value : EditValues, from : EditValues, sent : EditValues \cup {0}]
EditSaveShapes(n) == [number : {n}, txn : EditTxns, value : EditValues, phase : {"asked", "ok", "failed"}]
EditShapes ==
  /\ inSheet \in BOOLEAN
  /\ storedTxn \in [EditTxns -> EditValues \cup {0}] /\ listedTxn \in [EditTxns -> EditValues \cup {0}]
  /\ savedLast \in [EditTxns -> EditValues \cup {0}]
  /\ editForms \in [EditTxns -> {Shut} \cup OpenFormShapes]
  /\ savingForms \subseteq EditTxns /\ editDeletes \subseteq EditTxns /\ lostEdits \subseteq EditTxns
  /\ \A s \in editSaves : s \in EditSaveShapes(s.number)
  /\ inSheet => \A t, u \in EditTxns : editForms[t] # Shut /\ editForms[u] # Shut => t = u

\* A form that is open while saves are under way is the one they were sent from,
\* and shows what was sent, but for what the notes say.
FormSent(t) ==
  editForms[t] # Shut /\ <<"reopened", t>> \notin editNotes =>
    /\ inSheet => \A s \in editSaves : s.txn = t
    /\ (\E s \in editSaves : s.txn = t) /\ <<"typed", t>> \notin editNotes
       => editForms[t].value = editForms[t].sent
\* Nothing of the notes set a transaction aside: it is saved once at a time, and
\* a save that was answered stands.
SetAside(t) == \E k \in {"failed", "elsewhere", "reopened", "entered"} : <<k, t>> \in editNotes
SaveStands(t) ==
  ~SetAside(t) =>
    /\ storedTxn[t] # 0 /\ t \notin editDeletes
    /\ \A s, r \in editSaves : s.txn = t /\ r.txn = t => s = r
    /\ \A s \in editSaves : s.txn = t =>
          /\ s.value = savedLast[t] /\ s.phase # "failed"
          /\ s.phase = "ok" => storedTxn[t] = savedLast[t]
          /\ editForms[t] # Shut => t \in savingForms
    /\ (\A s \in editSaves : s.txn # t) /\ savedLast[t] # 0 => storedTxn[t] = savedLast[t]
EditInv ==
  /\ EditShapes /\ EditKept
  /\ \A t \in EditTxns : FormSent(t)
  /\ \A t \in EditTxns : SaveStands(t)

LEMMA EditConstants ==
  /\ FirstValue \in EditValues /\ EditValues \subseteq Nat \ {0} /\ 0 \notin EditValues
  /\ EditTxnCount \in Nat \ {0} /\ Shut \notin OpenFormShapes /\ Shut.value = 0
<1>1. EditValues \in SUBSET Nat /\ EditValues # {} /\ EditValues \subseteq Nat \ {0} /\ EditTxnCount \in Nat \ {0}
  BY EditAssumption
<1>2. \E v \in EditValues : \A w \in EditValues : v <= w
  BY <1>1, LeastNatural
<1>3. FirstValue \in EditValues
  BY <1>2 DEF FirstValue
<1>4. 0 \notin EditValues
  BY <1>1
<1>5. QED
  BY <1>1, <1>3, <1>4 DEF Shut, OpenFormShapes

LEMMA EditTyped == EditInv => EditTypeOK
<1> SUFFICES ASSUME EditInv PROVE EditTypeOK
  OBVIOUS
<1>1. \A t \in EditTxns : editForms[t].value \in EditValues \cup {0}
  BY EditConstants DEF EditInv, EditShapes, OpenFormShapes
<1>2. ASSUME inSheet PROVE Cardinality(OpenForms) <= 1
  <2>1. CASE OpenForms = {}
    BY <2>1, FS_EmptySet
  <2>2. CASE OpenForms # {}
    <3>1. PICK t \in OpenForms : TRUE
      BY <2>2
    <3>2. OpenForms = {t}
      BY <1>2, <3>1 DEF EditInv, EditShapes, OpenForms
    <3>3. QED
      BY <3>2, FS_Singleton
  <2>3. QED
    BY <2>1, <2>2
<1>3. QED
  BY <1>1, <1>2 DEF EditInv, EditShapes, EditTypeOK

LEMMA EditSafe == EditInv => EditKept /\ LastSaveStands
BY DEF EditInv, SaveStands, SetAside, LastSaveStands

LEMMA EditStarts == EditInit => EditInv
<1> SUFFICES ASSUME EditInit PROVE EditInv
  OBVIOUS
<1>1. EditShapes
  BY EditConstants DEF EditInit, EditShapes
<1>2. EditKept
  BY DEF EditInit, EditKept
<1>3. \A t \in EditTxns : FormSent(t)
  BY DEF EditInit, FormSent
<1>4. \A t \in EditTxns : SaveStands(t)
  BY EditConstants DEF EditInit, SaveStands
<1>5. QED
  BY <1>1, <1>2, <1>3, <1>4 DEF EditInv

\* Forms that close, with nothing saved or answered.
LEMMA FormsCloseKeep ==
  ASSUME EditInv, UNCHANGED <<inSheet, storedTxn, editSaves, savedLast, lostEdits>>,
         listedTxn' \in [EditTxns -> EditValues \cup {0}],
         editForms' \in [EditTxns -> {Shut} \cup OpenFormShapes],
         savingForms' \subseteq EditTxns, editDeletes' \subseteq EditTxns,
         editNotes \subseteq editNotes',
         \A t \in EditTxns : editForms'[t] = Shut \/ editForms'[t] = editForms[t],
         \A t \in EditTxns : t \in savingForms => t \in savingForms' \/ editForms'[t] = Shut,
         \A t \in EditTxns : t \in editDeletes' => t \in editDeletes \/ <<"elsewhere", t>> \in editNotes'
  PROVE  EditInv'
<1>1. EditShapes'
  BY DEF EditInv, EditShapes
<1>2. EditKept'
  BY DEF EditInv, EditKept
<1>3. \A t \in EditTxns : FormSent(t)'
  BY DEF EditInv, FormSent
<1>4. \A t \in EditTxns : SaveStands(t)'
  <2>1. TAKE t \in EditTxns
  <2>2. SetAside(t) => SetAside(t)'
    BY DEF SetAside
  <2>3. ~SetAside(t)' => t \notin editDeletes' \/ t \in editDeletes
    BY DEF SetAside
  <2>4. SaveStands(t)
    BY DEF EditInv
  <2>5. QED
    BY <2>2, <2>3, <2>4 DEF SaveStands
<1>5. QED
  BY <1>1, <1>2, <1>3, <1>4 DEF EditInv

LEMMA ListLoadedAgainKeeps ==
  ASSUME EditInv, ListLoadedAgain
  PROVE  EditInv'
<1>1. /\ listedTxn' = storedTxn
      /\ editForms' = [t \in EditTxns |-> IF storedTxn[t] = 0 THEN Shut ELSE editForms[t]]
      /\ savingForms' = {t \in savingForms : storedTxn[t] # 0}
      /\ UNCHANGED <<inSheet, storedTxn, editSaves, editDeletes, savedLast, lostEdits, editNotes>>
  BY DEF ListLoadedAgain
<1>2. /\ listedTxn' \in [EditTxns -> EditValues \cup {0}]
      /\ editForms' \in [EditTxns -> {Shut} \cup OpenFormShapes]
      /\ savingForms' \subseteq EditTxns /\ editDeletes' \subseteq EditTxns
  BY <1>1 DEF EditInv, EditShapes
<1>3. \A t \in EditTxns : editForms'[t] = Shut \/ editForms'[t] = editForms[t]
  BY <1>1
<1>4. \A t \in EditTxns : t \in savingForms => t \in savingForms' \/ editForms'[t] = Shut
  BY <1>1
<1>5. QED
  BY <1>1, <1>2, <1>3, <1>4, FormsCloseKeep

LEMMA CancelEditKeeps ==
  ASSUME EditInv, CancelEdit
  PROVE  EditInv'
<1>1. PICK t \in OpenForms :
        /\ editForms' = [editForms EXCEPT ![t] = Shut]
        /\ savingForms' = IF inSheet THEN savingForms \ {t} ELSE savingForms
  BY DEF CancelEdit
<1>2. UNCHANGED <<inSheet, storedTxn, listedTxn, editSaves, editDeletes, savedLast, lostEdits, editNotes>>
  BY DEF CancelEdit
<1>3. t \in EditTxns
  BY DEF OpenForms
<1>4. /\ editForms' \in [EditTxns -> {Shut} \cup OpenFormShapes]
      /\ savingForms' \subseteq EditTxns
      /\ \A u \in EditTxns : editForms'[u] = Shut \/ editForms'[u] = editForms[u]
      /\ \A u \in EditTxns : u \in savingForms => u \in savingForms' \/ editForms'[u] = Shut
  BY <1>1, <1>3 DEF EditInv, EditShapes
<1>5. listedTxn' \in [EditTxns -> EditValues \cup {0}] /\ editDeletes' \subseteq EditTxns
  BY <1>2 DEF EditInv, EditShapes
<1>6. QED
  BY <1>2, <1>4, <1>5, FormsCloseKeep

LEMMA DeleteInSheetKeeps ==
  ASSUME EditInv, DeleteInSheet
  PROVE  EditInv'
<1>1. PICK t \in OpenForms :
        /\ editForms' = [editForms EXCEPT ![t] = Shut] /\ savingForms' = savingForms \ {t}
        /\ editDeletes' = editDeletes \cup {t}
        /\ editNotes' = editNotes \cup {<<"elsewhere", t>>}
  BY DEF DeleteInSheet
<1>2. UNCHANGED <<inSheet, storedTxn, listedTxn, editSaves, savedLast, lostEdits>>
  BY DEF DeleteInSheet
<1>3. t \in EditTxns
  BY DEF OpenForms
<1>4. /\ editForms' \in [EditTxns -> {Shut} \cup OpenFormShapes]
      /\ savingForms' \subseteq EditTxns /\ editDeletes' \subseteq EditTxns
      /\ \A u \in EditTxns : editForms'[u] = Shut \/ editForms'[u] = editForms[u]
      /\ \A u \in EditTxns : u \in savingForms => u \in savingForms' \/ editForms'[u] = Shut
  BY <1>1, <1>3 DEF EditInv, EditShapes
<1>5. \A u \in EditTxns : u \in editDeletes' => u \in editDeletes \/ <<"elsewhere", u>> \in editNotes'
  BY <1>1
<1>6. listedTxn' \in [EditTxns -> EditValues \cup {0}] /\ editNotes \subseteq editNotes'
  BY <1>1, <1>2 DEF EditInv, EditShapes
<1>7. QED
  BY <1>2, <1>4, <1>5, <1>6, FormsCloseKeep

\* A transaction that changes or goes by another way, with the notes saying so.
LEMMA StoredMovesKeeps ==
  ASSUME EditInv, UNCHANGED <<inSheet, listedTxn, editForms, savingForms, editSaves, savedLast, lostEdits>>,
         storedTxn' \in [EditTxns -> EditValues \cup {0}], editDeletes' \subseteq editDeletes,
         editNotes \subseteq editNotes',
         \A t \in EditTxns : storedTxn'[t] = storedTxn[t] \/ <<"elsewhere", t>> \in editNotes'
  PROVE  EditInv'
<1>1. EditShapes'
  BY DEF EditInv, EditShapes
<1>2. EditKept'
  BY DEF EditInv, EditKept
<1>3. \A t \in EditTxns : FormSent(t)'
  BY DEF EditInv, FormSent
<1>4. \A t \in EditTxns : SaveStands(t)'
  <2>1. TAKE t \in EditTxns
  <2>2. SetAside(t) => SetAside(t)'
    BY DEF SetAside
  <2>3. ~SetAside(t)' => storedTxn'[t] = storedTxn[t]
    BY DEF SetAside
  <2>4. SaveStands(t)
    BY DEF EditInv
  <2>5. QED
    BY <2>2, <2>3, <2>4 DEF SaveStands
<1>5. QED
  BY <1>1, <1>2, <1>3, <1>4 DEF EditInv

LEMMA ChangedElsewhereKeeps ==
  ASSUME EditInv, ChangedElsewhere
  PROVE  EditInv'
<1>1. PICK t \in EditTxns, v \in EditValues \cup {0} :
        /\ storedTxn' = [storedTxn EXCEPT ![t] = v]
        /\ editNotes' = editNotes \cup {<<"elsewhere", t>>}
  BY DEF ChangedElsewhere
<1>2. UNCHANGED <<inSheet, listedTxn, editForms, savingForms, editSaves, editDeletes, savedLast, lostEdits>>
  BY DEF ChangedElsewhere
<1>3. /\ storedTxn' \in [EditTxns -> EditValues \cup {0}]
      /\ \A u \in EditTxns : storedTxn'[u] = storedTxn[u] \/ <<"elsewhere", u>> \in editNotes'
  BY <1>1 DEF EditInv, EditShapes
<1>4. QED
  BY <1>1, <1>2, <1>3, StoredMovesKeeps

LEMMA DeleteServedKeeps ==
  ASSUME EditInv, DeleteServed
  PROVE  EditInv'
<1>1. PICK t \in editDeletes :
        /\ editDeletes' = editDeletes \ {t}
        /\ storedTxn' = [storedTxn EXCEPT ![t] = 0] \/ UNCHANGED storedTxn
  BY DEF DeleteServed
<1>2. UNCHANGED <<inSheet, listedTxn, editForms, savingForms, editSaves, savedLast, lostEdits, editNotes>>
  BY DEF DeleteServed
<1>3. t \in EditTxns /\ SetAside(t)
  BY DEF EditInv, EditShapes, SaveStands
<1>4. storedTxn' \in [EditTxns -> EditValues \cup {0}] /\ \A u \in EditTxns : u # t => storedTxn'[u] = storedTxn[u]
  BY <1>1, <1>3 DEF EditInv, EditShapes
<1>5. EditShapes' /\ EditKept'
  BY <1>1, <1>2, <1>4 DEF EditInv, EditShapes, EditKept
<1>6. \A u \in EditTxns : FormSent(u)'
  BY <1>2 DEF EditInv, FormSent
<1>7. \A u \in EditTxns : SaveStands(u)'
  <2>1. TAKE u \in EditTxns
  <2>2. SetAside(u)' <=> SetAside(u)
    BY <1>2 DEF SetAside
  <2>3. SaveStands(u)
    BY DEF EditInv
  <2>4. CASE u = t
    BY <1>3, <2>2, <2>4 DEF SaveStands
  <2>5. CASE u # t
    BY <1>1, <1>2, <1>4, <2>2, <2>3, <2>5 DEF SaveStands
  <2>6. QED
    BY <2>4, <2>5
<1>8. QED
  BY <1>5, <1>6, <1>7 DEF EditInv

LEMMA StartEditingKeeps ==
  ASSUME EditInv, StartEditing
  PROVE  EditInv'
<1> DEFINE filled(t) == [value |-> listedTxn[t], from |-> listedTxn[t], sent |-> 0]
           before(t) == IF inSheet THEN editSaves # {} ELSE SavesOf(t) # {}
<1>1. PICK t \in EditTxns \ OpenForms :
        /\ listedTxn[t] # 0 /\ (inSheet => OpenForms = {})
        /\ editForms' = [editForms EXCEPT ![t] = filled(t)]
        /\ savingForms' = IF inSheet THEN {} ELSE savingForms
        /\ editNotes' = editNotes \cup {<<"reopened", u>> : u \in {v \in {t} : IF inSheet THEN editSaves # {} ELSE SavesOf(t) # {}}}
  BY DEF StartEditing
<1>2. UNCHANGED <<inSheet, storedTxn, listedTxn, editSaves, editDeletes, savedLast, lostEdits>>
  BY DEF StartEditing
<1>3. filled(t) \in OpenFormShapes /\ editForms[t] = Shut
  BY <1>1 DEF EditInv, EditShapes, OpenFormShapes, OpenForms
<1>4. editNotes \subseteq editNotes' /\ (before(t) => <<"reopened", t>> \in editNotes')
  BY <1>1
<1> HIDE DEF filled
<1>5. /\ editForms' \in [EditTxns -> {Shut} \cup OpenFormShapes]
      /\ \A u \in EditTxns : editForms'[u] = IF u = t THEN filled(t) ELSE editForms[u]
  BY <1>1, <1>3 DEF EditInv, EditShapes
<1>6. inSheet => \A u \in EditTxns : u # t => editForms[u] = Shut /\ editForms'[u] = Shut
  BY <1>1, <1>5 DEF OpenForms
<1>7. EditShapes'
  BY <1>1, <1>2, <1>5, <1>6 DEF EditInv, EditShapes
<1>8. EditKept'
  BY <1>2, <1>4 DEF EditInv, EditKept
<1>9. \A u \in EditTxns : FormSent(u)'
  <2>1. TAKE u \in EditTxns
  <2>2. CASE u = t
    BY <1>2, <1>4, <2>2 DEF FormSent, SavesOf
  <2>3. CASE u # t
    <3>1. editForms'[u] = editForms[u] /\ FormSent(u)
      BY <1>5, <2>3 DEF EditInv
    <3>2. QED
      BY <1>2, <1>4, <3>1 DEF FormSent
  <2>4. QED
    BY <2>2, <2>3
<1>10. \A u \in EditTxns : SaveStands(u)'
  <2>1. TAKE u \in EditTxns
  <2>2. SetAside(u) => SetAside(u)'
    BY <1>4 DEF SetAside
  <2>3. SaveStands(u)
    BY DEF EditInv
  <2>4. CASE u = t
    <3>1. ASSUME ~SetAside(u)' PROVE \A s \in editSaves : s.txn # t
      BY <1>4, <2>4, <3>1 DEF SetAside, SavesOf
    <3>2. QED
      BY <1>2, <2>2, <2>3, <2>4, <3>1 DEF SaveStands
  <2>5. CASE u # t
    <3>1. editForms'[u] = Shut \/ (editForms'[u] = editForms[u] /\ savingForms' = savingForms)
      BY <1>1, <1>5, <1>6, <2>5
    <3>2. QED
      BY <1>2, <2>2, <2>3, <3>1 DEF SaveStands
  <2>6. QED
    BY <2>4, <2>5
<1>11. QED
  BY <1>7, <1>8, <1>9, <1>10 DEF EditInv

LEMMA TypeEditKeeps ==
  ASSUME EditInv, TypeEdit
  PROVE  EditInv'
<1>1. PICK t \in OpenForms, v \in EditValues :
        /\ editForms' = [editForms EXCEPT ![t].value = v]
        /\ editNotes' = IF SavesOf(t) # {} THEN editNotes \cup {<<"typed", t>>} ELSE editNotes
  BY DEF TypeEdit
<1>2. UNCHANGED <<inSheet, storedTxn, listedTxn, savingForms, editSaves, editDeletes, savedLast, lostEdits>>
  BY DEF TypeEdit
<1>3. t \in EditTxns /\ editForms[t] \in OpenFormShapes
  BY DEF EditInv, EditShapes, OpenForms
<1> DEFINE h == [editForms[t] EXCEPT !.value = v]
<1>4. h \in OpenFormShapes /\ editForms' = [editForms EXCEPT ![t] = h]
  BY <1>1, <1>3 DEF OpenFormShapes
<1> HIDE DEF h
<1>5. /\ editForms' \in [EditTxns -> {Shut} \cup OpenFormShapes]
      /\ \A u \in EditTxns : editForms'[u] = IF u = t THEN h ELSE editForms[u]
      /\ \A u \in EditTxns : editForms'[u] # Shut <=> editForms[u] # Shut
  BY <1>3, <1>4, EditConstants DEF EditInv, EditShapes
<1>6. editNotes \subseteq editNotes' /\ \A u \in EditTxns : SetAside(u)' <=> SetAside(u)
  BY <1>1 DEF SetAside
<1>7. EditShapes'
  BY <1>2, <1>5 DEF EditInv, EditShapes
<1>8. EditKept'
  BY <1>2, <1>6 DEF EditInv, EditKept
<1>9. \A u \in EditTxns : FormSent(u)'
  <2>1. TAKE u \in EditTxns
  <2>2. FormSent(u)
    BY DEF EditInv
  <2>3. CASE u = t
    <3>1. (\E s \in editSaves : s.txn = t) => <<"typed", t>> \in editNotes'
      BY <1>1 DEF SavesOf
    <3>2. QED
      BY <1>2, <1>5, <1>6, <2>2, <2>3, <3>1 DEF FormSent
  <2>4. CASE u # t
    BY <1>2, <1>5, <1>6, <2>2, <2>4 DEF FormSent
  <2>5. QED
    BY <2>3, <2>4
<1>10. \A u \in EditTxns : SaveStands(u)'
  BY <1>2, <1>5, <1>6 DEF EditInv, SaveStands
<1>11. QED
  BY <1>7, <1>8, <1>9, <1>10 DEF EditInv

\* A save that is sent while none of the transaction's is under way, or that the
\* notes tell of.
LEMMA SendEditKeeps ==
  ASSUME EditInv, NEW t \in OpenForms, SendEdit(t), editNotes \subseteq editNotes',
         t \notin savingForms \/ <<"entered", t>> \in editNotes',
         UNCHANGED <<inSheet, storedTxn, listedTxn, editDeletes, lostEdits>>
  PROVE  EditInv'
<1> DEFINE free == CHOOSE n \in 1..(MaxEditActs + 1) : \A s \in editSaves : s.number # n
           new == [number |-> free, txn |-> t, value |-> editForms[t].value, phase |-> "asked"]
           h == [editForms[t] EXCEPT !.sent = editForms[t].value]
<1>1. /\ editSaves' = editSaves \cup {new} /\ savedLast' = [savedLast EXCEPT ![t] = editForms[t].value]
      /\ savingForms' = savingForms \cup {t}
      /\ editForms' = [editForms EXCEPT ![t].sent = editForms[t].value]
  BY DEF SendEdit
<1>2. t \in EditTxns /\ editForms[t] \in OpenFormShapes /\ editForms[t].value \in EditValues
  BY DEF EditInv, EditShapes, OpenForms, OpenFormShapes
<1>3. h \in OpenFormShapes /\ h.value = editForms[t].value /\ h.sent = h.value /\ editForms' = [editForms EXCEPT ![t] = h]
  BY <1>1, <1>2 DEF OpenFormShapes
<1> HIDE DEF free, h
<1>4. new \in EditSaveShapes(new.number) /\ new.txn = t /\ new.value = editForms[t].value /\ new.phase = "asked"
  BY <1>2 DEF EditSaveShapes
<1> HIDE DEF new
<1>5. /\ editForms' \in [EditTxns -> {Shut} \cup OpenFormShapes]
      /\ \A u \in EditTxns : editForms'[u] = IF u = t THEN h ELSE editForms[u]
      /\ \A u \in EditTxns : editForms'[u] # Shut <=> editForms[u] # Shut
  BY <1>2, <1>3, EditConstants DEF EditInv, EditShapes
<1>6. /\ savedLast' \in [EditTxns -> EditValues \cup {0}]
      /\ \A u \in EditTxns : savedLast'[u] = IF u = t THEN editForms[t].value ELSE savedLast[u]
  BY <1>1, <1>2 DEF EditInv, EditShapes
<1>7. EditShapes'
  <2>1. \A s \in editSaves' : s \in EditSaveShapes(s.number)
    BY <1>1, <1>4 DEF EditInv, EditShapes
  <2>2. savingForms' \subseteq EditTxns
    BY <1>1, <1>2 DEF EditInv, EditShapes
  <2>3. QED
    BY <1>5, <1>6, <2>1, <2>2 DEF EditInv, EditShapes
<1>8. EditKept'
  BY DEF EditInv, EditKept
<1>9. \A u \in EditTxns : FormSent(u)'
  <2>1. TAKE u \in EditTxns
  <2>2. FormSent(u)
    BY DEF EditInv
  <2>3. CASE u = t
    <3>1. editForms[u] # Shut /\ editForms'[u].value = editForms'[u].sent
      BY <1>3, <1>5, <2>3 DEF OpenForms
    <3>2. inSheet /\ <<"reopened", u>> \notin editNotes' => \A s \in editSaves' : s.txn = u
      BY <1>1, <1>4, <2>2, <2>3, <3>1 DEF FormSent
    <3>3. QED
      BY <3>1, <3>2 DEF FormSent
  <2>4. CASE u # t
    <3>1. editForms'[u] = editForms[u] /\ (inSheet => editForms[u] = Shut)
      BY <1>2, <1>5, <2>4 DEF EditInv, EditShapes, OpenForms
    <3>2. (\E s \in editSaves' : s.txn = u) => \E s \in editSaves : s.txn = u
      BY <1>1, <1>4, <2>4
    <3>3. QED
      BY <2>2, <3>1, <3>2 DEF FormSent
  <2>5. QED
    BY <2>3, <2>4
<1>10. \A u \in EditTxns : SaveStands(u)'
  <2>1. TAKE u \in EditTxns
  <2>2. SetAside(u) => SetAside(u)'
    BY DEF SetAside
  <2>3. SaveStands(u)
    BY DEF EditInv
  <2>4. CASE u = t
    <3>1. ASSUME ~SetAside(u)' PROVE \A s \in editSaves : s.txn # t
      <4>1. t \notin savingForms /\ editForms[t] # Shut
        BY <2>4, <3>1 DEF SetAside, OpenForms
      <4>2. QED
        BY <2>2, <2>3, <2>4, <3>1, <4>1 DEF SaveStands
    <3>2. ASSUME ~SetAside(u)', NEW s \in editSaves', s.txn = t PROVE s = new
      BY <1>1, <3>1, <3>2
    <3>3. savedLast'[u] = new.value /\ new \in editSaves' /\ new.txn = u /\ new.phase = "asked" /\ t \in savingForms'
      BY <1>1, <1>4, <1>6, <2>4
    <3>4. QED
      BY <2>2, <2>3, <2>4, <3>2, <3>3 DEF SaveStands
  <2>5. CASE u # t
    <3>1. \A s \in editSaves' : s.txn = u <=> s \in editSaves /\ s.txn = u
      BY <1>1, <1>4, <2>5
    <3>2. editSaves \subseteq editSaves' /\ savedLast'[u] = savedLast[u] /\ editForms'[u] = editForms[u] /\ (u \in savingForms => u \in savingForms')
      BY <1>1, <1>5, <1>6, <2>5
    <3>3. QED
      BY <2>2, <2>3, <3>1, <3>2 DEF SaveStands
  <2>6. QED
    BY <2>4, <2>5
<1>11. QED
  BY <1>7, <1>8, <1>9, <1>10 DEF EditInv

LEMMA EditSendsKeep ==
  ASSUME EditInv, SaveEdit \/ EnterInRow
  PROVE  EditInv'
<1>1. CASE SaveEdit
  <2>1. PICK t \in OpenForms : t \notin savingForms /\ SendEdit(t)
    BY <1>1 DEF SaveEdit, SaveDisabled
  <2>2. UNCHANGED <<inSheet, storedTxn, listedTxn, editDeletes, lostEdits, editNotes>>
    BY <1>1 DEF SaveEdit
  <2>3. QED
    BY <2>1, <2>2, SendEditKeeps
<1>2. CASE EnterInRow
  <2>1. PICK t \in OpenForms : SendEdit(t) /\ editNotes' = editNotes \cup {<<"entered", t>>}
    BY <1>2 DEF EnterInRow
  <2>2. UNCHANGED <<inSheet, storedTxn, listedTxn, editDeletes, lostEdits>>
    BY <1>2 DEF EnterInRow
  <2>3. QED
    BY <2>1, <2>2, SendEditKeeps
<1>3. QED
  BY <1>1, <1>2

LEMMA ServeEditKeeps ==
  ASSUME EditInv, ServeEdit
  PROVE  EditInv'
<1> DEFINE put(s) == [storedTxn EXCEPT ![s.txn] = s.value]
           after(s, p) == (editSaves \ {s}) \cup {[s EXCEPT !.phase = p]}
<1>1. PICK s \in editSaves :
        /\ s.phase = "asked"
        /\ \/ /\ storedTxn[s.txn] # 0 /\ storedTxn' = put(s) /\ editSaves' = after(s, "ok")
              /\ UNCHANGED editNotes
           \/ storedTxn[s.txn] = 0 /\ editSaves' = after(s, "failed") /\ UNCHANGED <<storedTxn, editNotes>>
           \/ /\ editSaves' = after(s, "failed") /\ storedTxn' \in {storedTxn, put(s)}
              /\ editNotes' = editNotes \cup {<<"failed", s.txn>>}
  BY DEF ServeEdit
<1>2. UNCHANGED <<inSheet, listedTxn, editForms, savingForms, editDeletes, savedLast, lostEdits>>
  BY DEF ServeEdit
<1>3. s \in EditSaveShapes(s.number) /\ s.txn \in EditTxns /\ s.value \in EditValues
  BY DEF EditInv, EditShapes, EditSaveShapes
<1>4. put(s) \in [EditTxns -> EditValues \cup {0}]
      /\ \A t \in EditTxns : put(s)[t] = IF t = s.txn THEN s.value ELSE storedTxn[t]
  BY <1>3 DEF EditInv, EditShapes
<1> HIDE DEF put
<1>5. PICK r : /\ editSaves' = (editSaves \ {s}) \cup {r} /\ r \in EditSaveShapes(r.number)
               /\ r.txn = s.txn /\ r.value = s.value /\ r.phase \in {"ok", "failed"}
               /\ r.phase = "ok" => storedTxn' = put(s)
               /\ r.phase = "failed" => SetAside(s.txn)'
  <2> DEFINE good == [s EXCEPT !.phase = "ok"]
             bad == [s EXCEPT !.phase = "failed"]
  <2>1. good \in EditSaveShapes(good.number) /\ good.txn = s.txn /\ good.value = s.value /\ good.phase = "ok"
    BY <1>3 DEF EditSaveShapes
  <2>2. bad \in EditSaveShapes(bad.number) /\ bad.txn = s.txn /\ bad.value = s.value /\ bad.phase = "failed"
    BY <1>3 DEF EditSaveShapes
  <2>3. \/ editSaves' = (editSaves \ {s}) \cup {good} /\ storedTxn' = put(s)
        \/ editSaves' = (editSaves \ {s}) \cup {bad} /\ ((storedTxn[s.txn] = 0 /\ UNCHANGED editNotes) \/ <<"failed", s.txn>> \in editNotes')
    BY <1>1
  <2> HIDE DEF good, bad
  <2>4. storedTxn[s.txn] = 0 => SetAside(s.txn)
    BY <1>3 DEF EditInv, SaveStands
  <2>5. UNCHANGED editNotes => (SetAside(s.txn) => SetAside(s.txn)')
    BY DEF SetAside
  <2>6. <<"failed", s.txn>> \in editNotes' => SetAside(s.txn)'
    BY DEF SetAside
  <2>7. QED
    BY <2>1, <2>2, <2>3, <2>4, <2>5, <2>6
<1>6. /\ storedTxn' \in [EditTxns -> EditValues \cup {0}] /\ editNotes \subseteq editNotes'
      /\ \A t \in EditTxns : t # s.txn => storedTxn'[t] = storedTxn[t]
  <2>1. storedTxn' \in {storedTxn, put(s)} /\ editNotes \subseteq editNotes'
    BY <1>1
  <2>2. QED
    BY <1>4, <2>1 DEF EditInv, EditShapes
<1>7. EditShapes'
  <2>1. \A q \in editSaves' : q \in EditSaveShapes(q.number)
    BY <1>5 DEF EditInv, EditShapes
  <2>2. QED
    BY <1>2, <1>6, <2>1 DEF EditInv, EditShapes
<1>8. EditKept'
  BY <1>2, <1>6 DEF EditInv, EditKept
<1>9. \A u \in EditTxns : FormSent(u)'
  <2>1. TAKE u \in EditTxns
  <2>2. FormSent(u)
    BY DEF EditInv
  <2>3. (\A q \in editSaves : q.txn = u) => \A q \in editSaves' : q.txn = u
    BY <1>5
  <2>4. (\E q \in editSaves' : q.txn = u) => \E q \in editSaves : q.txn = u
    BY <1>5
  <2>5. QED
    BY <1>2, <1>6, <2>2, <2>3, <2>4 DEF FormSent
<1>10. \A u \in EditTxns : SaveStands(u)'
  <2>1. TAKE u \in EditTxns
  <2>2. SetAside(u) => SetAside(u)'
    BY <1>6 DEF SetAside
  <2>3. SaveStands(u)
    BY DEF EditInv
  <2>4. CASE u = s.txn
    <3>1. ASSUME ~SetAside(u)'
          PROVE  /\ \A q \in editSaves' : q.txn = u => q = r
                 /\ r.phase = "ok" /\ r.value = savedLast[u] /\ storedTxn'[u] = savedLast[u]
                 /\ editForms[u] # Shut => u \in savingForms
                 /\ savedLast[u] # 0 /\ u \notin editDeletes
      <4>1. ~SetAside(u)
        BY <2>2, <3>1
      <4>2. \A q \in editSaves : q.txn = u => q = s
        BY <2>3, <2>4, <4>1 DEF SaveStands
      <4>3. s.value = savedLast[u] /\ (editForms[u] # Shut => u \in savingForms) /\ u \notin editDeletes
        BY <2>3, <2>4, <4>1 DEF SaveStands
      <4>4. r.phase = "ok" /\ storedTxn' = put(s)
        BY <1>5, <2>4, <3>1
      <4>5. QED
        BY <1>3, <1>4, <1>5, <2>4, <4>2, <4>3, <4>4, EditConstants
    <3>2. r \in editSaves' /\ r.txn = u
      BY <1>5, <2>4
    <3>3. QED
      BY <1>2, <3>1, <3>2 DEF SaveStands
  <2>5. CASE u # s.txn
    <3>1. \A q : q.txn = u => (q \in editSaves' <=> q \in editSaves)
      BY <1>5, <2>5
    <3>2. storedTxn'[u] = storedTxn[u]
      BY <1>6, <2>5
    <3>3. QED
      BY <1>2, <2>2, <2>3, <3>1, <3>2 DEF SaveStands
  <2>6. QED
    BY <2>4, <2>5
<1>11. QED
  BY <1>7, <1>8, <1>9, <1>10 DEF EditInv

LEMMA EditSavedKeeps ==
  ASSUME EditInv, EditSaved
  PROVE  EditInv'
<1>1. PICK s \in editSaves :
        /\ s.phase # "asked" /\ editSaves' = editSaves \ {s}
        /\ editForms' = [t \in EditTxns |-> IF t \in ClosedBy(s) THEN Shut ELSE editForms[t]]
        /\ savingForms' = savingForms \ (ClosedBy(s) \cup {s.txn})
        /\ lostEdits' = lostEdits \cup {t \in ClosedBy(s) :
                                           Unsaved(t) \/ (s.phase = "failed" /\ t = s.txn)}
  BY DEF EditSaved
<1>2. UNCHANGED <<inSheet, storedTxn, listedTxn, editDeletes, savedLast, editNotes>>
  BY DEF EditSaved
<1>3. s.txn \in EditTxns /\ s.phase \in {"ok", "failed"} /\ ClosedBy(s) \subseteq EditTxns
  BY <1>1 DEF EditInv, EditShapes, EditSaveShapes, ClosedBy, OpenForms
<1>4. /\ editForms' \in [EditTxns -> {Shut} \cup OpenFormShapes]
      /\ \A u \in EditTxns : editForms'[u] = IF u \in ClosedBy(s) THEN Shut ELSE editForms[u]
  BY <1>1 DEF EditInv, EditShapes
<1>5. EditShapes'
  BY <1>1, <1>2, <1>3, <1>4 DEF EditInv, EditShapes
<1>6. EditKept'
  <2>1. ASSUME NEW t \in ClosedBy(s), Unsaved(t) \/ (s.phase = "failed" /\ t = s.txn)
        PROVE  {<<"typed", t>>, <<"reopened", t>>} \cap editNotes # {}
    <3>1. s.phase = "ok" /\ Unsaved(t) /\ t \in EditTxns /\ editForms[t] # Shut
          /\ (~inSheet => s.txn = t)
      BY <1>3, <2>1 DEF ClosedBy, OpenForms
    <3>2. editForms[t].value # editForms[t].sent
      BY <3>1 DEF Unsaved
    <3>3. FormSent(t)
      BY <3>1 DEF EditInv
    <3>4. QED
      BY <3>1, <3>2, <3>3 DEF FormSent
  <2>2. QED
    BY <1>1, <1>2, <2>1 DEF EditInv, EditKept
<1>7. \A u \in EditTxns : FormSent(u)'
  BY <1>1, <1>2, <1>4 DEF EditInv, FormSent
<1>8. \A u \in EditTxns : SaveStands(u)'
  <2>1. TAKE u \in EditTxns
  <2>2. SetAside(u)' <=> SetAside(u)
    BY <1>2 DEF SetAside
  <2>3. SaveStands(u)
    BY DEF EditInv
  <2>4. CASE u = s.txn
    <3>1. ASSUME ~SetAside(u)
          PROVE  (\A q \in editSaves' : q.txn # u) /\ storedTxn[u] = savedLast[u]
      BY <1>1, <1>3, <2>3, <2>4, <3>1 DEF SaveStands
    <3>2. QED
      BY <1>1, <1>2, <2>2, <2>3, <3>1 DEF SaveStands
  <2>5. CASE u # s.txn
    <3>1. \A q : q.txn = u => (q \in editSaves' <=> q \in editSaves)
      BY <1>1, <2>5
    <3>2. u \in savingForms => u \in savingForms' \/ editForms'[u] = Shut
      BY <1>1, <1>4, <2>5
    <3>3. editForms'[u] # Shut => editForms[u] # Shut
      BY <1>4
    <3>4. QED
      BY <1>2, <2>2, <2>3, <3>1, <3>2, <3>3 DEF SaveStands
  <2>6. QED
    BY <2>4, <2>5
<1>9. QED
  BY <1>5, <1>6, <1>7, <1>8 DEF EditInv

LEMMA EditStands ==
  ASSUME EditInv, UNCHANGED editVars
  PROVE  EditInv'
<1>1. UNCHANGED <<inSheet, storedTxn, listedTxn, editForms, savingForms, editSaves, editDeletes, savedLast,
                  lostEdits, editNotes>>
  BY DEF editVars
<1>2. storedTxn' \in [EditTxns -> EditValues \cup {0}]
  BY <1>1 DEF EditInv, EditShapes
<1>3. QED
  BY <1>1, <1>2, StoredMovesKeeps

LEMMA EditSteps ==
  ASSUME EditInv, [EditNext]_editVars
  PROVE  EditInv'
BY ListLoadedAgainKeeps, ChangedElsewhereKeeps, StartEditingKeeps, TypeEditKeeps, CancelEditKeeps,
   EditSendsKeep, ServeEditKeeps, EditSavedKeeps, DeleteInSheetKeeps, DeleteServedKeeps, EditStands DEF EditNext

\* An answer closes a form only with what was saved, and what was saved last stands
\* (useTransactionEditForm.ts, TransactionEditSheet.tsx).
THEOREM EditHolds == EditSpec => [](EditTypeOK /\ EditKept /\ LastSaveStands)
<1>1. EditSpec => []EditInv
  BY EditStarts, EditSteps, PTL DEF EditSpec
<1>2. QED
  BY <1>1, EditTyped, EditSafe, PTL

(***************************************************************************)
(* Quick add (QuickAddPage): a key is taken by one draft, and two keys of  *)
(* the same draft are told.                                                *)
(***************************************************************************)
QuickSpec == QuickAddInit /\ [][QuickAddNext]_quickVars

QuickSendings == [phase : {"none", "asked", "ok", "unknown", "refused"}, retry : BOOLEAN]
QuickForms == [draft : 0..MaxDrafts, refund : BOOLEAN, kind : Kinds, category : QuickCategories]

QuickShapes ==
  /\ quickMode \in Modes /\ quickKind \in Kinds /\ pickedCategory \in {"none", quickKind}
  /\ draftCount \in 0..MaxDrafts /\ drafts \in [Modes -> 0..draftCount]
  /\ isRefund \in BOOLEAN /\ quickSaving \in BOOLEAN
  /\ quickSends \in [QuickKeys -> QuickSendings]
  /\ quickPayload \in [QuickKeys -> QuickForms]
  /\ \A k \in QuickKeys : quickPayload[k].draft <= draftCount
                          /\ quickPayload[k].category \in {"none", quickPayload[k].kind}
  /\ quickToast \in [QuickKeys -> {"none", "retry", "refused", "loading", "saved"}]
  /\ quickUndos \subseteq QuickKeys /\ quickRows \in [QuickKeys -> {"none", "live", "undone"}]
  /\ quickDiscarded \subseteq 1..draftCount /\ quickCrossed \subseteq 1..draftCount /\ quickResent \subseteq 1..draftCount

QuickSending(k) == quickSends[k].phase # "none"

\* A key that is not used has left no trace, and an answered one a row.
QuickKeysInPhase ==
  \A k \in QuickKeys :
     /\ quickPayload[k].draft = 0 => quickPayload[k] = NoPayload /\ ~QuickSending(k) /\ quickToast[k] = "none"
     /\ quickSends[k].phase = "ok" => quickRows[k] # "none"

\* A draft that is safe without the requests under way and the toasts.
DraftSafe(d) ==
  \/ d \in quickDiscarded \cup quickCrossed \/ \E m \in Modes : drafts[m] = d
  \/ \E k \in QuickKeys : quickPayload[k].draft = d /\ quickRows[k] # "none"

DraftsKept ==
  /\ \A k \in QuickKeys : QuickSending(k) /\ ~quickSends[k].retry => DraftSafe(quickPayload[k].draft)
  /\ \A d \in 1..draftCount :
        DraftSafe(d) \/ \E k \in QuickKeys : quickPayload[k].draft = d /\ (QuickSending(k) \/ quickToast[k] = "retry")

\* Two keys of one draft are told, and so is a draft that may get a second one.
OneKeyPerDraft ==
  /\ ~quickSaving => \A k \in QuickKeys : QuickSending(k) /\ ~quickSends[k].retry => quickPayload[k].draft \in quickResent
  /\ \A j, k \in QuickKeys : j # k /\ quickPayload[j].draft = quickPayload[k].draft /\ quickPayload[j].draft # 0
                             => quickPayload[j].draft \in quickResent

QuickInv == QuickShapes /\ QuickKeysInPhase /\ DraftsKept /\ OneKeyPerDraft

LEMMA QuickStarts == QuickAddInit => QuickInv
<1> SUFFICES ASSUME QuickAddInit PROVE QuickInv
  OBVIOUS
<1>1. MaxDrafts \in Nat /\ draftCount = 0 /\ 0 \in 0..0 /\ 0 \in 0..MaxDrafts
  BY QuickAssumption DEF QuickAddInit
<1>2. NoQuickSend \in QuickSendings /\ NoQuickSend.phase = "none"
  BY DEF NoQuickSend, QuickSendings
<1>3. /\ NoPayload \in QuickForms /\ NoPayload.draft = 0 /\ NoPayload.category = "none"
  BY <1>1 DEF NoPayload, QuickForms, QuickCategories, Kinds
<1>4. drafts \in [Modes -> 0..draftCount] /\ quickSends \in [QuickKeys -> QuickSendings]
      /\ quickPayload \in [QuickKeys -> QuickForms]
  BY <1>1, <1>2, <1>3 DEF QuickAddInit
<1>5. \A k \in QuickKeys : /\ quickPayload[k] = NoPayload /\ ~QuickSending(k) /\ quickToast[k] = "none"
                           /\ quickSends[k].phase = "none"
  BY <1>2 DEF QuickAddInit, QuickSending
<1>6. QuickShapes
  <2>1. \A k \in QuickKeys : quickPayload[k].draft <= draftCount
                            /\ quickPayload[k].category \in {"none", quickPayload[k].kind}
    BY <1>1, <1>3, <1>5
  <2>2. /\ quickMode \in Modes /\ quickKind \in Kinds /\ pickedCategory \in {"none", quickKind}
        /\ isRefund \in BOOLEAN /\ quickSaving \in BOOLEAN /\ quickUndos \subseteq QuickKeys
    BY DEF QuickAddInit
  <2>3. /\ quickToast \in [QuickKeys -> {"none", "retry", "refused", "loading", "saved"}]
        /\ quickRows \in [QuickKeys -> {"none", "live", "undone"}]
    BY DEF QuickAddInit
  <2>4. quickDiscarded \subseteq 1..draftCount /\ quickCrossed \subseteq 1..draftCount /\ quickResent \subseteq 1..draftCount
    BY DEF QuickAddInit
  <2>5. QED
    BY <1>1, <1>4, <2>1, <2>2, <2>3, <2>4 DEF QuickShapes
<1>7. QuickKeysInPhase /\ DraftsKept /\ OneKeyPerDraft
  BY <1>1, <1>3, <1>5 DEF QuickKeysInPhase, DraftsKept, OneKeyPerDraft
<1>8. QED
  BY <1>6, <1>7 DEF QuickInv

LEMMA TypeDraftKeeps == ASSUME QuickInv, TypeDraft PROVE QuickInv'
<1> DEFINE old == {drafts[quickMode]} \ {0}
<1>1. draftCount < MaxDrafts /\ draftCount' = draftCount + 1 /\ drafts' = [drafts EXCEPT ![quickMode] = draftCount + 1]
  BY DEF TypeDraft
<1>2. IF \E k \in SendsUnderWay : ~quickSends[k].retry
      THEN quickCrossed' = quickCrossed \cup old \cup {draftCount + 1} /\ quickDiscarded' = quickDiscarded
      ELSE quickDiscarded' = quickDiscarded \cup old /\ quickCrossed' = quickCrossed
  BY DEF TypeDraft
<1>3. UNCHANGED <<quickMode, quickKind, pickedCategory, isRefund, quickSaving, quickSends, quickPayload,
                  quickToast, quickUndos, quickRows, quickResent>>
  BY DEF TypeDraft
<1>4. draftCount \in Nat /\ MaxDrafts \in Nat /\ quickMode \in Modes
  BY QuickAssumption DEF QuickInv, QuickShapes
<1>5. old \subseteq 1..draftCount
  BY <1>4 DEF QuickInv, QuickShapes
<1>6. \A m \in Modes : drafts'[m] = IF m = quickMode THEN draftCount + 1 ELSE drafts[m]
  BY <1>1 DEF QuickInv, QuickShapes
<1>7. QuickShapes'
  <2>1. /\ draftCount' \in 0..MaxDrafts /\ drafts' \in [Modes -> 0..draftCount'] /\ quickResent' \subseteq 1..draftCount'
    BY <1>1, <1>3, <1>4 DEF QuickInv, QuickShapes
  <2>2. quickDiscarded' \subseteq 1..draftCount' /\ quickCrossed' \subseteq 1..draftCount'
    <3>1. quickDiscarded \subseteq 1..draftCount' /\ quickCrossed \subseteq 1..draftCount' /\ old \subseteq 1..draftCount'
          /\ draftCount + 1 \in 1..draftCount'
      BY <1>1, <1>4, <1>5 DEF QuickInv, QuickShapes
    <3> HIDE DEF old
    <3>2. QED
      BY <1>2, <3>1
  <2>3. \A k \in QuickKeys : quickPayload'[k].draft <= draftCount' /\ quickPayload'[k].category \in {"none", quickPayload'[k].kind}
    <3>1. \A k \in QuickKeys : quickPayload[k].draft \in Nat
      BY <1>4 DEF QuickInv, QuickShapes, QuickForms
    <3>2. QED
      BY <1>1, <1>3, <1>4, <3>1 DEF QuickInv, QuickShapes
  <2>4. QED
    BY <1>3, <2>1, <2>2, <2>3 DEF QuickInv, QuickShapes
<1>8. \A d : d # 0 /\ DraftSafe(d) => DraftSafe(d)'
  <2>1. SUFFICES ASSUME NEW d, d # 0, DraftSafe(d) PROVE DraftSafe(d)'
    OBVIOUS
  <2>2. d \in old => d \in quickDiscarded' \cup quickCrossed'
    BY <1>2
  <2>3. d \in quickDiscarded \cup quickCrossed => d \in quickDiscarded' \cup quickCrossed'
    BY <1>2
  <2>4. (\E m \in Modes : drafts[m] = d) => (\E m \in Modes : drafts'[m] = d) \/ d \in old
    BY <1>6, <2>1
  <2>5. QED
    BY <1>3, <2>1, <2>2, <2>3, <2>4 DEF DraftSafe
<1>9. QuickKeysInPhase' /\ OneKeyPerDraft'
  BY <1>3 DEF QuickInv, QuickKeysInPhase, OneKeyPerDraft, QuickSending
<1>10. DraftsKept'
  <2>1. ASSUME NEW d \in 1..draftCount'
        PROVE  DraftSafe(d)' \/ \E k \in QuickKeys : quickPayload'[k].draft = d /\ (QuickSending(k)' \/ quickToast'[k] = "retry")
    <3>1. CASE d = draftCount + 1
      BY <1>4, <1>6, <3>1 DEF DraftSafe
    <3>2. CASE d # draftCount + 1
      <4>1. d \in 1..draftCount /\ d # 0
        BY <1>1, <1>4, <3>2
      <4>2. QED
        BY <1>3, <1>8, <4>1 DEF QuickInv, DraftsKept, QuickSending
    <3>3. QED
      BY <3>1, <3>2
  <2>2. ASSUME NEW k \in QuickKeys, QuickSending(k)', ~quickSends'[k].retry PROVE DraftSafe(quickPayload[k].draft)'
    <3>1. QuickSending(k) /\ ~quickSends[k].retry /\ quickPayload[k].draft # 0
      BY <1>3, <2>2 DEF QuickSending, QuickInv, QuickKeysInPhase
    <3>2. DraftSafe(quickPayload[k].draft)
      BY <3>1 DEF QuickInv, DraftsKept
    <3>3. QED
      BY <1>3, <1>8, <3>1, <3>2 DEF DraftSafe
  <2>3. QED
    BY <2>1, <2>2 DEF DraftsKept
<1>11. QED
  BY <1>7, <1>9, <1>10 DEF QuickInv

LEMMA FormChangesKeep ==
  ASSUME QuickInv, OnModeChange \/ OnKindChange \/ PickCategory \/ ToggleRefund PROVE QuickInv'
<1>1. UNCHANGED <<drafts, quickSaving, quickSends, quickPayload, quickToast, quickUndos, quickRows, draftCount,
                  quickDiscarded, quickCrossed, quickResent>>
  BY DEF OnModeChange, OnKindChange, PickCategory, ToggleRefund, quickGhosts
<1>2. quickMode' \in Modes /\ quickKind' \in Kinds /\ pickedCategory' \in {"none", quickKind'} /\ isRefund' \in BOOLEAN
  BY DEF OnModeChange, OnKindChange, PickCategory, ToggleRefund, QuickInv, QuickShapes
<1>3. QuickShapes'
  BY <1>1, <1>2 DEF QuickInv, QuickShapes
<1>4. QuickKeysInPhase' /\ DraftsKept' /\ OneKeyPerDraft'
  BY <1>1 DEF QuickInv, QuickKeysInPhase, DraftsKept, OneKeyPerDraft, QuickSending, DraftSafe
<1>5. QED
  BY <1>3, <1>4 DEF QuickInv

\* What the form submits.
LEMMA EffectiveShape ==
  ASSUME QuickShapes
  PROVE  /\ Effective \in QuickForms /\ Effective.draft = drafts[quickMode] /\ Effective.draft <= draftCount
         /\ Effective.category \in {"none", Effective.kind}
<1>1. drafts[quickMode] \in 0..draftCount /\ draftCount \in 0..MaxDrafts /\ MaxDrafts \in Nat
  BY QuickAssumption DEF QuickShapes
<1>2. drafts[quickMode] \in 0..MaxDrafts /\ drafts[quickMode] <= draftCount
  BY <1>1
<1> DEFINE c == IF quickMode = "freeform" /\ pickedCategory = "none" THEN Parsed ELSE pickedCategory
<1>3. c \in {"none", quickKind} /\ c \in QuickCategories
  BY DEF Parsed, QuickShapes, QuickCategories
<1>4. Effective = [draft |-> drafts[quickMode], refund |-> isRefund, kind |-> quickKind, category |-> c]
  BY DEF Effective
<1> HIDE DEF c
<1>5. QED
  BY <1>2, <1>3, <1>4 DEF QuickForms, QuickShapes

LEMMA QuickSubmitKeeps == ASSUME QuickInv, QuickSubmit PROVE QuickInv'
<1>1. PICK k \in QuickKeys :
         /\ quickPayload[k] = NoPayload /\ quickPayload' = [quickPayload EXCEPT ![k] = Effective]
         /\ quickSends' = [quickSends EXCEPT ![k] = [phase |-> "asked", retry |-> FALSE]]
  BY DEF QuickSubmit
<1> DEFINE E == Effective
           h == [phase |-> "asked", retry |-> FALSE]
<1>2. /\ E.draft # 0 /\ ~quickSaving /\ quickSaving' = TRUE
      /\ quickResent' = IF \E j \in QuickKeys : quickPayload[j].draft = E.draft
                                                /\ (quickSends[j].phase = "none" \/ quickSends[j].retry)
                        THEN quickResent \cup {E.draft} ELSE quickResent
  BY DEF QuickSubmit, CanSubmit
<1>3. UNCHANGED <<quickMode, quickKind, drafts, pickedCategory, isRefund, quickToast, quickUndos, quickRows, draftCount,
                  quickDiscarded, quickCrossed>>
  BY DEF QuickSubmit, quickForm
<1>4. /\ E \in QuickForms /\ E.draft = drafts[quickMode] /\ E.draft <= draftCount
      /\ E.category \in {"none", E.kind}
  BY EffectiveShape DEF QuickInv
<1>5. h \in QuickSendings /\ h.phase = "asked" /\ ~h.retry
  BY DEF QuickSendings
<1> HIDE DEF E, h
<1>6. quickPayload' \in [QuickKeys -> QuickForms] /\ quickSends' \in [QuickKeys -> QuickSendings]
      /\ \A j \in QuickKeys : /\ quickPayload'[j] = IF j = k THEN E ELSE quickPayload[j]
                              /\ quickSends'[j] = IF j = k THEN h ELSE quickSends[j]
  BY <1>1, <1>4, <1>5 DEF QuickInv, QuickShapes, E, h
<1>7. quickPayload[k].draft = 0 /\ ~QuickSending(k) /\ quickToast[k] = "none"
  BY <1>1 DEF NoPayload, QuickInv, QuickKeysInPhase
<1>8. E.draft \in 1..draftCount
  BY <1>2, <1>4 DEF QuickForms, QuickInv, QuickShapes
<1>9. QuickShapes'
  <2>1. quickResent' \subseteq 1..draftCount
    BY <1>2, <1>8 DEF QuickInv, QuickShapes
  <2>2. \A j \in QuickKeys : quickPayload'[j].draft <= draftCount /\ quickPayload'[j].category \in {"none", quickPayload'[j].kind}
    BY <1>4, <1>6 DEF QuickInv, QuickShapes
  <2>3. QED
    BY <1>2, <1>3, <1>6, <2>1, <2>2 DEF QuickInv, QuickShapes
<1>10. QuickKeysInPhase'
  BY <1>2, <1>3, <1>5, <1>6 DEF QuickInv, QuickKeysInPhase, QuickSending
<1>11. \A d : d # 0 /\ DraftSafe(d) => DraftSafe(d)'
  BY <1>3, <1>6, <1>7 DEF DraftSafe
<1>12. DraftsKept'
  <2>1. ASSUME NEW j \in QuickKeys, QuickSending(j)', ~quickSends'[j].retry PROVE DraftSafe(quickPayload[j].draft)'
    <3>1. CASE j = k
      <4>1. \E m \in Modes : drafts'[m] = quickPayload'[j].draft
        BY <1>3, <1>4, <1>6, <3>1 DEF QuickInv, QuickShapes
      <4>2. QED
        BY <4>1 DEF DraftSafe
    <3>2. CASE j # k
      <4>1. QuickSending(j) /\ ~quickSends[j].retry /\ quickPayload[j].draft # 0 /\ quickPayload'[j] = quickPayload[j]
        BY <1>6, <2>1, <3>2 DEF QuickSending, QuickInv, QuickKeysInPhase
      <4>2. DraftSafe(quickPayload[j].draft)
        BY <4>1 DEF QuickInv, DraftsKept
      <4>3. QED
        BY <1>11, <4>1, <4>2 DEF DraftSafe
    <3>3. QED
      BY <3>1, <3>2
  <2>2. ASSUME NEW d \in 1..draftCount
        PROVE  DraftSafe(d)' \/ \E j \in QuickKeys : quickPayload'[j].draft = d /\ (QuickSending(j)' \/ quickToast'[j] = "retry")
    <3>1. d # 0
      BY DEF QuickInv, QuickShapes
    <3>2. QED
      BY <1>3, <1>6, <1>7, <1>11, <3>1 DEF QuickInv, DraftsKept, QuickSending
  <2>3. QED
    BY <1>3, <2>1, <2>2 DEF DraftsKept
<1>13. OneKeyPerDraft'
  <2>1. ASSUME NEW j \in QuickKeys, quickPayload[j].draft = E.draft PROVE E.draft \in quickResent'
    <3>1. CASE QuickSending(j) /\ ~quickSends[j].retry
      BY <1>2, <2>1, <3>1 DEF QuickInv, OneKeyPerDraft
    <3>2. CASE ~(QuickSending(j) /\ ~quickSends[j].retry)
      BY <1>2, <2>1, <3>2 DEF QuickSending
    <3>3. QED
      BY <3>1, <3>2
  <2>2. quickResent \subseteq quickResent'
    BY <1>2
  <2>3. QED
    BY <1>2, <1>6, <2>1, <2>2 DEF QuickInv, OneKeyPerDraft
<1>14. QED
  BY <1>9, <1>10, <1>12, <1>13 DEF QuickInv

LEMMA ServeQuickSendKeeps == ASSUME QuickInv, ServeQuickSend PROVE QuickInv'
<1>1. PICK k \in QuickKeys, p \in {"ok", "unknown", "refused"}, stored \in BOOLEAN :
         /\ quickSends[k].phase = "asked" /\ quickSends' = [quickSends EXCEPT ![k].phase = p]
         /\ quickRows' = IF stored THEN [quickRows EXCEPT ![k] = IF @ = "none" THEN "live" ELSE @] ELSE quickRows
         /\ (p = "ok" => stored)
  <2>1. PICK k \in QuickKeys :
          /\ quickSends[k].phase = "asked"
          /\ LET stored == [quickRows EXCEPT ![k] = IF @ = "none" THEN "live" ELSE @]
             IN  \/ quickRows' = stored /\ quickSends' = [quickSends EXCEPT ![k].phase = "ok"]
                 \/ quickRows' \in {quickRows, stored} /\ quickSends' = [quickSends EXCEPT ![k].phase = "unknown"]
                 \/ UNCHANGED quickRows /\ quickSends' = [quickSends EXCEPT ![k].phase = "refused"]
    BY DEF ServeQuickSend
  <2> DEFINE row == [quickRows EXCEPT ![k] = IF @ = "none" THEN "live" ELSE @]
  <2>2. \/ quickRows' = row /\ quickSends' = [quickSends EXCEPT ![k].phase = "ok"]
        \/ quickRows' \in {quickRows, row} /\ quickSends' = [quickSends EXCEPT ![k].phase = "unknown"]
        \/ quickRows' = quickRows /\ quickSends' = [quickSends EXCEPT ![k].phase = "refused"]
    BY <2>1
  <2>3. TRUE \in BOOLEAN /\ FALSE \in BOOLEAN
    OBVIOUS
  <2>4. \E p \in {"ok", "unknown", "refused"}, stored \in BOOLEAN :
           /\ quickSends' = [quickSends EXCEPT ![k].phase = p]
           /\ quickRows' = IF stored THEN row ELSE quickRows
           /\ (p = "ok" => stored)
    <3> HIDE DEF row
    <3>1. QED
      BY <2>2, <2>3
  <2>5. QED
    BY <2>1, <2>4
<1>2. UNCHANGED <<quickMode, quickKind, drafts, pickedCategory, isRefund, quickSaving, quickPayload, quickToast,
                  quickUndos, draftCount, quickDiscarded, quickCrossed, quickResent>>
  BY DEF ServeQuickSend, quickForm, quickGhosts
<1> DEFINE h == [quickSends[k] EXCEPT !.phase = p]
<1>3. h \in QuickSendings /\ h.phase = p /\ h.retry = quickSends[k].retry
  BY DEF QuickInv, QuickShapes, QuickSendings
<1>4. quickSends' = [quickSends EXCEPT ![k] = h]
  BY <1>1
<1> HIDE DEF h
<1>5. quickSends' \in [QuickKeys -> QuickSendings] /\ \A j \in QuickKeys : quickSends'[j] = IF j = k THEN h ELSE quickSends[j]
  BY <1>3, <1>4 DEF QuickInv, QuickShapes
<1>6. quickRows' \in [QuickKeys -> {"none", "live", "undone"}]
      /\ \A j \in QuickKeys : (quickRows[j] # "none" => quickRows'[j] # "none") /\ (j = k /\ stored => quickRows'[j] # "none")
  BY <1>1 DEF QuickInv, QuickShapes
<1>7. \A j \in QuickKeys : (QuickSending(j)' <=> QuickSending(j)) /\ quickSends'[j].retry = quickSends[j].retry
  BY <1>1, <1>3, <1>5 DEF QuickSending
<1>8. QuickShapes'
  BY <1>2, <1>5, <1>6 DEF QuickInv, QuickShapes
<1>9. QuickKeysInPhase'
  BY <1>1, <1>2, <1>3, <1>5, <1>6, <1>7 DEF QuickInv, QuickKeysInPhase
<1>10. \A d : DraftSafe(d) => DraftSafe(d)'
  BY <1>2, <1>6 DEF DraftSafe
<1>11. DraftsKept'
  <2>1. \A j \in QuickKeys : QuickSending(j)' /\ ~quickSends'[j].retry => DraftSafe(quickPayload[j].draft)'
    BY <1>2, <1>7, <1>10 DEF QuickInv, DraftsKept, DraftSafe
  <2>2. QED
    BY <1>2, <1>7, <1>10, <2>1 DEF QuickInv, DraftsKept
<1>12. OneKeyPerDraft'
  BY <1>2, <1>7 DEF QuickInv, OneKeyPerDraft
<1>13. QED
  BY <1>8, <1>9, <1>11, <1>12 DEF QuickInv

\* What the end of a send leaves.
LEMMA QuickAnsweredLeaves ==
  ASSUME QuickInv, NEW k \in QuickKeys, QuickSending(k), QuickAnswered(k)
  PROVE  /\ quickSends' \in [QuickKeys -> QuickSendings] /\ quickSends'[k].phase = "none" /\ quickSaving' = FALSE
         /\ \A j \in QuickKeys : /\ j # k => quickSends'[j] = quickSends[j]
                                 /\ QuickSending(j)' <=> j # k /\ QuickSending(j)
                                 /\ j # k /\ QuickSending(j) => quickPayload[j].draft \in quickResent'
         /\ quickResent \subseteq quickResent' /\ quickResent' \subseteq 1..draftCount
         /\ quickPayload[k].draft \in 1..draftCount
<1>1. NoQuickSend \in QuickSendings /\ NoQuickSend.phase = "none"
  BY DEF NoQuickSend, QuickSendings
<1>2. /\ quickSends' = [quickSends EXCEPT ![k] = NoQuickSend] /\ quickSaving' = FALSE
      /\ quickResent' = quickResent \cup {quickPayload[j].draft : j \in SendsUnderWay \ {k}}
  BY DEF QuickAnswered
<1>3. quickSends' \in [QuickKeys -> QuickSendings]
      /\ \A j \in QuickKeys : quickSends'[j] = IF j = k THEN NoQuickSend ELSE quickSends[j]
  BY <1>1, <1>2 DEF QuickInv, QuickShapes
<1>4. \A j \in QuickKeys : QuickSending(j) => quickPayload[j].draft \in 1..draftCount
  <2>1. \A j \in QuickKeys : QuickSending(j) => quickPayload[j].draft # 0
    BY DEF QuickInv, QuickKeysInPhase
  <2>2. \A j \in QuickKeys : quickPayload[j].draft \in Nat /\ quickPayload[j].draft <= draftCount /\ draftCount \in Nat
    BY QuickAssumption DEF QuickInv, QuickShapes, QuickForms
  <2>3. QED
    BY <2>1, <2>2
<1>5. quickResent' \subseteq 1..draftCount
  BY <1>2, <1>4 DEF QuickSending, SendsUnderWay, QuickInv, QuickShapes
<1>6. QED
  BY <1>1, <1>2, <1>3, <1>4, <1>5 DEF QuickSending, SendsUnderWay

LEMMA QuickSavedKeeps == ASSUME QuickInv, QuickSaved PROVE QuickInv'
<1>1. PICK k \in QuickKeys :
         /\ quickSends[k].phase = "ok" /\ QuickAnswered(k)
         /\ quickToast' = [quickToast EXCEPT ![k] = "saved"]
         /\ IF QuickKeepsForm(k) THEN UNCHANGED <<drafts, pickedCategory, isRefund, quickCrossed>>
            ELSE /\ drafts' = [m \in Modes |-> 0] /\ pickedCategory' = "none" /\ isRefund' = FALSE
                 /\ quickCrossed' = quickCrossed \cup
                       ({drafts[m] : m \in IF quickSends[k].retry THEN Modes \ {quickMode} ELSE Modes}
                          \ {0, quickPayload[k].draft})
  BY DEF QuickSaved
<1>2. UNCHANGED <<quickMode, quickKind, quickPayload, quickUndos, quickRows, draftCount, quickDiscarded>>
  BY DEF QuickSaved
<1>3. QuickSending(k) /\ quickRows[k] # "none"
  BY <1>1 DEF QuickSending, QuickInv, QuickKeysInPhase
<1>4. /\ quickSends' \in [QuickKeys -> QuickSendings] /\ quickSends'[k].phase = "none" /\ quickSaving' = FALSE
      /\ \A j \in QuickKeys : /\ j # k => quickSends'[j] = quickSends[j]
                              /\ QuickSending(j)' <=> j # k /\ QuickSending(j)
                              /\ j # k /\ QuickSending(j) => quickPayload[j].draft \in quickResent'
      /\ quickResent \subseteq quickResent' /\ quickResent' \subseteq 1..draftCount
      /\ quickPayload[k].draft \in 1..draftCount
  BY <1>1, <1>3, QuickAnsweredLeaves
<1>5. /\ quickToast' \in [QuickKeys -> {"none", "retry", "refused", "loading", "saved"}]
      /\ \A j \in QuickKeys : quickToast'[j] = IF j = k THEN "saved" ELSE quickToast[j]
  BY <1>1 DEF QuickInv, QuickShapes
<1>6. quickSends[k].retry /\ ~QuickKeepsForm(k) => drafts[quickMode] = quickPayload[k].draft
  BY EffectiveShape DEF QuickKeepsForm, QuickInv
<1>7. QuickShapes'
  <2>1. 0 \in 0..draftCount /\ \A m \in Modes : drafts[m] \in 0..draftCount
    BY DEF QuickInv, QuickShapes
  <2>2. drafts' \in [Modes -> 0..draftCount] /\ quickCrossed' \subseteq 1..draftCount
    <3>1. CASE QuickKeepsForm(k)
      BY <1>1, <3>1 DEF QuickInv, QuickShapes
    <3>2. CASE ~QuickKeepsForm(k)
      <4>1. ASSUME NEW d \in quickCrossed' PROVE d \in 1..draftCount
        <5>1. d \in quickCrossed \/ (d # 0 /\ \E m \in Modes : d = drafts[m])
          BY <1>1, <3>2, <4>1
        <5>2. d \in quickCrossed => d \in 1..draftCount
          BY DEF QuickInv, QuickShapes
        <5>3. draftCount \in Nat
          <6>1. MaxDrafts \in Nat
            BY QuickAssumption
          <6>2. draftCount \in 0..MaxDrafts
            BY DEF QuickInv, QuickShapes
          <6>3. QED
            BY <6>1, <6>2
        <5>4. QED
          BY <2>1, <5>1, <5>2, <5>3
      <4>2. drafts' \in [Modes -> 0..draftCount]
        BY <1>1, <2>1, <3>2
      <4>3. QED
        BY <4>1, <4>2
    <3>3. QED
      BY <3>1, <3>2
  <2>3. pickedCategory' \in {"none", quickKind'} /\ isRefund' \in BOOLEAN
    BY <1>1, <1>2 DEF QuickInv, QuickShapes
  <2>4. QED
    BY <1>2, <1>4, <1>5, <2>2, <2>3 DEF QuickInv, QuickShapes
<1>8. QuickKeysInPhase'
  BY <1>2, <1>4, <1>5 DEF QuickInv, QuickKeysInPhase
<1>9. \A d : d # 0 /\ DraftSafe(d) => DraftSafe(d)'
  <2>1. CASE QuickKeepsForm(k)
    BY <1>1, <1>2, <2>1 DEF DraftSafe
  <2>2. CASE ~QuickKeepsForm(k)
    <3>1. ASSUME NEW m \in Modes, drafts[m] # 0 PROVE drafts[m] \in quickCrossed' \/ drafts[m] = quickPayload[k].draft
      <4>1. CASE quickSends[k].retry /\ m = quickMode
        BY <1>6, <2>2, <4>1
      <4>2. CASE ~(quickSends[k].retry /\ m = quickMode)
        BY <1>1, <2>2, <3>1, <4>2
      <4>3. QED
        BY <4>1, <4>2
    <3>2. quickCrossed \subseteq quickCrossed'
      BY <1>1, <2>2
    <3>3. QED
      BY <1>2, <1>3, <3>1, <3>2 DEF DraftSafe
  <2>3. QED
    BY <2>1, <2>2
<1>10. \A d : d = quickPayload[k].draft => DraftSafe(d)'
  BY <1>2, <1>3 DEF DraftSafe
<1>11. DraftsKept'
  <2>1. ASSUME NEW j \in QuickKeys, QuickSending(j)', ~quickSends'[j].retry PROVE DraftSafe(quickPayload[j].draft)'
    <3>1. QuickSending(j) /\ ~quickSends[j].retry /\ quickPayload[j].draft # 0
      BY <1>4, <2>1 DEF QuickInv, QuickKeysInPhase
    <3>2. DraftSafe(quickPayload[j].draft)
      BY <3>1 DEF QuickInv, DraftsKept
    <3>3. QED
      BY <1>2, <1>9, <3>1, <3>2 DEF DraftSafe
  <2>2. ASSUME NEW d \in 1..draftCount
        PROVE  DraftSafe(d)' \/ \E j \in QuickKeys : quickPayload'[j].draft = d /\ (QuickSending(j)' \/ quickToast'[j] = "retry")
    <3>1. d # 0
      BY DEF QuickInv, QuickShapes
    <3>2. CASE d = quickPayload[k].draft
      BY <1>10, <3>2
    <3>3. CASE d # quickPayload[k].draft
      BY <1>2, <1>4, <1>5, <1>9, <3>1, <3>3 DEF QuickInv, DraftsKept
    <3>4. QED
      BY <3>2, <3>3
  <2>3. QED
    BY <1>2, <2>1, <2>2 DEF DraftsKept
<1>12. OneKeyPerDraft'
  BY <1>2, <1>4 DEF QuickInv, OneKeyPerDraft
<1>13. QED
  BY <1>7, <1>8, <1>11, <1>12 DEF QuickInv

LEMMA QuickFailedKeeps == ASSUME QuickInv, QuickFailed PROVE QuickInv'
<1>1. PICK k \in QuickKeys :
         /\ quickSends[k].phase \in {"unknown", "refused"} /\ QuickAnswered(k)
         /\ quickToast' = [quickToast EXCEPT ![k] = IF quickSends[k].phase = "refused" THEN "refused" ELSE "retry"]
         /\ quickCrossed' = IF quickSends[k].phase = "refused" /\ quickSends[k].retry
                            THEN quickCrossed \cup {quickPayload[k].draft} ELSE quickCrossed
  BY DEF QuickFailed
<1>2. UNCHANGED <<quickMode, quickKind, drafts, pickedCategory, isRefund, quickPayload, quickUndos, quickRows, draftCount,
                  quickDiscarded>>
  BY DEF QuickFailed, quickForm
<1>3. QuickSending(k)
  BY <1>1 DEF QuickSending
<1>4. /\ quickSends' \in [QuickKeys -> QuickSendings] /\ quickSends'[k].phase = "none" /\ quickSaving' = FALSE
      /\ \A j \in QuickKeys : /\ j # k => quickSends'[j] = quickSends[j]
                              /\ QuickSending(j)' <=> j # k /\ QuickSending(j)
                              /\ j # k /\ QuickSending(j) => quickPayload[j].draft \in quickResent'
      /\ quickResent \subseteq quickResent' /\ quickResent' \subseteq 1..draftCount
      /\ quickPayload[k].draft \in 1..draftCount
  BY <1>1, <1>3, QuickAnsweredLeaves
<1>5. /\ quickToast' \in [QuickKeys -> {"none", "retry", "refused", "loading", "saved"}]
      /\ \A j \in QuickKeys : quickToast'[j] = IF j # k THEN quickToast[j]
                                               ELSE IF quickSends[k].phase = "refused" THEN "refused" ELSE "retry"
  BY <1>1 DEF QuickInv, QuickShapes
<1>6. quickCrossed \subseteq quickCrossed' /\ quickCrossed' \subseteq 1..draftCount
  BY <1>1, <1>4 DEF QuickInv, QuickShapes
<1>7. QuickShapes'
  BY <1>2, <1>4, <1>5, <1>6 DEF QuickInv, QuickShapes
<1>8. QuickKeysInPhase'
  <2>1. quickPayload[k].draft # 0
    BY <1>3 DEF QuickInv, QuickKeysInPhase
  <2>2. QED
    BY <1>2, <1>4, <1>5, <2>1 DEF QuickInv, QuickKeysInPhase
<1>9. \A d : DraftSafe(d) => DraftSafe(d)'
  BY <1>2, <1>6 DEF DraftSafe
<1>10. ASSUME NEW d, d = quickPayload[k].draft, quickSends[k].phase = "refused" PROVE DraftSafe(d)'
  <2>1. CASE quickSends[k].retry
    BY <1>1, <1>10, <2>1 DEF DraftSafe
  <2>2. CASE ~quickSends[k].retry
    <3>1. DraftSafe(quickPayload[k].draft)
      BY <1>3, <2>2 DEF QuickInv, DraftsKept
    <3>2. QED
      BY <1>9, <1>10, <3>1
  <2>3. QED
    BY <2>1, <2>2
<1>11. DraftsKept'
  <2>1. ASSUME NEW j \in QuickKeys, QuickSending(j)', ~quickSends'[j].retry PROVE DraftSafe(quickPayload[j].draft)'
    <3>1. QuickSending(j) /\ ~quickSends[j].retry
      BY <1>4, <2>1
    <3>2. DraftSafe(quickPayload[j].draft)
      BY <3>1 DEF QuickInv, DraftsKept
    <3>3. QED
      BY <1>2, <1>9, <3>2 DEF DraftSafe
  <2>2. ASSUME NEW d \in 1..draftCount
        PROVE  DraftSafe(d)' \/ \E j \in QuickKeys : quickPayload'[j].draft = d /\ (QuickSending(j)' \/ quickToast'[j] = "retry")
    <3>1. CASE d = quickPayload[k].draft
      BY <1>2, <1>5, <1>10, <3>1
    <3>2. CASE d # quickPayload[k].draft
      BY <1>2, <1>4, <1>5, <1>9, <3>2 DEF QuickInv, DraftsKept
    <3>3. QED
      BY <3>1, <3>2
  <2>3. QED
    BY <1>2, <2>1, <2>2 DEF DraftsKept
<1>12. OneKeyPerDraft'
  BY <1>2, <1>4 DEF QuickInv, OneKeyPerDraft
<1>13. QED
  BY <1>7, <1>8, <1>11, <1>12 DEF QuickInv

LEMMA QuickRetryKeeps == ASSUME QuickInv, QuickRetry PROVE QuickInv'
<1>1. PICK k \in QuickKeys :
         /\ quickToast[k] = "retry" /\ quickToast' = [quickToast EXCEPT ![k] = "loading"]
         /\ quickSends' = [quickSends EXCEPT ![k] = [phase |-> "asked", retry |-> TRUE]]
  BY DEF QuickRetry
<1>2. UNCHANGED <<quickMode, quickKind, drafts, pickedCategory, isRefund, quickPayload, quickUndos, quickRows, draftCount,
                  quickDiscarded, quickCrossed, quickResent>> /\ quickSaving' = TRUE
  BY DEF QuickRetry, quickForm, quickGhosts
<1> DEFINE h == [phase |-> "asked", retry |-> TRUE]
<1>3. h \in QuickSendings /\ h.phase = "asked" /\ h.retry
  BY DEF QuickSendings
<1> HIDE DEF h
<1>4. /\ quickSends' \in [QuickKeys -> QuickSendings]
      /\ quickToast' \in [QuickKeys -> {"none", "retry", "refused", "loading", "saved"}]
      /\ \A j \in QuickKeys : /\ quickSends'[j] = IF j = k THEN h ELSE quickSends[j]
                              /\ quickToast'[j] = IF j = k THEN "loading" ELSE quickToast[j]
  BY <1>1, <1>3 DEF QuickInv, QuickShapes, h
<1>5. \A j \in QuickKeys : (QuickSending(j)' <=> j = k \/ QuickSending(j))
  BY <1>3, <1>4 DEF QuickSending
<1>6. quickPayload[k].draft # 0
  BY <1>1 DEF QuickInv, QuickKeysInPhase
<1>7. QuickShapes'
  BY <1>2, <1>4 DEF QuickInv, QuickShapes
<1>8. QuickKeysInPhase'
  BY <1>2, <1>3, <1>4, <1>5, <1>6 DEF QuickInv, QuickKeysInPhase
<1>9. \A d : DraftSafe(d)' <=> DraftSafe(d)
  BY <1>2 DEF DraftSafe
<1>10. DraftsKept'
  <2>1. ASSUME NEW j \in QuickKeys, QuickSending(j)', ~quickSends'[j].retry PROVE DraftSafe(quickPayload[j].draft)'
    <3>1. QuickSending(j) /\ ~quickSends[j].retry
      BY <1>3, <1>4, <1>5, <2>1
    <3>2. DraftSafe(quickPayload[j].draft)
      BY <3>1 DEF QuickInv, DraftsKept
    <3>3. QED
      BY <1>2, <3>2 DEF DraftSafe
  <2>2. QED
    BY <1>1, <1>2, <1>4, <1>5, <1>9, <2>1 DEF QuickInv, DraftsKept
<1>11. OneKeyPerDraft'
  BY <1>2 DEF QuickInv, OneKeyPerDraft
<1>12. QED
  BY <1>7, <1>8, <1>10, <1>11 DEF QuickInv

LEMMA QuickToastsKeep == ASSUME QuickInv, DismissQuickToast \/ QuickUndo PROVE QuickInv'
<1>1. PICK k \in QuickKeys :
         /\ quickToast[k] \in {"retry", "refused", "saved"} /\ quickToast' = [quickToast EXCEPT ![k] = "none"]
         /\ quickUndos' \subseteq quickUndos \cup {k}
         /\ \/ /\ quickToast[k] # "saved"
               /\ quickDiscarded' = quickDiscarded \cup ({quickPayload[k].draft} \ {drafts[m] : m \in Modes})
               /\ quickResent' = quickResent \cup {quickPayload[k].draft}
            \/ quickToast[k] = "saved" /\ quickDiscarded' = quickDiscarded /\ quickResent' = quickResent
  <2>1. CASE DismissQuickToast
    BY <2>1 DEF DismissQuickToast
  <2>2. CASE QuickUndo
    BY <2>2 DEF QuickUndo, quickGhosts
  <2>3. QED
    BY <2>1, <2>2
<1>2. UNCHANGED <<quickMode, quickKind, drafts, pickedCategory, isRefund, quickSaving, quickSends, quickPayload,
                  quickRows, draftCount, quickCrossed>>
  BY DEF DismissQuickToast, QuickUndo, quickForm, quickGhosts
<1>3. quickPayload[k].draft \in 1..draftCount
  <2>1. quickPayload[k].draft # 0
    BY <1>1 DEF QuickInv, QuickKeysInPhase
  <2>2. quickPayload[k].draft \in Nat /\ quickPayload[k].draft <= draftCount /\ draftCount \in Nat
    BY QuickAssumption DEF QuickInv, QuickShapes, QuickForms
  <2>3. QED
    BY <2>1, <2>2
<1>4. /\ quickToast' \in [QuickKeys -> {"none", "retry", "refused", "loading", "saved"}]
      /\ \A j \in QuickKeys : quickToast'[j] = IF j = k THEN "none" ELSE quickToast[j]
  BY <1>1 DEF QuickInv, QuickShapes
<1>5. /\ quickDiscarded' \subseteq 1..draftCount /\ quickResent' \subseteq 1..draftCount
      /\ quickDiscarded \subseteq quickDiscarded' /\ quickResent \subseteq quickResent' /\ quickUndos' \subseteq QuickKeys
  BY <1>1, <1>3 DEF QuickInv, QuickShapes
<1>6. QuickShapes'
  BY <1>2, <1>4, <1>5 DEF QuickInv, QuickShapes
<1>7. QuickKeysInPhase'
  BY <1>2, <1>4 DEF QuickInv, QuickKeysInPhase, QuickSending
<1>8. \A d : DraftSafe(d) => DraftSafe(d)'
  BY <1>2, <1>5 DEF DraftSafe
<1>9. quickToast[k] = "retry" => \A d : d = quickPayload[k].draft => DraftSafe(d)'
  <2>1. SUFFICES ASSUME NEW d, d = quickPayload[k].draft, quickToast[k] = "retry"
                 PROVE  d \in quickDiscarded' \/ \E m \in Modes : drafts'[m] = d
    BY DEF DraftSafe
  <2>2. QED
    BY <1>1, <1>2, <2>1
<1>10. DraftsKept'
  <2>1. ASSUME NEW j \in QuickKeys, QuickSending(j)', ~quickSends'[j].retry PROVE DraftSafe(quickPayload[j].draft)'
    <3>1. QuickSending(j) /\ ~quickSends[j].retry
      BY <1>2, <2>1 DEF QuickSending
    <3>2. DraftSafe(quickPayload[j].draft)
      BY <3>1 DEF QuickInv, DraftsKept
    <3>3. QED
      BY <1>2, <1>8, <3>2 DEF DraftSafe
  <2>2. ASSUME NEW d \in 1..draftCount
        PROVE  DraftSafe(d)' \/ \E j \in QuickKeys : quickPayload'[j].draft = d /\ (QuickSending(j)' \/ quickToast'[j] = "retry")
    BY <1>2, <1>4, <1>8, <1>9 DEF QuickInv, DraftsKept, QuickSending
  <2>3. QED
    BY <1>2, <2>1, <2>2 DEF DraftsKept
<1>11. OneKeyPerDraft'
  BY <1>2, <1>5 DEF QuickInv, OneKeyPerDraft, QuickSending
<1>12. QED
  BY <1>6, <1>7, <1>10, <1>11 DEF QuickInv

LEMMA ServeQuickUndoKeeps == ASSUME QuickInv, ServeQuickUndo PROVE QuickInv'
<1>1. PICK k \in quickUndos : /\ quickUndos' = quickUndos \ {k}
                              /\ quickRows' = [quickRows EXCEPT ![k] = "undone"] \/ quickRows' = quickRows
  BY DEF ServeQuickUndo
<1>2. UNCHANGED <<quickMode, quickKind, drafts, pickedCategory, isRefund, quickSaving, quickSends, quickPayload,
                  quickToast, draftCount, quickDiscarded, quickCrossed, quickResent>>
  BY DEF ServeQuickUndo, quickForm, quickGhosts
<1>3. quickRows' \in [QuickKeys -> {"none", "live", "undone"}]
      /\ \A j \in QuickKeys : quickRows[j] # "none" => quickRows'[j] # "none"
  BY <1>1 DEF QuickInv, QuickShapes
<1>4. QuickShapes'
  BY <1>1, <1>2, <1>3 DEF QuickInv, QuickShapes
<1>5. QuickKeysInPhase' /\ OneKeyPerDraft'
  BY <1>2, <1>3 DEF QuickInv, QuickKeysInPhase, OneKeyPerDraft, QuickSending
<1>6. \A d : DraftSafe(d) => DraftSafe(d)'
  BY <1>2, <1>3 DEF DraftSafe
<1>7. DraftsKept'
  <2>1. \A j \in QuickKeys : QuickSending(j)' /\ ~quickSends'[j].retry => DraftSafe(quickPayload[j].draft)'
    BY <1>2, <1>6 DEF QuickInv, DraftsKept, QuickSending, DraftSafe
  <2>2. QED
    BY <1>2, <1>6, <2>1 DEF QuickInv, DraftsKept, QuickSending
<1>8. QED
  BY <1>4, <1>5, <1>7 DEF QuickInv

LEMMA QuickStep == QuickInv /\ [QuickAddNext]_quickVars => QuickInv'
<1>1. ASSUME QuickInv, UNCHANGED quickVars PROVE QuickInv'
  <2>1. QuickShapes'
    BY <1>1 DEF QuickInv, QuickShapes, quickVars
  <2>2. QuickKeysInPhase' /\ DraftsKept' /\ OneKeyPerDraft'
    BY <1>1 DEF QuickInv, QuickKeysInPhase, DraftsKept, OneKeyPerDraft, QuickSending, DraftSafe, quickVars
  <2>3. QED
    BY <2>1, <2>2 DEF QuickInv
<1>2. QED
  BY <1>1, TypeDraftKeeps, FormChangesKeep, QuickSubmitKeeps, ServeQuickSendKeeps, QuickSavedKeeps, QuickFailedKeeps,
     QuickRetryKeeps, QuickToastsKeep, ServeQuickUndoKeeps DEF QuickAddNext

LEMMA QuickInvHolds == QuickInv => QuickAddTypeOK /\ DraftKept /\ OneRowPerDraft /\ CategoryIsOfKind
<1> SUFFICES ASSUME QuickInv PROVE QuickAddTypeOK /\ DraftKept /\ OneRowPerDraft /\ CategoryIsOfKind
  OBVIOUS
<1>1. QuickAddTypeOK
  <2>1. MaxDrafts \in Nat /\ draftCount \in Nat /\ draftCount <= MaxDrafts
    BY QuickAssumption DEF QuickInv, QuickShapes
  <2>2. 0..draftCount \subseteq 0..MaxDrafts /\ 1..draftCount \subseteq 1..MaxDrafts
    BY <2>1
  <2>3. QED
    BY <2>2 DEF QuickInv, QuickShapes, QuickAddTypeOK, QuickCategories
<1>2. DraftKept
  BY DEF QuickInv, DraftsKept, DraftKept, DraftSafe, MadeFrom, QuickSending
<1>3. CategoryIsOfKind
  BY DEF QuickInv, QuickShapes, CategoryIsOfKind
<1>4. ASSUME NEW d \in 1..draftCount, d \notin quickResent
      PROVE  Cardinality({k \in MadeFrom(d) : quickRows[k] = "live"}) <= 1
  <2> DEFINE L == {k \in MadeFrom(d) : quickRows[k] = "live"}
  <2>1. d # 0
    BY DEF QuickInv, QuickShapes
  <2>2. \A j, k \in L : j = k
    BY <1>4, <2>1 DEF MadeFrom, QuickInv, OneKeyPerDraft
  <2> HIDE DEF L
  <2>3. CASE L = {}
    BY <2>3, FS_EmptySet DEF L
  <2>4. CASE L # {}
    <3>1. PICK k : L = {k}
      BY <2>2, <2>4
    <3>2. QED
      BY <3>1, FS_Singleton DEF L
  <2>5. QED
    BY <2>3, <2>4
<1>5. QED
  BY <1>1, <1>2, <1>3, <1>4 DEF OneRowPerDraft

\* What is typed in Quick add is kept, becomes one row, and is filed under a category of its
\* kind, for any number of drafts, keys and failures (QuickAdd.tsx).
THEOREM QuickHolds == QuickSpec => [](QuickAddTypeOK /\ DraftKept /\ OneRowPerDraft /\ CategoryIsOfKind)
BY QuickStarts, QuickStep, QuickInvHolds, PTL DEF QuickSpec

=============================================================================
