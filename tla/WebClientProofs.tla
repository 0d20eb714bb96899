--------------------------- MODULE WebClientProofs ---------------------------
(***************************************************************************)
(* Proofs about the web client: first its sections that show, plan and     *)
(* guard, as WebEntryProofs has those that record, then the client.  What  *)
(* is proved of a section holds of the client: a section moves only by its *)
(* own steps, and stands still while another one is mounted.               *)
(***************************************************************************)
EXTENDS WebClient, WebEntryProofs

(***************************************************************************)
(* The trash (TrashPage): the list asked for last is the one of the page   *)
(* on show, and what it brings is the server's, unless an operation the    *)
(* server carried out has still to be answered.                            *)
(***************************************************************************)
TrashSpec == TrashInit /\ [][TrashNext]_trashVars

OpKinds == {"restore", "batch", "restoreAll", "purge", "purgeAll"}
TrashGets == [page : TrashPages, phase : {"asked", "served"}, rows : SUBSET TrashIds, total : 0..TrashCount,
              kind : {"none"} \cup OpKinds, ids : SUBSET TrashIds]
TrashOps == [kind : OpKinds, ids : SUBSET TrashIds, page : TrashPages, phase : {"sent", "answered"},
             ok : BOOLEAN]

TrashShapes ==
  /\ trash \in [TrashIds -> {"trash", "live", "gone"}]
  /\ trashRows \subseteq TrashIds /\ Cardinality(trashRows) <= TrashPerPage
  /\ trashPage \in TrashPages /\ trashTotal \in 0..TrashCount
  /\ trashSelected \subseteq trashRows /\ pendingPurge \in {-1} \cup 0..TrashCount
  /\ ops \in Seq(TrashOps) /\ gets \in Seq(TrashGets)
  /\ \A i \in 1..Len(gets) : Cardinality(gets[i].rows) <= TrashPerPage

\* Nothing the server carried out is still to be answered.
OpsSettled == \A i \in 1..Len(ops) : ops[i].phase = "answered" => ~ops[i].ok

ShowsTrash(rows, total, p) ==
  rows = TrashOnPage(p) /\ total = Cardinality(Trashed)

TrashIsTold ==
  trashNotes = {} =>
    /\ gets # <<>> => gets[Len(gets)].page = trashPage
    /\ OpsSettled =>
         /\ gets = <<>> => ShowsTrash(trashRows, trashTotal, trashPage) /\ (trashRows = {} => trashTotal = 0)
         /\ gets # <<>> /\ gets[Len(gets)].phase = "served" =>
              ShowsTrash(gets[Len(gets)].rows, gets[Len(gets)].total, trashPage)

TrashInv == TrashShapes /\ TrashIsTold

\* There is a first page, and one before any later page.
LEMMA TrashPagesFirst == 1 \in TrashPages /\ \A p \in TrashPages : p \in Nat /\ p >= 1 /\ (p > 1 => p - 1 \in TrashPages)
<1>1. PICK n \in Nat, p \in Nat : n = TrashCount /\ p = TrashPerPage /\ n # 0 /\ p # 0
  BY TrashAssumption
<1>2. (n + p - 1) \div p \in Int /\ (n + p - 1) \div p >= 1
  BY <1>1
<1>3. QED
  BY <1>1, <1>2 DEF TrashPages

\* What the server answers to a request for a page.
LEMMA TrashAnswerShape ==
  ASSUME trash \in [TrashIds -> {"trash", "live", "gone"}], NEW p \in TrashPages
  PROVE  /\ TrashOnPage(p) \subseteq TrashIds /\ Cardinality(TrashOnPage(p)) <= TrashPerPage
         /\ Cardinality(Trashed) \in 0..TrashCount
<1>1. IsFiniteSet(TrashIds) /\ Cardinality(TrashIds) = TrashCount /\ TrashIds \subseteq Int
  BY FS_Interval, TrashAssumption DEF TrashIds
<1>2. Trashed \in SUBSET TrashIds
  BY DEF Trashed
<1>3. IsFiniteSet(Trashed) /\ Cardinality(Trashed) \in 0..TrashCount
  <2>1. IsFiniteSet(Trashed) /\ Cardinality(Trashed) <= Cardinality(TrashIds)
    BY <1>1, <1>2, FS_Subset
  <2>2. Cardinality(Trashed) \in Nat
    BY <2>1, FS_CardinalityType
  <2>3. QED
    BY <1>1, <2>1, <2>2, TrashAssumption
<1>4. p - 1 \in Int /\ TrashPerPage \in Nat \ {0}
  BY TrashPagesFirst, TrashAssumption
<1>5. TrashOnPage(p) = {t \in Trashed : Cardinality({u \in Trashed : u > t}) \div TrashPerPage = p - 1}
  BY DEF TrashOnPage
<1>6. Cardinality(TrashOnPage(p)) <= TrashPerPage
  BY <1>1, <1>2, <1>3, <1>4, <1>5, PageFits
<1>7. TrashOnPage(p) \subseteq TrashIds
  BY <1>2, <1>5
<1>8. QED
  BY <1>3, <1>6, <1>7

\* The first page of a trash that is not empty has a row, the newest.
LEMMA FirstPageHasRows ==
  ASSUME trash \in [TrashIds -> {"trash", "live", "gone"}], TrashOnPage(1) = {}
  PROVE  Cardinality(Trashed) = 0
<1>1. CASE Trashed = {}
  BY <1>1, FS_EmptySet
<1>2. CASE Trashed # {}
  <2>1. Trashed \in SUBSET (0..TrashCount) /\ TrashCount \in Nat /\ TrashPerPage \in Nat \ {0}
    BY TrashAssumption DEF Trashed, TrashIds
  <2>2. PICK t \in Trashed : \A u \in Trashed : u <= t
    BY <1>2, <2>1, GreatestNatural
  <2>3. {u \in Trashed : u > t} = {}
    <3>1. \A u \in Trashed : u \in Int
      BY <2>1
    <3>2. QED
      BY <2>2, <3>1
  <2>4. Cardinality({u \in Trashed : u > t}) \div TrashPerPage = 1 - 1
    <3>1. Cardinality({u \in Trashed : u > t}) = 0
      BY <2>3, FS_EmptySet
    <3>2. 0 \div TrashPerPage = 0
      BY <2>1
    <3>3. QED
      BY <3>1, <3>2
  <2>5. t \in TrashOnPage(1)
    BY <2>4 DEF TrashOnPage
  <2>6. QED
    BY <2>5
<1>3. QED
  BY <1>1, <1>2

\* A request for a page as it is sent.
LEMMA FetchShape ==
  ASSUME NEW p \in TrashPages, NEW k \in {"none"} \cup OpKinds, NEW s \in SUBSET TrashIds
  PROVE  /\ FetchAfter(p, k, s) \in TrashGets /\ FetchAfter(p, k, s).phase = "asked"
         /\ FetchAfter(p, k, s).page = p /\ Cardinality(FetchAfter(p, k, s).rows) <= TrashPerPage
BY FS_EmptySet, TrashAssumption DEF FetchAfter, TrashGets

\* The list under way when another request is sent.
LEMMA GetSent ==
  ASSUME gets \in Seq(TrashGets), \A i \in 1..Len(gets) : Cardinality(gets[i].rows) <= TrashPerPage,
         NEW p \in TrashPages, NEW k \in {"none"} \cup OpKinds, NEW s \in SUBSET TrashIds,
         gets' = Append(gets, FetchAfter(p, k, s))
  PROVE  /\ gets' \in Seq(TrashGets) /\ gets' # <<>> /\ gets'[Len(gets')].page = p
         /\ gets'[Len(gets')].phase = "asked"
         /\ \A i \in 1..Len(gets') : Cardinality(gets'[i].rows) <= TrashPerPage
<1> DEFINE g == FetchAfter(p, k, s)
<1>1. g \in TrashGets /\ g.phase = "asked" /\ g.page = p /\ Cardinality(g.rows) <= TrashPerPage
  BY FetchShape
<1> HIDE DEF g
<1>2. /\ gets' \in Seq(TrashGets) /\ Len(gets') = Len(gets) + 1 /\ Len(gets) \in Nat
      /\ gets'[Len(gets) + 1] = g /\ \A i \in 1..Len(gets) : gets'[i] = gets[i]
  BY <1>1, AppendProperties DEF g
<1>3. ASSUME NEW i \in 1..Len(gets') PROVE Cardinality(gets'[i].rows) <= TrashPerPage
  <2>1. i = Len(gets) + 1 \/ i \in 1..Len(gets)
    BY <1>2
  <2>2. QED
    BY <1>1, <1>2, <2>1
<1>4. QED
  BY <1>1, <1>2, <1>3

LEMMA TrashStarts == TrashInit => TrashInv
<1> SUFFICES ASSUME TrashInit PROVE TrashInv
  OBVIOUS
<1> DEFINE g == FetchAfter(1, "none", {})
<1>1. g \in TrashGets /\ g.phase = "asked" /\ g.page = 1 /\ Cardinality(g.rows) <= TrashPerPage
  BY FetchShape, TrashPagesFirst
<1>2. gets = <<g>> /\ ops = <<>>
  BY DEF TrashInit, FetchTrash
<1> HIDE DEF g
<1>3. gets \in Seq(TrashGets) /\ Len(gets) = 1 /\ gets[1] = g /\ gets # <<>> /\ ops \in Seq(TrashOps)
  BY <1>1, <1>2
<1>4. TrashShapes
  BY <1>1, <1>3, TrashPagesFirst, TrashAssumption, FS_EmptySet DEF TrashInit, TrashShapes
<1>5. TrashIsTold
  BY <1>1, <1>3 DEF TrashInit, TrashIsTold
<1>6. QED
  BY <1>4, <1>5 DEF TrashInv

LEMMA ServeTrashKeeps == ASSUME TrashInv, ServeTrash PROVE TrashInv'
<1>1. PICK i \in DOMAIN gets :
        /\ gets[i].phase = "asked"
        /\ gets' = [gets EXCEPT ![i] = [@ EXCEPT !.phase = "served",
                       !.rows = TrashOnPage(gets[i].page), !.total = Cardinality(Trashed)]]
  BY DEF ServeTrash
<1>2. UNCHANGED <<trash, trashRows, trashTotal, trashPage, trashSelected, pendingPurge, ops, trashBudget,
                  trashNotes>>
  BY DEF ServeTrash
<1>3. Len(gets) \in Nat /\ i \in 1..Len(gets) /\ gets[i] \in TrashGets /\ gets[i].page \in TrashPages
  <2>1. gets \in Seq(TrashGets)
    BY DEF TrashInv, TrashShapes
  <2>2. Len(gets) \in Nat /\ i \in 1..Len(gets)
    BY <2>1, LenProperties
  <2>3. gets[i] \in TrashGets
    BY <2>1, <2>2, ElementOfSeq
  <2>4. QED
    BY <2>2, <2>3 DEF TrashGets
<1> DEFINE h == [gets[i] EXCEPT !.phase = "served", !.rows = TrashOnPage(gets[i].page),
                                !.total = Cardinality(Trashed)]
<1>4. /\ h \in TrashGets /\ h.phase = "served" /\ h.page = gets[i].page /\ h.total = Cardinality(Trashed)
      /\ h.rows = TrashOnPage(gets[i].page) /\ Cardinality(h.rows) <= TrashPerPage
  BY <1>3, TrashAnswerShape DEF TrashInv, TrashShapes, TrashGets
<1>5. gets' = [gets EXCEPT ![i] = h]
  BY <1>1
<1> HIDE DEF h
<1>6. gets' \in Seq(TrashGets) /\ Len(gets') = Len(gets)
      /\ \A j \in 1..Len(gets) : gets'[j] = IF j = i THEN h ELSE gets[j]
  BY <1>3, <1>4, <1>5, ExceptSeq DEF TrashInv, TrashShapes
<1>7. gets # <<>> /\ gets' # <<>> /\ Len(gets) \in 1..Len(gets)
  BY <1>3, <1>6
<1>8. TrashShapes'
  BY <1>2, <1>4, <1>6 DEF TrashInv, TrashShapes
<1>9. TrashIsTold'
  <2>1. Trashed' = Trashed /\ \A p : TrashOnPage(p)' = TrashOnPage(p)
    BY <1>2 DEF Trashed, TrashOnPage
  <2>2. OpsSettled' = OpsSettled
    BY <1>2 DEF OpsSettled
  <2>3. CASE i = Len(gets)
    BY <1>2, <1>4, <1>6, <1>7, <2>1, <2>2, <2>3 DEF TrashInv, TrashIsTold, ShowsTrash
  <2>4. CASE i # Len(gets)
    BY <1>2, <1>6, <1>7, <2>1, <2>2, <2>4 DEF TrashInv, TrashIsTold, ShowsTrash
  <2>5. QED
    BY <2>3, <2>4
<1>10. QED
  BY <1>8, <1>9 DEF TrashInv

\* The requests under way without the i-th.
LEMMA GetTaken ==
  ASSUME gets \in Seq(TrashGets), \A j \in 1..Len(gets) : Cardinality(gets[j].rows) <= TrashPerPage,
         NEW i \in DOMAIN gets
  PROVE  /\ Without(i, gets) \in Seq(TrashGets) /\ Len(Without(i, gets)) = Len(gets) - 1
         /\ Len(gets) \in Nat /\ i \in 1..Len(gets)
         /\ \A j \in 1..Len(Without(i, gets)) :
               Without(i, gets)[j] = (IF j < i THEN gets[j] ELSE gets[j + 1])
         /\ \A j \in 1..Len(Without(i, gets)) : Cardinality(Without(i, gets)[j].rows) <= TrashPerPage
<1> DEFINE r == Without(i, gets)
<1>1. /\ r \in Seq(TrashGets) /\ Len(r) = Len(gets) - 1 /\ Len(gets) \in Nat /\ i \in 1..Len(gets)
      /\ \A j \in 1..Len(r) : r[j] = IF j < i THEN gets[j] ELSE gets[j + 1]
  BY WithoutOne, LenProperties DEF Without
<1> HIDE DEF r
<1>2. ASSUME NEW j \in 1..Len(r) PROVE Cardinality(r[j].rows) <= TrashPerPage
  <2>1. j \in 1..Len(gets) /\ j + 1 \in 1..Len(gets)
    BY <1>1
  <2>2. QED
    BY <1>1, <2>1
<1>3. QED
  BY <1>1, <1>2 DEF r

LEMMA TrashAnswerKeeps == ASSUME TrashInv, TrashAnswer PROVE TrashInv'
<1>1. PICK i \in DOMAIN gets :
        /\ gets[i].phase = "served"
        /\ trashRows' = gets[i].rows /\ trashTotal' = gets[i].total
        /\ trashSelected' = trashSelected \cap gets[i].rows
        /\ trashPage' = IF StepsBack(gets[i]) THEN trashPage - 1 ELSE trashPage
        /\ gets' = IF StepsBack(gets[i]) THEN Append(Without(i, gets), FetchTrash(trashPage - 1))
                   ELSE Without(i, gets)
        /\ trashNotes' = IF i > 1 THEN trashNotes \cup {"crossed"} ELSE trashNotes
  BY DEF TrashAnswer
<1>2. UNCHANGED <<trash, pendingPurge, ops, trashBudget>>
  BY DEF TrashAnswer
<1> DEFINE g == gets[i]
           r == Without(i, gets)
<1>3. /\ r \in Seq(TrashGets) /\ Len(r) = Len(gets) - 1 /\ Len(gets) \in Nat /\ i \in 1..Len(gets)
      /\ \A j \in 1..Len(r) : r[j] = IF j < i THEN gets[j] ELSE gets[j + 1]
      /\ \A j \in 1..Len(r) : Cardinality(r[j].rows) <= TrashPerPage
  BY GetTaken DEF TrashInv, TrashShapes
<1>4. g \in TrashGets /\ Cardinality(g.rows) <= TrashPerPage
  BY <1>3, ElementOfSeq DEF TrashInv, TrashShapes
<1> HIDE DEF g, r
<1>5. g.rows \subseteq TrashIds /\ g.total \in 0..TrashCount /\ g.page \in TrashPages
  BY <1>4 DEF TrashGets
<1>6. Trashed' = Trashed /\ (\A p : TrashOnPage(p)' = TrashOnPage(p)) /\ OpsSettled' = OpsSettled
  BY <1>2 DEF Trashed, TrashOnPage, OpsSettled
<1>7. CASE StepsBack(g)
  <2>1. trashPage > 1 /\ trashPage - 1 \in TrashPages /\ {} \in SUBSET TrashIds /\ "none" \in {"none"} \cup OpKinds
    BY <1>7, TrashPagesFirst DEF StepsBack, TrashInv, TrashShapes
  <2>2. gets' = Append(r, FetchAfter(trashPage - 1, "none", {})) /\ trashPage' = trashPage - 1
    BY <1>1, <1>7 DEF g, r, FetchTrash
  <2> DEFINE n == FetchAfter(trashPage - 1, "none", {})
  <2>3. n \in TrashGets /\ n.phase = "asked" /\ n.page = trashPage - 1 /\ Cardinality(n.rows) <= TrashPerPage
    BY <2>1, FetchShape
  <2> HIDE DEF n
  <2>4. /\ gets' \in Seq(TrashGets) /\ Len(gets') = Len(r) + 1 /\ Len(r) \in Nat /\ gets' # <<>>
        /\ gets'[Len(r) + 1] = n /\ \A j \in 1..Len(r) : gets'[j] = r[j]
    BY <1>3, <2>2, <2>3, AppendProperties DEF n
  <2>5. ASSUME NEW j \in 1..Len(gets') PROVE Cardinality(gets'[j].rows) <= TrashPerPage
    <3>1. j = Len(r) + 1 \/ j \in 1..Len(r)
      BY <2>4
    <3>2. QED
      BY <1>3, <2>3, <2>4, <3>1
  <2>6. TrashShapes'
    BY <1>1, <1>2, <1>4, <1>5, <2>1, <2>2, <2>4, <2>5 DEF g, TrashInv, TrashShapes
  <2>7. TrashIsTold'
    BY <2>2, <2>3, <2>4 DEF TrashIsTold
  <2>8. QED
    BY <2>6, <2>7 DEF TrashInv
<1>8. CASE ~StepsBack(g)
  <2>1. gets' = r /\ trashPage' = trashPage
    BY <1>1, <1>8 DEF g, r
  <2>2. TrashShapes'
    BY <1>1, <1>2, <1>3, <1>4, <1>5, <2>1 DEF g, TrashInv, TrashShapes
  <2>3. TrashIsTold'
    <3>1. SUFFICES ASSUME trashNotes' = {}
                   PROVE  /\ gets' # <<>> => gets'[Len(gets')].page = trashPage
                          /\ OpsSettled =>
                               /\ gets' = <<>> => ShowsTrash(g.rows, g.total, trashPage) /\ (g.rows = {} => g.total = 0)
                               /\ gets' # <<>> /\ gets'[Len(gets')].phase = "served" =>
                                    ShowsTrash(gets'[Len(gets')].rows, gets'[Len(gets')].total, trashPage)
      BY <1>1, <1>6, <2>1 DEF g, TrashIsTold, ShowsTrash
    <3>2. trashNotes = {} /\ i = 1 /\ gets # <<>>
      <4>1. ~(i > 1)
        BY <1>1, <3>1
      <4>2. trashNotes = {}
        BY <1>1, <3>1, <4>1
      <4>3. i = 1 /\ Len(gets) # 0
        BY <1>3, <4>1
      <4>4. QED
        BY <4>2, <4>3
    <3>3. CASE Len(gets) = 1
      <4>1. gets' = <<>> /\ g = gets[Len(gets)] /\ g.phase = "served" /\ g.page = trashPage
        BY <1>1, <1>3, <2>1, <3>2, <3>3 DEF TrashInv, TrashIsTold, g
      <4>2. g.rows = {} => trashPage = 1
        BY <1>8, <4>1, TrashPagesFirst DEF StepsBack, TrashInv, TrashShapes
      <4>3. OpsSettled => ShowsTrash(g.rows, g.total, trashPage)
        BY <3>2, <4>1 DEF TrashInv, TrashIsTold
      <4>4. OpsSettled /\ g.rows = {} => g.total = 0
        BY <4>2, <4>3, FirstPageHasRows DEF TrashInv, TrashShapes, ShowsTrash
      <4>5. QED
        BY <4>1, <4>3, <4>4
    <3>4. CASE Len(gets) # 1
      <4>1. gets' # <<>> /\ Len(gets') = Len(gets) - 1 /\ Len(gets') \in 1..Len(gets') /\ Len(gets') >= 1
        BY <1>3, <2>1, <3>2, <3>4
      <4>2. gets'[Len(gets')] = gets[Len(gets)]
        BY <1>3, <2>1, <3>2, <4>1
      <4>3. QED
        BY <3>2, <4>1, <4>2 DEF TrashInv, TrashIsTold
    <3>5. QED
      BY <3>3, <3>4
  <2>4. QED
    BY <2>2, <2>3 DEF TrashInv
<1>9. QED
  BY <1>7, <1>8

LEMMA TrashGetFailsKeeps == ASSUME TrashInv, TrashGetFails PROVE TrashInv'
<1>1. PICK i \in DOMAIN gets : gets' = Without(i, gets)
  BY DEF TrashGetFails
<1>2. gets' \in Seq(TrashGets) /\ \A j \in 1..Len(gets') : Cardinality(gets'[j].rows) <= TrashPerPage
  BY <1>1, GetTaken DEF TrashInv, TrashShapes
<1>3. UNCHANGED <<trash, trashRows, trashTotal, trashPage, trashSelected, pendingPurge, ops>>
      /\ trashNotes' # {}
  BY DEF TrashGetFails
<1>4. QED
  BY <1>2, <1>3 DEF TrashInv, TrashShapes, TrashIsTold

LEMMA ChangePageKeeps == ASSUME TrashInv, ChangePage PROVE TrashInv'
<1>1. PICK p \in TrashPages : trashPage' = p /\ gets' = Append(gets, FetchAfter(p, "none", {}))
  BY DEF ChangePage, FetchTrash
<1>2. UNCHANGED <<trash, trashRows, trashTotal, trashSelected, pendingPurge, ops, trashNotes>>
  BY DEF ChangePage
<1>3. /\ gets' \in Seq(TrashGets) /\ gets' # <<>> /\ gets'[Len(gets')].page = p
      /\ gets'[Len(gets')].phase = "asked"
      /\ \A i \in 1..Len(gets') : Cardinality(gets'[i].rows) <= TrashPerPage
  BY <1>1, GetSent DEF TrashInv, TrashShapes
<1>4. QED
  BY <1>1, <1>2, <1>3 DEF TrashInv, TrashShapes, TrashIsTold

\* A step that leaves the list, the trash and what is under way alone.
LEMMA TrashStands ==
  ASSUME TrashInv, UNCHANGED <<trash, trashRows, trashTotal, trashPage, ops, gets, trashNotes>>,
         trashSelected' \subseteq trashRows, pendingPurge' \in {-1} \cup 0..TrashCount
  PROVE  TrashInv'
<1>1. TrashShapes'
  BY DEF TrashInv, TrashShapes
<1>2. TrashIsTold'
  BY DEF TrashInv, TrashIsTold, OpsSettled, ShowsTrash, TrashOnPage, Trashed
<1>3. QED
  BY <1>1, <1>2 DEF TrashInv

LEMMA SelectTrashKeeps == ASSUME TrashInv, SelectTrash PROVE TrashInv'
<1>1. trashSelected' \subseteq trashRows /\ pendingPurge' \in {-1} \cup 0..TrashCount
  BY DEF TrashInv, TrashShapes, SelectTrash
<1>2. QED
  BY <1>1, TrashStands DEF SelectTrash

LEMMA DialogKeeps == ASSUME TrashInv, OpenPurge \/ CancelPurge PROVE TrashInv'
<1>1. pendingPurge' \in {-1} \cup 0..TrashCount
  BY TrashAssumption DEF TrashInv, TrashShapes, OpenPurge, CancelPurge, TrashIds
<1>2. trashSelected' \subseteq trashRows
  BY DEF TrashInv, TrashShapes, OpenPurge, CancelPurge
<1>3. QED
  BY <1>1, <1>2, TrashStands DEF OpenPurge, CancelPurge

\* An operation is sent.
LEMMA OpSent ==
  ASSUME TrashInv, NEW k \in OpKinds, NEW s \in SUBSET TrashIds, SendOp(k, s),
         UNCHANGED <<trash, trashRows, trashTotal, trashPage, trashSelected, pendingPurge, gets, trashNotes>>
  PROVE  TrashInv'
<1> DEFINE op == [kind |-> k, ids |-> s, page |-> trashPage, phase |-> "sent", ok |-> FALSE]
<1>1. op \in TrashOps /\ op.phase = "sent" /\ op.ok = FALSE
  BY DEF TrashInv, TrashShapes, TrashOps
<1>2. ops' = Append(ops, op)
  BY DEF SendOp
<1> HIDE DEF op
<1>3. /\ ops' \in Seq(TrashOps) /\ Len(ops') = Len(ops) + 1 /\ Len(ops) \in Nat
      /\ ops'[Len(ops) + 1] = op /\ \A i \in 1..Len(ops) : ops'[i] = ops[i]
  BY <1>1, <1>2, AppendProperties DEF TrashInv, TrashShapes
<1>4. OpsSettled' => OpsSettled
  <2>1. \A i \in 1..Len(ops) : i \in 1..Len(ops')
    BY <1>3
  <2>2. QED
    BY <1>3, <2>1 DEF OpsSettled
<1>5. TrashShapes'
  BY <1>3 DEF TrashInv, TrashShapes
<1>6. TrashIsTold'
  BY <1>4 DEF TrashInv, TrashIsTold, ShowsTrash, TrashOnPage, Trashed
<1>7. QED
  BY <1>5, <1>6 DEF TrashInv

LEMMA SendersKeep ==
  ASSUME TrashInv, HandleRestore \/ HandleBatchRestore \/ HandleRestoreAll \/ ConfirmPurge
  PROVE  TrashInv'
<1>1. CASE HandleRestore
  <2>1. PICK t \in trashRows : SendOp("restore", {t})
    BY <1>1 DEF HandleRestore
  <2>2. {t} \in SUBSET TrashIds /\ "restore" \in OpKinds
    BY DEF TrashInv, TrashShapes, OpKinds
  <2>3. QED
    BY <1>1, <2>1, <2>2, OpSent DEF HandleRestore
<1>2. CASE HandleBatchRestore
  <2>1. trashSelected \in SUBSET TrashIds /\ "batch" \in OpKinds
    BY DEF TrashInv, TrashShapes, OpKinds
  <2>2. QED
    BY <1>2, <2>1, OpSent DEF HandleBatchRestore
<1>3. CASE HandleRestoreAll
  <2>1. {} \in SUBSET TrashIds /\ "restoreAll" \in OpKinds
    BY DEF OpKinds
  <2>2. QED
    BY <1>3, <2>1, OpSent DEF HandleRestoreAll
<1>4. CASE ConfirmPurge
  <2>1. PICK k \in OpKinds, s \in SUBSET TrashIds : SendOp(k, s)
    <3>1. CASE pendingPurge = -1
      BY <1>4, <3>1 DEF ConfirmPurge, OpKinds
    <3>2. CASE pendingPurge # -1
      <4>1. {pendingPurge} \in SUBSET TrashIds /\ "purge" \in OpKinds
        BY <1>4, <3>2, TrashAssumption DEF ConfirmPurge, TrashInv, TrashShapes, TrashIds, OpKinds
      <4>2. QED
        BY <1>4, <3>2, <4>1 DEF ConfirmPurge
    <3>3. QED
      BY <3>1, <3>2
  <2>2. QED
    BY <1>4, <2>1, OpSent DEF ConfirmPurge
<1>5. QED
  BY <1>1, <1>2, <1>3, <1>4

LEMMA ServeOpKeeps == ASSUME TrashInv, ServeOp PROVE TrashInv'
<1>1. PICK i \in DOMAIN ops, done \in SUBSET TrashIds, ok \in BOOLEAN, to \in {"gone", "live"} :
        /\ trash' = [t \in TrashIds |-> IF t \in done THEN to ELSE trash[t]]
        /\ ops' = [ops EXCEPT ![i].phase = "answered", ![i].ok = ok]
        /\ (~ok => done = {}) /\ ops[i].phase = "sent"
  <2>1. PICK i \in DOMAIN ops :
          LET op == ops[i]
              asked == (IF op.kind \in {"restoreAll", "purgeAll"} THEN TrashIds ELSE op.ids) \cap Trashed
              single == op.kind \in {"restore", "purge"}
              to == IF op.kind \in {"purge", "purgeAll"} THEN "gone" ELSE "live"
              Serve(done, ok) ==
                /\ trash' = [t \in TrashIds |-> IF t \in done THEN to ELSE trash[t]]
                /\ ops' = [ops EXCEPT ![i].phase = "answered", ![i].ok = ok]
          IN  /\ op.phase = "sent"
              /\ \/ Serve(asked, single => asked # {}) \/ Serve({}, FALSE)
                 \/ \E t \in asked : Serve(asked \ {t}, TRUE)
    BY DEF ServeOp
  <2> DEFINE asked == (IF ops[i].kind \in {"restoreAll", "purgeAll"} THEN TrashIds ELSE ops[i].ids) \cap Trashed
             single == ops[i].kind \in {"restore", "purge"}
             to == IF ops[i].kind \in {"purge", "purgeAll"} THEN "gone" ELSE "live"
             Serve(done, ok) ==
                /\ trash' = [t \in TrashIds |-> IF t \in done THEN to ELSE trash[t]]
                /\ ops' = [ops EXCEPT ![i].phase = "answered", ![i].ok = ok]
  <2>2. Serve(asked, single => asked # {}) \/ Serve({}, FALSE) \/ \E t \in asked : Serve(asked \ {t}, TRUE)
    BY <2>1
  <2>3. to \in {"gone", "live"} /\ asked \in SUBSET TrashIds /\ (\A t \in asked : asked \ {t} \in SUBSET TrashIds)
        /\ {} \in SUBSET TrashIds /\ (single => asked # {}) \in BOOLEAN /\ (~(single => asked # {}) => asked = {})
    BY DEF Trashed
  <2>4. \E done \in SUBSET TrashIds, ok \in BOOLEAN : Serve(done, ok) /\ (~ok => done = {})
    <3> HIDE DEF asked, single, to, Serve
    <3>1. CASE Serve(asked, single => asked # {})
      BY <2>3, <3>1
    <3>2. CASE Serve({}, FALSE)
      BY <2>3, <3>2
    <3>3. ASSUME NEW t \in asked, Serve(asked \ {t}, TRUE)
          PROVE  \E done \in SUBSET TrashIds, ok \in BOOLEAN : Serve(done, ok) /\ (~ok => done = {})
      <4>1. asked \ {t} \in SUBSET TrashIds
        BY <2>3
      <4>2. QED
        BY <3>3, <4>1
    <3>4. QED
      BY <2>2, <3>1, <3>2, <3>3
  <2>5. PICK done \in SUBSET TrashIds, ok \in BOOLEAN : Serve(done, ok) /\ (~ok => done = {})
    BY <2>4
  <2>6. ops[i].phase = "sent"
    BY <2>1
  <2>7. QED
    BY <2>3, <2>5, <2>6
<1>2. UNCHANGED <<trashRows, trashTotal, trashPage, trashSelected, pendingPurge, gets, trashNotes>>
  BY DEF ServeOp
<1>3. Len(ops) \in Nat /\ i \in 1..Len(ops) /\ ops[i] \in TrashOps
  BY ElementOfSeq, LenProperties DEF TrashInv, TrashShapes
<1> DEFINE h == [ops[i] EXCEPT !.phase = "answered", !.ok = ok]
<1>4. h \in TrashOps /\ h.phase = "answered" /\ h.ok = ok
  BY <1>3 DEF TrashOps
<1>5. ops' = [ops EXCEPT ![i] = h]
  BY <1>1
<1> HIDE DEF h
<1>6. ops' \in Seq(TrashOps) /\ Len(ops') = Len(ops)
      /\ \A j \in 1..Len(ops) : ops'[j] = IF j = i THEN h ELSE ops[j]
  BY <1>3, <1>4, <1>5, ExceptSeq DEF TrashInv, TrashShapes
<1>7. trash' \in [TrashIds -> {"trash", "live", "gone"}]
  BY <1>1 DEF TrashInv, TrashShapes
<1>8. TrashShapes'
  BY <1>2, <1>6, <1>7 DEF TrashInv, TrashShapes
<1>9. OpsSettled' => OpsSettled /\ trash' = trash
  <2>1. SUFFICES ASSUME OpsSettled' PROVE OpsSettled /\ trash' = trash
    OBVIOUS
  <2>2. ~ok
    BY <1>3, <1>4, <1>6, <2>1 DEF OpsSettled
  <2>3. trash' = trash
    BY <1>1, <2>2 DEF TrashInv, TrashShapes
  <2>4. ASSUME NEW j \in 1..Len(ops), ops[j].phase = "answered" PROVE ~ops[j].ok
    <3>1. CASE j = i
      <4>1. ops[i].phase = "sent"
        BY <1>1
      <4>2. QED
        BY <2>4, <3>1, <4>1
    <3>2. CASE j # i
      BY <1>6, <2>1, <2>4, <3>2 DEF OpsSettled
    <3>3. QED
      BY <3>1, <3>2
  <2>5. QED
    BY <2>3, <2>4 DEF OpsSettled
<1>10. TrashIsTold'
  BY <1>2, <1>9 DEF TrashInv, TrashIsTold, ShowsTrash, TrashOnPage, Trashed
<1>11. QED
  BY <1>8, <1>10 DEF TrashInv

LEMMA OpAnswerKeeps == ASSUME TrashInv, OpAnswer PROVE TrashInv'
<1>1. PICK i \in DOMAIN ops :
        /\ ops' = Without(i, ops)
        /\ IF ops[i].ok
           THEN /\ pendingPurge' \in {0, pendingPurge} /\ trashSelected' \in {trashSelected, {}}
                /\ gets' = Append(gets, FetchAfter(ops[i].page, ops[i].kind, ops[i].ids))
                /\ trashNotes' = IF ops[i].page = trashPage THEN trashNotes
                                 ELSE trashNotes \cup {"otherPage"}
           ELSE /\ trashNotes' = trashNotes \cup {"failed"}
                /\ UNCHANGED <<pendingPurge, trashSelected, gets>>
  <2>1. PICK i \in DOMAIN ops :
          /\ ops' = Without(i, ops)
          /\ IF ops[i].ok
             THEN /\ pendingPurge' = (IF ops[i].kind \in {"purge", "purgeAll"} THEN 0 ELSE pendingPurge)
                  /\ trashSelected' = (IF ops[i].kind \in {"restore", "purge"} THEN trashSelected ELSE {})
                  /\ gets' = Append(gets, FetchAfter(ops[i].page, ops[i].kind, ops[i].ids))
                  /\ trashNotes' = IF ops[i].page = trashPage THEN trashNotes
                                   ELSE trashNotes \cup {"otherPage"}
             ELSE /\ trashNotes' = trashNotes \cup {"failed"}
                  /\ UNCHANGED <<pendingPurge, trashSelected, gets>>
    BY DEF OpAnswer
  <2>2. QED
    BY <2>1
<1>2. UNCHANGED <<trash, trashRows, trashTotal, trashPage, trashBudget>>
  BY DEF OpAnswer
<1>3. ops[i] \in TrashOps /\ ops' \in Seq(TrashOps)
  BY <1>1, WithoutOne, ElementOfSeq, LenProperties DEF TrashInv, TrashShapes, Without
<1>4. CASE ops[i].ok
  <2>1. ops[i].page \in TrashPages /\ ops[i].kind \in {"none"} \cup OpKinds /\ ops[i].ids \in SUBSET TrashIds
    BY <1>3 DEF TrashOps
  <2>2. /\ gets' \in Seq(TrashGets) /\ gets' # <<>> /\ gets'[Len(gets')].page = ops[i].page
        /\ gets'[Len(gets')].phase = "asked"
        /\ \A j \in 1..Len(gets') : Cardinality(gets'[j].rows) <= TrashPerPage
    BY <1>1, <1>4, <2>1, GetSent DEF TrashInv, TrashShapes
  <2>3. TrashShapes'
    BY <1>1, <1>2, <1>3, <1>4, <2>2, TrashAssumption DEF TrashInv, TrashShapes
  <2>4. TrashIsTold'
    BY <1>1, <1>2, <1>4, <2>2 DEF TrashIsTold
  <2>5. QED
    BY <2>3, <2>4 DEF TrashInv
<1>5. CASE ~ops[i].ok
  <2>1. UNCHANGED <<pendingPurge, trashSelected, gets>> /\ trashNotes' # {}
    BY <1>1, <1>5
  <2>2. QED
    BY <1>2, <1>3, <2>1 DEF TrashInv, TrashShapes, TrashIsTold
<1>6. QED
  BY <1>4, <1>5

LEMMA OthersTrashKeeps == ASSUME TrashInv, OthersTrash PROVE TrashInv'
<1>1. trash' \in [TrashIds -> {"trash", "live", "gone"}]
  BY DEF OthersTrash, TrashInv, TrashShapes
<1>2. UNCHANGED <<trashRows, trashTotal, trashPage, trashSelected, pendingPurge, ops, gets>> /\ trashNotes' # {}
  BY DEF OthersTrash
<1>3. QED
  BY <1>1, <1>2 DEF TrashInv, TrashShapes, TrashIsTold

LEMMA TrashStep == TrashInv /\ [TrashNext]_trashVars => TrashInv'
<1>1. ASSUME TrashInv, UNCHANGED trashVars PROVE TrashInv'
  <2>1. trashSelected' \subseteq trashRows /\ pendingPurge' \in {-1} \cup 0..TrashCount
    BY <1>1 DEF TrashInv, TrashShapes, trashVars
  <2>2. QED
    BY <1>1, <2>1, TrashStands DEF trashVars
<1>2. QED
  BY <1>1, ServeTrashKeeps, TrashAnswerKeeps, TrashGetFailsKeeps, ChangePageKeeps, SelectTrashKeeps,
     DialogKeeps, SendersKeep, ServeOpKeeps, OpAnswerKeeps, OthersTrashKeeps DEF TrashNext

LEMMA TrashInvHolds == TrashInv => TrashTypeOK /\ TrashScreenIsTrue /\ TicksAreOnScreen
<1> SUFFICES ASSUME TrashInv PROVE TrashTypeOK /\ TrashScreenIsTrue /\ TicksAreOnScreen
  OBVIOUS
<1>1. TrashTypeOK /\ TicksAreOnScreen
  BY DEF TrashInv, TrashShapes, TrashTypeOK, TicksAreOnScreen
<1>2. TrashScreenIsTrue
  <2>1. ops = <<>> => OpsSettled
    BY DEF OpsSettled
  <2>2. QED
    BY <2>1 DEF TrashInv, TrashIsTold, TrashScreenIsTrue, TrashIdle, ShowsTrash
<1>3. QED
  BY <1>1, <1>2

\* The trash on screen is the server's, and the ticks are on it, for a trash and pages of any
\* size and any number of operations under way at once, with the exceptions TrashScreenIsTrue
\* names (Trash.tsx).
THEOREM TrashHolds == TrashSpec => [](TrashTypeOK /\ TrashScreenIsTrue /\ TicksAreOnScreen)
<1>1. QED
  BY TrashStarts, TrashStep, TrashInvHolds, PTL DEF TrashSpec

(***************************************************************************)
(* The monthly budgets form (BudgetsPage): nothing is loaded while the form *)
(* is saved, and the months that are not left to send are already the       *)
(* server's.                                                                *)
(***************************************************************************)
BudgetSpec == BudgetInit /\ [][BudgetNext]_budgetVars

YearForms == [Months -> Amounts \cup {0}]
BudgetLoads == [kind : {"load", "refresh", "copy"}, year : BudgetYears,
                phase : {"asked", "served", "failed"}, data : YearForms]
Savings == [on : BOOLEAN, puts : SUBSET Months, clears : SUBSET Months, shown : YearForms,
            ok : BOOLEAN, phase : {"none", "sending", "refreshing"}]
BudgetShapes ==
  /\ budgets \in [BudgetYears -> YearForms] /\ year \in BudgetYears
  /\ editAmounts \in FormValues /\ baseline \in FormValues /\ preBulk \subseteq FormValues
  /\ pendingYear \in {0} \cup BudgetYears /\ saving \in Savings /\ loads \in Seq(BudgetLoads)
  /\ elsewhere \subseteq Months
\* The form is locked while it is saved, and while the dialog asks.
BudgetLocks ==
  /\ saving.on <=> saving.phase # "none"
  /\ pendingYear # 0 => ~saving.on
\* What a load was served stands; with only copies under way the baseline is the
\* year the form names, but for the months another device wrote since.
BudgetsLoad ==
  budgetNotes = {} =>
    /\ \A i \in 1..Len(loads) : loads[i].phase = "served" => loads[i].data = budgets[loads[i].year]
    /\ ~saving.on /\ (\A i \in 1..Len(loads) : loads[i].kind = "copy") =>
         \A m \in Months \ elsewhere : baseline[m] = budgets[year][m]
\* Nothing is loaded while the form is saved, and the months that are not left to
\* send are the server's already, but for those.
BudgetsSave ==
  budgetNotes = {} =>
    /\ saving.phase = "sending" => Len(loads) = 0
    /\ saving.phase = "sending" /\ saving.ok =>
         \A m \in Months \ (saving.puts \cup saving.clears \cup elsewhere) : budgets[year][m] = saving.shown[m]
    /\ saving.phase = "refreshing" => Len(loads) = 1 /\ loads[1].kind = "refresh"
    /\ saving.phase = "refreshing" /\ saving.ok =>
         \A m \in Months \ elsewhere : budgets[year][m] = saving.shown[m]
BudgetInv == BudgetShapes /\ BudgetLocks /\ BudgetsLoad /\ BudgetsSave

LEMMA BudgetConstants ==
  /\ NoBudgets \in YearForms /\ YearForms \subseteq FormValues /\ MaxYear \in BudgetYears /\ MinYear \in BudgetYears
  /\ NotSaving \in Savings /\ NotSaving.on = FALSE /\ NotSaving.phase = "none" /\ Months \subseteq Nat
  /\ \A y \in BudgetYears : y > MinYear => y - 1 \in BudgetYears
<1>1. BudgetYears \in SUBSET Nat /\ BudgetYears # {} /\ IsFiniteSet(BudgetYears) /\ MonthCount \in Nat
      /\ \A y, z \in BudgetYears : y..z \subseteq BudgetYears
  BY BudgetAssumption
<1>2. NoBudgets \in YearForms /\ YearForms \subseteq FormValues
  BY DEF NoBudgets, YearForms, FormValues
<1>3. MaxYear \in BudgetYears
  <2>1. \E y \in BudgetYears : \A z \in BudgetYears : y >= z
    BY <1>1, GreatestOfFinite
  <2>2. QED
    BY <2>1 DEF MaxYear
<1>4. MinYear \in BudgetYears
  <2>1. \E y \in BudgetYears : \A z \in BudgetYears : y <= z
    BY <1>1, LeastNatural
  <2>2. QED
    BY <2>1 DEF MinYear
<1>5. NotSaving \in Savings /\ NotSaving.on = FALSE /\ NotSaving.phase = "none"
  BY <1>2 DEF NotSaving, Savings
<1>6. Months \subseteq Nat
  BY <1>1 DEF Months
<1>7. ASSUME NEW y \in BudgetYears, y > MinYear PROVE y - 1 \in BudgetYears
  <2>1. y \in Nat /\ MinYear \in Nat /\ y - 1 \in MinYear..y /\ MinYear..y \subseteq BudgetYears
    BY <1>1, <1>4, <1>7
  <2>2. QED
    BY <2>1
<1>8. QED
  BY <1>2, <1>3, <1>4, <1>5, <1>6, <1>7

LEMMA BudgetTyped == BudgetInv => BudgetTypeOK
BY DEF BudgetInv, BudgetShapes, BudgetTypeOK, YearForms, Savings

LEMMA BudgetSafe == BudgetInv => SavedYearIsWhatWasShown
BY DEF BudgetInv, BudgetsSave, SavedYearIsWhatWasShown

\* A load that is sent.
LEMMA BudgetLoadSent ==
  ASSUME BudgetInv, NEW kind \in {"load", "refresh", "copy"}, NEW y \in BudgetYears,
         loads' = Append(loads, Load(kind, y))
  PROVE  /\ loads' \in Seq(BudgetLoads) /\ Len(loads') = Len(loads) + 1
         /\ Len(loads') \in Nat /\ Len(loads) \in Nat
         /\ loads'[Len(loads')].kind = kind
         /\ \A i \in 1..Len(loads) : i \in 1..Len(loads') /\ loads'[i] = loads[i]
         /\ \A i \in 1..Len(loads') :
               \/ i \in 1..Len(loads) /\ loads'[i] = loads[i]
               \/ loads'[i].phase = "asked"
<1> DEFINE new == Load(kind, y)
<1>1. new \in BudgetLoads /\ new.kind = kind /\ new.phase = "asked"
  BY BudgetConstants DEF Load, BudgetLoads
<1>2. loads \in Seq(BudgetLoads) /\ Len(loads) \in Nat
  BY LenProperties DEF BudgetInv, BudgetShapes
<1> HIDE DEF new
<1>3. loads' = Append(loads, new)
  BY DEF new
<1>4. /\ loads' \in Seq(BudgetLoads) /\ Len(loads') = Len(loads) + 1
      /\ loads'[Len(loads) + 1] = new
      /\ \A k \in 1..Len(loads) : loads'[k] = loads[k]
  BY <1>1, <1>2, <1>3, AppendedAt
<1>5. QED
  BY <1>1, <1>2, <1>4

LEMMA BudgetStarts == BudgetInit => BudgetInv
<1> SUFFICES ASSUME BudgetInit PROVE BudgetInv
  OBVIOUS
<1> DEFINE first == Load("load", MaxYear)
<1>1. first \in BudgetLoads /\ first.kind = "load" /\ first.phase = "asked"
  BY BudgetConstants DEF Load, BudgetLoads
<1> HIDE DEF first
<1>2. loads = <<first>>
  BY DEF BudgetInit, first
<1>3. loads \in Seq(BudgetLoads) /\ Len(loads) = 1 /\ loads[1] = first
  BY <1>1, <1>2
<1>4. budgets \in [BudgetYears -> YearForms]
  <2>1. [m \in Months |-> IF m = 1 THEN 1 ELSE 0] \in YearForms
    BY BudgetAssumption DEF YearForms
  <2>2. QED
    BY <2>1 DEF BudgetInit
<1>5. BudgetShapes
  BY <1>3, <1>4, BudgetConstants DEF BudgetInit, BudgetShapes
<1>6. BudgetLocks /\ BudgetsSave
  BY BudgetConstants DEF BudgetInit, BudgetLocks, BudgetsSave
<1>7. BudgetsLoad
  <2>1. (\A i \in 1..Len(loads) : loads[i].phase # "served") /\ ~(\A i \in 1..Len(loads) : loads[i].kind = "copy")
    BY <1>1, <1>3
  <2>2. QED
    BY <2>1 DEF BudgetsLoad
<1>8. QED
  BY <1>5, <1>6, <1>7 DEF BudgetInv

LEMMA ServeLoadKeeps ==
  ASSUME BudgetInv, ServeLoad
  PROVE  BudgetInv'
<1>1. PICK i \in DOMAIN loads :
        /\ loads[i].phase = "asked"
        /\ \/ loads' = [loads EXCEPT ![i].phase = "served", ![i].data = budgets[loads[i].year]]
           \/ loads' = [loads EXCEPT ![i].phase = "failed"]
  BY ZenonT(40) DEF ServeLoad
<1>2. UNCHANGED <<budgets, year, editAmounts, baseline, preBulk, pendingYear, saving, elsewhere, budgetNotes>>
  BY Zenon DEF ServeLoad
<1>3. loads \in Seq(BudgetLoads) /\ Len(loads) \in Nat /\ i \in 1..Len(loads)
  BY LenProperties DEF BudgetInv, BudgetShapes
<1>4. loads[i] \in BudgetLoads
  BY <1>3, ElementOfSeq
<1>5. budgets[loads[i].year] \in YearForms
  BY <1>4 DEF BudgetInv, BudgetShapes, BudgetLoads
<1>6. PICK h \in BudgetLoads :
        /\ loads' = [loads EXCEPT ![i] = h] /\ h.kind = loads[i].kind
        /\ h.phase = "served" => h.data = budgets[h.year]
  <2> DEFINE good == [loads[i] EXCEPT !.phase = "served", !.data = budgets[loads[i].year]]
             bad == [loads[i] EXCEPT !.phase = "failed"]
  <2>1. good \in BudgetLoads /\ good.kind = loads[i].kind /\ good.data = budgets[good.year]
    BY <1>4, <1>5 DEF BudgetLoads
  <2>2. bad \in BudgetLoads /\ bad.kind = loads[i].kind /\ bad.phase = "failed"
    BY <1>4 DEF BudgetLoads
  <2>3. loads' = [loads EXCEPT ![i] = good] \/ loads' = [loads EXCEPT ![i] = bad]
    BY <1>1
  <2> HIDE DEF good, bad
  <2>4. QED
    BY <2>1, <2>2, <2>3
<1>7. /\ loads' \in Seq(BudgetLoads) /\ Len(loads') = Len(loads)
      /\ \A j \in 1..Len(loads) : loads'[j] = IF j = i THEN h ELSE loads[j]
  BY <1>3, <1>6, ExceptSeq
<1>8. ASSUME NEW j \in 1..Len(loads')
      PROVE  /\ loads'[j].kind = loads[j].kind
             /\ loads'[j].phase = "served" =>
                  \/ loads'[j].data = budgets[loads'[j].year]
                  \/ loads[j].phase = "served" /\ loads'[j] = loads[j]
  <2>1. loads'[j] = IF j = i THEN h ELSE loads[j]
    BY <1>7
  <2>2. CASE j = i
    BY <1>6, <2>1, <2>2
  <2>3. CASE j # i
    BY <2>1, <2>3
  <2>4. QED
    BY <2>2, <2>3
<1>9. BudgetShapes'
  BY <1>2, <1>7 DEF BudgetInv, BudgetShapes
<1>10. BudgetLocks'
  BY <1>2 DEF BudgetInv, BudgetLocks
<1>11. BudgetsLoad'
  BY <1>2, <1>7, <1>8 DEF BudgetInv, BudgetsLoad
<1>12. BudgetsSave'
  <2>1. Len(loads') = 1 => loads'[1].kind = loads[1].kind
    BY <1>7, <1>8
  <2>2. QED
    BY <1>2, <1>7, <2>1 DEF BudgetInv, BudgetsSave
<1>13. QED
  BY <1>9, <1>10, <1>11, <1>12 DEF BudgetInv

\* An answer leaves the others in their order.
LEMMA BudgetAnswerTaken ==
  ASSUME BudgetInv, NEW i \in DOMAIN loads, loads' = But(i, loads)
  PROVE  /\ loads' \in Seq(BudgetLoads) /\ Len(loads') = Len(loads) - 1
         /\ Len(loads) \in Nat /\ i \in 1..Len(loads) /\ loads[i] \in BudgetLoads
         /\ \A j \in 1..Len(loads') : \E k \in 1..Len(loads) : loads'[j] = loads[k]
         /\ \A k \in 1..Len(loads) : k # i => \E j \in 1..Len(loads') : loads'[j] = loads[k]
<1>1. loads \in Seq(BudgetLoads) /\ Len(loads) \in Nat /\ i \in 1..Len(loads)
  BY LenProperties DEF BudgetInv, BudgetShapes
<1>2. loads' \in Seq(BudgetLoads) /\ Len(loads') = Len(loads) - 1
      /\ \A j \in 1..Len(loads') : loads'[j] = IF j < i THEN loads[j] ELSE loads[j + 1]
  BY <1>1, WithoutOne DEF But
<1>3. loads[i] \in BudgetLoads
  BY <1>1, ElementOfSeq
<1>4. ASSUME NEW j \in 1..Len(loads') PROVE \E k \in 1..Len(loads) : loads'[j] = loads[k]
  <2>1. j \in 1..Len(loads) /\ j + 1 \in 1..Len(loads)
    BY <1>1, <1>2
  <2>2. QED
    BY <1>2, <2>1
<1>5. ASSUME NEW k \in 1..Len(loads), k # i PROVE \E j \in 1..Len(loads') : loads'[j] = loads[k]
  <2>1. CASE k < i
    <3>1. k \in 1..Len(loads')
      BY <1>1, <1>2, <2>1
    <3>2. QED
      BY <1>2, <2>1, <3>1
  <2>2. CASE ~(k < i)
    <3>1. k - 1 \in 1..Len(loads') /\ ~(k - 1 < i) /\ k - 1 + 1 = k
      BY <1>1, <1>2, <1>5, <2>2
    <3>2. QED
      BY <1>2, <3>1
  <2>3. QED
    BY <2>1, <2>2
<1>6. QED
  BY <1>1, <1>2, <1>3, <1>4, <1>5

LEMMA LoadAnswerKeeps ==
  ASSUME BudgetInv, LoadAnswer
  PROVE  BudgetInv'
<1> DEFINE turned(i) == i > 1 \/ loads[i].year # year \/ (loads[i].kind = "load" /\ dirtyMonths # {})
<1>1. PICK i \in DOMAIN loads :
        /\ loads[i].kind # "copy" /\ loads[i].phase # "asked"
        /\ loads' = But(i, loads)
        /\ IF loads[i].phase = "failed" /\ loads[i].kind = "refresh"
           THEN UNCHANGED <<editAmounts, baseline, preBulk, elsewhere>>
           ELSE editAmounts' = loads[i].data /\ baseline' = loads[i].data /\ preBulk' = {} /\ elsewhere' = {}
        /\ saving' = IF loads[i].kind = "refresh" THEN NotSaving ELSE saving
        /\ budgetNotes' = (IF turned(i) THEN budgetNotes \cup {"crossed"} ELSE budgetNotes)
                          \cup (IF loads[i].phase = "failed" THEN {"failed"} ELSE {})
  BY DEF LoadAnswer
<1>2. UNCHANGED <<budgets, year, pendingYear>>
  BY DEF LoadAnswer
<1>3. /\ loads' \in Seq(BudgetLoads) /\ Len(loads') = Len(loads) - 1
      /\ Len(loads) \in Nat /\ i \in 1..Len(loads) /\ loads[i] \in BudgetLoads
      /\ \A j \in 1..Len(loads') : \E k \in 1..Len(loads) : loads'[j] = loads[k]
  BY <1>1, BudgetAnswerTaken
<1>4. ASSUME budgetNotes' = {}
      PROVE  budgetNotes = {} /\ i = 1 /\ loads[i].year = year /\ loads[i].phase = "served"
  <2>1. budgetNotes = {} /\ ~turned(i) /\ loads[i].phase # "failed"
    BY <1>1, <1>4
  <2>2. loads[i].phase \in {"asked", "served", "failed"}
    BY <1>3 DEF BudgetLoads
  <2>3. QED
    BY <1>1, <1>3, <2>1, <2>2
<1>5. budgetNotes' = {} => baseline' = budgets[year]
  BY <1>1, <1>3, <1>4 DEF BudgetInv, BudgetsLoad
<1>6. BudgetShapes'
  <2>1. editAmounts' \in FormValues /\ baseline' \in FormValues /\ preBulk' \subseteq FormValues
    <3>1. loads[i].data \in FormValues
      BY <1>3, BudgetConstants DEF BudgetLoads
    <3>2. QED
      BY <1>1, <3>1 DEF BudgetInv, BudgetShapes
  <2>2. saving' \in Savings /\ elsewhere' \subseteq Months
    BY <1>1, BudgetConstants DEF BudgetInv, BudgetShapes
  <2>3. QED
    BY <1>2, <1>3, <2>1, <2>2 DEF BudgetInv, BudgetShapes
<1>7. BudgetLocks'
  BY <1>1, <1>2, BudgetConstants DEF BudgetInv, BudgetLocks
<1>8. BudgetsLoad'
  BY <1>2, <1>3, <1>4, <1>5 DEF BudgetInv, BudgetsLoad
<1>9. BudgetsSave'
  <2>1. ASSUME budgetNotes' = {} PROVE saving'.phase = "none"
    <3>1. budgetNotes = {} /\ i = 1
      BY <1>4, <2>1
    <3>2. saving.phase # "sending"
      BY <1>3, <3>1 DEF BudgetInv, BudgetsSave
    <3>3. saving.phase = "refreshing" => loads[1].kind = "refresh"
      BY <3>1 DEF BudgetInv, BudgetsSave
    <3>4. saving.phase \in {"none", "sending", "refreshing"}
      BY DEF BudgetInv, BudgetShapes, Savings
    <3>5. QED
      BY <1>1, <3>1, <3>2, <3>3, <3>4, BudgetConstants
  <2>2. QED
    BY <2>1 DEF BudgetsSave
<1>10. QED
  BY <1>6, <1>7, <1>8, <1>9 DEF BudgetInv

LEMMA CopyAnswerKeeps ==
  ASSUME BudgetInv, CopyAnswer
  PROVE  BudgetInv'
<1>1. PICK i \in DOMAIN loads :
        /\ loads[i].kind = "copy" /\ loads' = But(i, loads)
        /\ IF loads[i].phase = "failed" \/ loads[i].data = NoBudgets
           THEN UNCHANGED <<editAmounts, preBulk>>
           ELSE editAmounts' = loads[i].data /\ Snapshot
        /\ budgetNotes' = IF loads[i].year + 1 = year /\ ~saving.on THEN budgetNotes
                          ELSE budgetNotes \cup {"crossed"}
  BY DEF CopyAnswer
<1>2. UNCHANGED <<budgets, year, baseline, pendingYear, saving, elsewhere>>
  BY DEF CopyAnswer
<1>3. /\ loads' \in Seq(BudgetLoads) /\ Len(loads') = Len(loads) - 1
      /\ Len(loads) \in Nat /\ i \in 1..Len(loads) /\ loads[i] \in BudgetLoads
      /\ \A j \in 1..Len(loads') : \E k \in 1..Len(loads) : loads'[j] = loads[k]
      /\ \A k \in 1..Len(loads) : k # i => \E j \in 1..Len(loads') : loads'[j] = loads[k]
  BY <1>1, BudgetAnswerTaken
<1>4. budgetNotes' = {} => budgetNotes = {} /\ ~saving.on
  BY <1>1
<1>5. (\A j \in 1..Len(loads') : loads'[j].kind = "copy") => \A k \in 1..Len(loads) : loads[k].kind = "copy"
  BY <1>1, <1>3, SMTT(20)
<1>6. BudgetShapes'
  <2>1. loads[i].data \in FormValues
    BY <1>3, BudgetConstants DEF BudgetLoads
  <2>2. editAmounts' \in FormValues /\ preBulk' \subseteq FormValues
    BY <1>1, <2>1 DEF BudgetInv, BudgetShapes, Snapshot
  <2>3. QED
    BY <1>2, <1>3, <2>2 DEF BudgetInv, BudgetShapes
<1>7. BudgetLocks'
  BY <1>2 DEF BudgetInv, BudgetLocks
<1>8. BudgetsLoad'
  BY <1>2, <1>3, <1>4, <1>5 DEF BudgetInv, BudgetsLoad
<1>9. BudgetsSave'
  BY <1>2, <1>4 DEF BudgetInv, BudgetLocks, BudgetsSave
<1>10. QED
  BY <1>6, <1>7, <1>8, <1>9 DEF BudgetInv

\* What only changes the amounts on screen.
LEMMA AmountsOnlyKeep ==
  ASSUME BudgetInv, editAmounts' \in FormValues, preBulk' \subseteq FormValues,
         UNCHANGED <<budgets, year, baseline, pendingYear, saving, loads, elsewhere, budgetNotes>>
  PROVE  BudgetInv'
BY DEF BudgetInv, BudgetShapes, BudgetLocks, BudgetsLoad, BudgetsSave

LEMMA AmountsKeep ==
  ASSUME BudgetInv, EditAmount \/ HandleApplyBulk \/ HandleUndoBulk
  PROVE  BudgetInv'
<1>1. UNCHANGED <<budgets, year, baseline, pendingYear, saving, loads, elsewhere, budgetNotes>>
  BY DEF EditAmount, HandleApplyBulk, HandleUndoBulk
<1>2. editAmounts \in FormValues /\ preBulk \subseteq FormValues
  BY DEF BudgetInv, BudgetShapes
<1>3. CASE EditAmount
  <2>1. PICK m \in Months, v \in Amounts \cup {0, Invalid} : editAmounts' = [editAmounts EXCEPT ![m] = v]
    BY <1>3 DEF EditAmount
  <2>2. editAmounts' \in FormValues /\ preBulk' = preBulk
    BY <1>2, <1>3, <2>1 DEF FormValues, EditAmount
  <2>3. QED
    BY <1>1, <1>2, <2>2, AmountsOnlyKeep
<1>4. CASE HandleApplyBulk
  <2>1. PICK v \in Amounts : editAmounts' = [m \in Months |-> v]
    BY <1>4 DEF HandleApplyBulk
  <2>2. editAmounts' \in FormValues /\ preBulk' \subseteq FormValues
    BY <1>2, <1>4, <2>1 DEF FormValues, HandleApplyBulk, Snapshot
  <2>3. QED
    BY <1>1, <2>2, AmountsOnlyKeep
<1>5. CASE HandleUndoBulk
  <2>1. editAmounts' \in FormValues /\ preBulk' \subseteq FormValues
    BY <1>2, <1>5 DEF HandleUndoBulk
  <2>2. QED
    BY <1>1, <2>1, AmountsOnlyKeep
<1>6. QED
  BY <1>3, <1>4, <1>5

LEMMA HandleCopyFromPrevKeeps ==
  ASSUME BudgetInv, HandleCopyFromPrev
  PROVE  BudgetInv'
<1>1. /\ ~saving.on /\ year > MinYear /\ loads' = Append(loads, Load("copy", year - 1))
      /\ UNCHANGED <<budgets, year, editAmounts, baseline, preBulk, pendingYear, saving, elsewhere, budgetNotes>>
  BY DEF HandleCopyFromPrev, Editable
<1>2. year - 1 \in BudgetYears
  BY <1>1, BudgetConstants DEF BudgetInv, BudgetShapes
<1>3. /\ loads' \in Seq(BudgetLoads) /\ Len(loads) \in Nat
      /\ \A i \in 1..Len(loads) : i \in 1..Len(loads') /\ loads'[i] = loads[i]
      /\ \A i \in 1..Len(loads') :
            \/ i \in 1..Len(loads) /\ loads'[i] = loads[i]
            \/ loads'[i].phase = "asked"
  BY <1>1, <1>2, BudgetLoadSent
<1>4. BudgetShapes' /\ BudgetLocks'
  BY <1>1, <1>3 DEF BudgetInv, BudgetShapes, BudgetLocks
<1>5. BudgetsLoad'
  <2>1. (\A i \in 1..Len(loads') : loads'[i].kind = "copy") => \A i \in 1..Len(loads) : loads[i].kind = "copy"
    BY <1>3
  <2>2. QED
    BY <1>1, <1>3, <2>1 DEF BudgetInv, BudgetsLoad
<1>6. BudgetsSave'
  BY <1>1 DEF BudgetInv, BudgetLocks, BudgetsSave
<1>7. QED
  BY <1>4, <1>5, <1>6 DEF BudgetInv

LEMMA HandleSaveKeeps ==
  ASSUME BudgetInv, HandleSave
  PROVE  BudgetInv'
<1> DEFINE save == [on |-> TRUE, puts |-> Puts, clears |-> Clears, shown |-> editAmounts,
                    ok |-> TRUE, phase |-> "sending"]
<1>1. /\ ~saving.on /\ pendingYear = 0 /\ saving' = save /\ (\A m \in Months : editAmounts[m] # Invalid)
      /\ budgetNotes' = IF loads = <<>> THEN budgetNotes ELSE budgetNotes \cup {"early"}
      /\ UNCHANGED <<budgets, year, editAmounts, baseline, preBulk, pendingYear, loads, elsewhere>>
  BY DEF HandleSave, Editable
<1>2. editAmounts \in YearForms
  BY <1>1 DEF BudgetInv, BudgetShapes, FormValues, YearForms
<1>3. /\ save \in Savings /\ save.on = TRUE /\ save.phase = "sending" /\ save.shown = editAmounts
      /\ save.puts \cup save.clears = Puts \cup Clears
  BY <1>2 DEF Savings, Puts, Clears
<1>4. \A m \in Months \ (Puts \cup Clears) : editAmounts[m] = baseline[m]
  BY <1>2 DEF Puts, Clears, YearForms
<1> HIDE DEF save
<1>5. ASSUME budgetNotes' = {} PROVE  /\ budgetNotes = {} /\ Len(loads) = 0
             /\ \A m \in Months \ elsewhere : baseline[m] = budgets[year][m]
  <2>1. budgetNotes = {} /\ loads = <<>>
    BY <1>1, <1>5
  <2>2. Len(loads) = 0 /\ 1..0 = {}
    BY <2>1
  <2>3. QED
    BY <1>1, <2>1, <2>2 DEF BudgetInv, BudgetsLoad
<1>6. BudgetShapes'
  BY <1>1, <1>3 DEF BudgetInv, BudgetShapes
<1>7. BudgetLocks'
  BY <1>1, <1>3 DEF BudgetLocks
<1>8. BudgetsLoad'
  BY <1>1, <1>3, <1>5 DEF BudgetInv, BudgetsLoad
<1>9. BudgetsSave'
  BY <1>1, <1>3, <1>4, <1>5 DEF BudgetsSave
<1>10. QED
  BY <1>6, <1>7, <1>8, <1>9 DEF BudgetInv

LEMMA SaveMonthKeeps ==
  ASSUME BudgetInv, SaveMonth
  PROVE  BudgetInv'
<1> DEFINE m == NextMonth
           sent == [budgets EXCEPT ![year][m] = saving.shown[m]]
<1>1. /\ saving.phase = "sending" /\ saving.puts \cup saving.clears # {}
      /\ \/ /\ budgets' = sent
            /\ saving' = [saving EXCEPT !.puts = @ \ {m}, !.clears = @ \ {m}]
            /\ elsewhere' = elsewhere \ {m}
         \/ /\ budgets' \in {budgets, sent}
            /\ saving' = [saving EXCEPT !.puts = {}, !.clears = {}, !.ok = FALSE]
            /\ elsewhere' = elsewhere
      /\ UNCHANGED <<year, editAmounts, baseline, preBulk, pendingYear, loads, budgetNotes>>
  BY DEF SaveMonth
<1>2. m \in Months
  <2> DEFINE rest == IF saving.puts # {} THEN saving.puts ELSE saving.clears
  <2>1. rest \in SUBSET Nat /\ rest # {} /\ rest \subseteq Months
    BY <1>1, BudgetConstants DEF BudgetInv, BudgetShapes, Savings
  <2>2. \E x \in rest : \A y \in rest : x <= y
    <3> HIDE DEF rest
    <3>1. QED
      BY <2>1, LeastNatural
  <2>3. m = CHOOSE x \in rest : \A n \in rest : x <= n
    BY DEF NextMonth
  <2>4. QED
    BY <2>1, <2>2, <2>3
<1> HIDE DEF m
<1>3. year \in BudgetYears /\ budgets \in [BudgetYears -> YearForms] /\ saving.shown \in YearForms /\ saving \in Savings
  BY DEF BudgetInv, BudgetShapes, Savings
<1>4. /\ sent \in [BudgetYears -> YearForms]
      /\ \A n \in Months : sent[year][n] = IF n = m THEN saving.shown[m] ELSE budgets[year][n]
  BY <1>2, <1>3 DEF YearForms
<1> HIDE DEF sent
<1>5. /\ saving' \in Savings /\ saving'.phase = "sending" /\ saving'.shown = saving.shown /\ saving'.on = saving.on
      /\ saving'.ok => /\ saving.ok /\ budgets' = sent
                       /\ saving'.puts = saving.puts \ {m} /\ saving'.clears = saving.clears \ {m}
                       /\ elsewhere' = elsewhere \ {m}
  BY <1>1, <1>3, ZenonT(30) DEF Savings
<1>6. BudgetShapes'
  BY <1>1, <1>3, <1>4, <1>5 DEF BudgetInv, BudgetShapes
<1>7. BudgetLocks'
  BY <1>1, <1>5 DEF BudgetInv, BudgetLocks
<1>8. budgetNotes = {} => Len(loads) = 0
  BY <1>1 DEF BudgetInv, BudgetsSave
<1>9. saving.on
  BY <1>1 DEF BudgetInv, BudgetLocks
<1>10. BudgetsLoad'
  <2>1. 1..0 = {}
    OBVIOUS
  <2>2. QED
    BY <1>1, <1>5, <1>8, <1>9, <2>1 DEF BudgetsLoad
<1>11. BudgetsSave'
  <2>1. ASSUME budgetNotes = {}, saving'.ok, NEW n \in Months \ (saving'.puts \cup saving'.clears \cup elsewhere')
        PROVE  budgets'[year][n] = saving'.shown[n]
    <3>1. n = m \/ (n \in Months \ (saving.puts \cup saving.clears \cup elsewhere))
      BY <1>5, <2>1
    <3>2. budgets'[year][n] = IF n = m THEN saving.shown[m] ELSE budgets[year][n]
      BY <1>4, <1>5, <2>1
    <3>3. n # m => budgets[year][n] = saving.shown[n]
      BY <1>1, <1>5, <2>1, <3>1 DEF BudgetInv, BudgetsSave
    <3>4. QED
      BY <1>5, <3>2, <3>3
  <2>2. QED
    BY <1>1, <1>5, <1>8, <2>1 DEF BudgetsSave
<1>12. QED
  BY <1>6, <1>7, <1>10, <1>11 DEF BudgetInv

LEMMA SaveEndsKeeps ==
  ASSUME BudgetInv, SaveEnds
  PROVE  BudgetInv'
<1>1. /\ saving.phase = "sending" /\ saving.puts = {} /\ saving.clears = {}
      /\ saving' = [saving EXCEPT !.phase = "refreshing"]
      /\ loads' = Append(loads, Load("refresh", year))
      /\ UNCHANGED <<budgets, year, editAmounts, baseline, preBulk, pendingYear, elsewhere, budgetNotes>>
  BY DEF SaveEnds
<1>2. year \in BudgetYears
  BY DEF BudgetInv, BudgetShapes
<1>3. /\ loads' \in Seq(BudgetLoads) /\ Len(loads') = Len(loads) + 1
      /\ loads'[Len(loads')].kind = "refresh"
      /\ \A i \in 1..Len(loads') :
            \/ i \in 1..Len(loads) /\ loads'[i] = loads[i]
            \/ loads'[i].phase = "asked"
  BY <1>1, <1>2, BudgetLoadSent
<1>4. saving' \in Savings /\ saving'.phase = "refreshing" /\ saving'.shown = saving.shown
      /\ saving'.ok = saving.ok /\ saving'.on = saving.on
  BY <1>1 DEF BudgetInv, BudgetShapes, Savings
<1>5. saving.on
  BY <1>1 DEF BudgetInv, BudgetLocks
<1>6. budgetNotes = {} => Len(loads) = 0
  BY <1>1 DEF BudgetInv, BudgetsSave
<1>7. budgetNotes = {} /\ saving.ok => \A m \in Months \ elsewhere : budgets[year][m] = saving.shown[m]
  BY <1>1 DEF BudgetInv, BudgetsSave
<1>8. BudgetShapes' /\ BudgetLocks'
  BY <1>1, <1>3, <1>4, <1>5 DEF BudgetInv, BudgetShapes, BudgetLocks
<1>9. BudgetsLoad'
  BY <1>1, <1>3, <1>4, <1>5 DEF BudgetInv, BudgetsLoad
<1>10. BudgetsSave'
  BY <1>1, <1>3, <1>4, <1>6, <1>7 DEF BudgetsSave
<1>11. QED
  BY <1>8, <1>9, <1>10 DEF BudgetInv

\* Another year is loaded, with nothing being saved.
LEMMA SwitchToKeeps ==
  ASSUME BudgetInv, NEW y \in BudgetYears, SwitchTo(y), ~saving.on, budgetNotes \subseteq budgetNotes',
         UNCHANGED <<budgets, editAmounts, baseline, preBulk, saving, elsewhere>>
  PROVE  BudgetInv'
<1>1. year' = y /\ pendingYear' = 0 /\ loads' = Append(loads, Load("load", y))
  BY DEF SwitchTo
<1>2. /\ loads' \in Seq(BudgetLoads) /\ Len(loads') = Len(loads) + 1 /\ Len(loads') \in Nat /\ Len(loads) \in Nat
      /\ loads'[Len(loads')].kind = "load"
      /\ \A i \in 1..Len(loads') :
            \/ i \in 1..Len(loads) /\ loads'[i] = loads[i]
            \/ loads'[i].phase = "asked"
  BY <1>1, BudgetLoadSent
<1>3. Len(loads') \in 1..Len(loads')
  BY <1>2
<1>4. BudgetShapes' /\ BudgetLocks'
  BY <1>1, <1>2 DEF BudgetInv, BudgetShapes, BudgetLocks
<1>5. BudgetsLoad'
  BY <1>1, <1>2, <1>3 DEF BudgetInv, BudgetsLoad
<1>6. BudgetsSave'
  BY DEF BudgetInv, BudgetLocks, BudgetsSave
<1>7. QED
  BY <1>4, <1>5, <1>6 DEF BudgetInv

\* The dialog opens or closes on the year it had.
LEMMA AskOnlyKeeps ==
  ASSUME BudgetInv, pendingYear' \in {0} \cup BudgetYears, ~saving.on,
         UNCHANGED <<budgets, year, editAmounts, baseline, preBulk, saving, loads, elsewhere, budgetNotes>>
  PROVE  BudgetInv'
BY DEF BudgetInv, BudgetShapes, BudgetLocks, BudgetsLoad, BudgetsSave

LEMMA HandleYearSelectKeeps ==
  ASSUME BudgetInv, HandleYearSelect
  PROVE  BudgetInv'
<1>1. PICK y \in BudgetYears \ {year} :
        IF dirtyMonths # {} THEN pendingYear' = y /\ UNCHANGED <<year, loads>> ELSE SwitchTo(y)
  BY DEF HandleYearSelect
<1>2. ~saving.on /\ UNCHANGED <<budgets, editAmounts, baseline, preBulk, saving, elsewhere, budgetNotes>>
  BY DEF HandleYearSelect, Editable
<1>3. CASE dirtyMonths # {}
  BY <1>1, <1>2, <1>3, AskOnlyKeeps
<1>4. CASE dirtyMonths = {}
  BY <1>1, <1>2, <1>4, SwitchToKeeps
<1>5. QED
  BY <1>3, <1>4

LEMMA AnswerDiscardKeeps ==
  ASSUME BudgetInv, AnswerDiscard
  PROVE  BudgetInv'
<1>1. /\ pendingYear # 0
      /\ SwitchTo(pendingYear) \/ (pendingYear' = 0 /\ UNCHANGED <<year, loads>>)
      /\ budgetNotes' = IF year' # year THEN budgetNotes \cup {"discarded"} ELSE budgetNotes
      /\ UNCHANGED <<budgets, editAmounts, baseline, preBulk, saving, elsewhere>>
  BY DEF AnswerDiscard
<1>2. ~saving.on /\ pendingYear \in BudgetYears
  BY <1>1 DEF BudgetInv, BudgetLocks, BudgetShapes
<1>3. CASE SwitchTo(pendingYear)
  BY <1>1, <1>2, <1>3, SwitchToKeeps
<1>4. CASE pendingYear' = 0 /\ UNCHANGED <<year, loads>>
  BY <1>1, <1>2, <1>4, AskOnlyKeeps
<1>5. QED
  BY <1>1, <1>3, <1>4

LEMMA BudgetsElsewhereKeeps ==
  ASSUME BudgetInv, BudgetsElsewhere
  PROVE  BudgetInv'
<1>1. PICK y \in BudgetYears, m \in Months, v \in Amounts \cup {0} :
        /\ budgets' = [budgets EXCEPT ![y][m] = v]
        /\ elsewhere' = IF y = year THEN elsewhere \cup {m} ELSE elsewhere
        /\ budgetNotes' = IF \E i \in DOMAIN loads : loads[i].phase = "served" /\ loads[i].year = y
                          THEN budgetNotes \cup {"outrun"} ELSE budgetNotes
  BY DEF BudgetsElsewhere
<1>2. UNCHANGED <<year, editAmounts, baseline, preBulk, pendingYear, saving, loads>>
  BY DEF BudgetsElsewhere
<1>3. loads \in Seq(BudgetLoads) /\ DOMAIN loads = 1..Len(loads) /\ year \in BudgetYears
      /\ budgets \in [BudgetYears -> YearForms] /\ elsewhere \subseteq Months
  BY LenProperties DEF BudgetInv, BudgetShapes
<1>4. /\ budgets' \in [BudgetYears -> YearForms] /\ \A x \in BudgetYears : x # y => budgets'[x] = budgets[x]
      /\ \A n \in Months : n # m => budgets'[y][n] = budgets[y][n]
  BY <1>1, <1>3 DEF YearForms
<1>5. elsewhere' \subseteq Months
      /\ \A n \in Months \ elsewhere' : n \notin elsewhere /\ budgets'[year][n] = budgets[year][n]
  BY <1>1, <1>3, <1>4
<1>6. ASSUME budgetNotes' = {}
      PROVE  /\ budgetNotes = {}
             /\ \A i \in 1..Len(loads) : loads[i].phase = "served" => budgets'[loads[i].year] = budgets[loads[i].year]
  <2>1. budgetNotes = {} /\ ~\E i \in DOMAIN loads : loads[i].phase = "served" /\ loads[i].year = y
    BY <1>1, <1>6
  <2>2. ASSUME NEW i \in 1..Len(loads)
        PROVE  loads[i].year \in BudgetYears
    <3>1. loads[i] \in BudgetLoads
      BY <1>3, ElementOfSeq
    <3>2. QED
      BY <3>1 DEF BudgetLoads
  <2>3. QED
    BY <1>3, <1>4, <2>1, <2>2
<1>7. BudgetShapes' /\ BudgetLocks'
  BY <1>2, <1>4, <1>5 DEF BudgetInv, BudgetShapes, BudgetLocks
<1>8. BudgetsLoad'
  BY <1>2, <1>5, <1>6 DEF BudgetInv, BudgetsLoad
<1>9. BudgetsSave'
  BY <1>2, <1>5, <1>6 DEF BudgetInv, BudgetsSave
<1>10. QED
  BY <1>7, <1>8, <1>9 DEF BudgetInv

LEMMA BudgetStands ==
  ASSUME BudgetInv, UNCHANGED budgetVars
  PROVE  BudgetInv'
<1>1. UNCHANGED <<budgets, year, baseline, pendingYear, saving, loads, elsewhere, budgetNotes>>
      /\ editAmounts' \in FormValues /\ preBulk' \subseteq FormValues
  BY DEF budgetVars, BudgetInv, BudgetShapes
<1>2. QED
  BY <1>1, AmountsOnlyKeep

LEMMA BudgetSteps ==
  ASSUME BudgetInv, [BudgetNext]_budgetVars
  PROVE  BudgetInv'
BY ServeLoadKeeps, LoadAnswerKeeps, CopyAnswerKeeps, AmountsKeep, HandleCopyFromPrevKeeps, HandleSaveKeeps,
   SaveMonthKeeps, SaveEndsKeeps, HandleYearSelectKeeps, AnswerDiscardKeeps,
   BudgetsElsewhereKeeps, BudgetStands DEF BudgetNext

\* A year that was saved is what the form showed, but for the months another device wrote
\* meanwhile, for any years and months (handleSave in Budgets.tsx).
THEOREM BudgetHolds == BudgetSpec => [](BudgetTypeOK /\ SavedYearIsWhatWasShown)
<1>1. BudgetSpec => []BudgetInv
  BY BudgetStarts, BudgetSteps, PTL DEF BudgetSpec
<1>2. QED
  BY <1>1, BudgetTyped, BudgetSafe, PTL

(***************************************************************************)
(* The guard of the budgets page (BudgetsGuard): the history keeps the     *)
(* shape the guard relies on, one entry of the page under at most one      *)
(* guard, and what is carried out late was asked for where one stands.     *)
(***************************************************************************)
GuardSpec == GuardInit /\ [][GuardNext]_guardVars

HistoryEntries == {"other", "budgets", "guard"}

GuardShapes ==
  /\ entries \in Seq(HistoryEntries) /\ position \in 1..Len(entries)
  /\ traversals \in Seq({-1, -2})
  /\ isDirty \in BOOLEAN /\ pendingHref \in BOOLEAN /\ pendingBack \in BOOLEAN /\ selfNav \in BOOLEAN
  /\ left \in {"no", "asked", "silently", "clean"}

\* The page's own entry is the b-th, a guard lies at most on top of it, and one stands on the
\* guard while there are edits, or while the way off it is still to be carried out.
StandsAt(b) ==
  /\ Len(entries) \in {b, b + 1} /\ position \in {b, b + 1}
  /\ entries[b] = "budgets" /\ (b = 2 => entries[1] = "other")
  /\ Len(entries) = b + 1 => entries[b + 1] = "guard"
  /\ isDirty => position = b + 1
  /\ traversals = <<>> => (isDirty <=> position = b + 1)
  /\ traversals # <<>> => Len(traversals) = 1 /\ (traversals[1] = -1 => isDirty \/ position = b + 1 \/ b = 2)
  /\ pendingBack => isDirty
  /\ traversals # <<>> /\ traversals[1] = -2 => selfNav /\ isDirty
  /\ selfNav => traversals # <<>> /\ traversals[1] = -2

GuardStands ==
  guardNotes = {} => left # "silently" /\ (left = "no" => \E b \in {1, 2} : StandsAt(b))

GuardInv == GuardShapes /\ GuardStands

LEMMA GuardStarts == GuardInit => GuardInv
<1> SUFFICES ASSUME GuardInit PROVE GuardInv
  OBVIOUS
<1>1. GuardShapes
  <2>1. entries \in Seq(HistoryEntries) /\ Len(entries) \in {1, 2}
    BY DEF GuardInit, HistoryEntries
  <2>2. traversals \in Seq({-1, -2})
    BY DEF GuardInit
  <2>3. position \in 1..Len(entries)
    BY <2>1 DEF GuardInit
  <2>4. /\ isDirty \in BOOLEAN /\ pendingHref \in BOOLEAN /\ pendingBack \in BOOLEAN /\ selfNav \in BOOLEAN
        /\ left \in {"no", "asked", "silently", "clean"}
    BY DEF GuardInit
  <2>5. QED
    BY <2>1, <2>2, <2>3, <2>4 DEF GuardShapes
<1>2. CASE entries = <<"other", "budgets">>
  BY <1>1, <1>2 DEF GuardInit, GuardInv, GuardStands, StandsAt
<1>3. CASE entries = <<"budgets">>
  BY <1>1, <1>3 DEF GuardInit, GuardInv, GuardStands, StandsAt
<1>4. QED
  BY <1>2, <1>3 DEF GuardInit

\* What pushing an entry leaves of the history.
LEMMA PushedEntry ==
  ASSUME entries \in Seq(HistoryEntries), NEW at \in 1..Len(entries)
  PROVE  /\ Pushed("guard", at) \in Seq(HistoryEntries) /\ Len(Pushed("guard", at)) = at + 1
         /\ Pushed("guard", at)[at + 1] = "guard"
         /\ \A i \in 1..at : Pushed("guard", at)[i] = entries[i]
<1>1. SubSeq(entries, 1, at) \in Seq(HistoryEntries) /\ Len(SubSeq(entries, 1, at)) = at
      /\ \A i \in 1..at : SubSeq(entries, 1, at)[i] = entries[i]
  BY SubSeqProperties
<1>2. <<"guard">> \in Seq(HistoryEntries)
  BY DEF HistoryEntries
<1> DEFINE s == SubSeq(entries, 1, at)
<1> HIDE DEF s
<1>3. /\ s \o <<"guard">> \in Seq(HistoryEntries) /\ Len(s \o <<"guard">>) = at + 1
      /\ (s \o <<"guard">>)[at + 1] = "guard"
      /\ \A i \in 1..at : (s \o <<"guard">>)[i] = s[i]
  BY <1>1, <1>2 DEF s
<1>4. QED
  BY <1>1, <1>3 DEF Pushed, s

LEMMA BecomeDirtyKeeps == ASSUME GuardInv, BecomeDirty PROVE GuardInv'
<1>1. GuardShapes'
  BY PushedEntry DEF GuardInv, GuardShapes, BecomeDirty, GuardAct
<1>2. GuardStands'
  <2>1. SUFFICES ASSUME guardNotes' = {} PROVE left' # "silently" /\ \E b \in {1, 2} : StandsAt(b)'
    BY DEF GuardStands
  <2>2. guardNotes = {} /\ traversals = <<>> /\ left = "no" /\ ~isDirty
    BY <2>1 DEF BecomeDirty, AtPage
  <2>3. PICK b \in {1, 2} : StandsAt(b)
    BY <2>2 DEF GuardInv, GuardStands
  <2>4. position = b
    BY <2>2, <2>3 DEF StandsAt
  <2>5. StandsAt(b)'
    BY <2>2, <2>3, <2>4, PushedEntry DEF StandsAt, BecomeDirty, GuardInv, GuardShapes
  <2>6. QED
    BY <2>2, <2>5 DEF BecomeDirty
<1>3. QED
  BY <1>1, <1>2 DEF GuardInv

LEMMA BecomeCleanKeeps == ASSUME GuardInv, BecomeClean PROVE GuardInv'
<1>1. GuardShapes'
  <2>1. Append(traversals, -1) \in Seq({-1, -2})
    BY DEF GuardInv, GuardShapes
  <2>2. QED
    BY <2>1 DEF GuardInv, GuardShapes, BecomeClean
<1>2. GuardStands'
  <2>1. SUFFICES ASSUME guardNotes' = {} PROVE left' # "silently" /\ \E b \in {1, 2} : StandsAt(b)'
    BY DEF GuardStands
  <2>2. guardNotes = {} /\ traversals = <<>> /\ ~pendingBack /\ left = "no" /\ isDirty
    BY <2>1 DEF BecomeClean, AtPage
  <2>3. PICK b \in {1, 2} : StandsAt(b)
    BY <2>2 DEF GuardInv, GuardStands
  <2>4. position = b + 1 /\ entries[position] = "guard"
    BY <2>2, <2>3 DEF StandsAt, GuardInv, GuardShapes
  <2>5. traversals' = <<-1>>
    BY <2>2, <2>4 DEF BecomeClean
  <2>6. Len(traversals') = 1 /\ traversals'[1] = -1 /\ traversals' # <<>>
    BY <2>5
  <2>7. StandsAt(b)'
    BY <2>2, <2>3, <2>4, <2>6 DEF StandsAt, BecomeClean
  <2>8. QED
    BY <2>2, <2>7 DEF BecomeClean
<1>3. QED
  BY <1>1, <1>2 DEF GuardInv

LEMMA PressBackKeeps == ASSUME GuardInv, PressBack PROVE GuardInv'
<1>1. GuardShapes'
  <2>1. Append(traversals, -1) \in Seq({-1, -2})
    BY DEF GuardInv, GuardShapes
  <2>2. QED
    BY <2>1 DEF GuardInv, GuardShapes, PressBack
<1>2. GuardStands'
  <2>1. SUFFICES ASSUME guardNotes' = {} PROVE left' # "silently" /\ \E b \in {1, 2} : StandsAt(b)'
    BY DEF GuardStands
  <2>2. guardNotes = {} /\ traversals = <<>> /\ left = "no" /\ position > 1
    BY <2>1 DEF PressBack, AtPage
  <2>3. PICK b \in {1, 2} : StandsAt(b)
    BY <2>2 DEF GuardInv, GuardStands
  <2>4. traversals' = <<-1>>
    BY <2>2 DEF PressBack
  <2>5. Len(traversals') = 1 /\ traversals'[1] = -1 /\ traversals' # <<>>
    BY <2>4
  <2>6. StandsAt(b)'
    BY <2>2, <2>3, <2>5 DEF StandsAt, PressBack
  <2>7. QED
    BY <2>2, <2>6 DEF PressBack
<1>3. QED
  BY <1>1, <1>2 DEF GuardInv

LEMMA PopstateKeeps == ASSUME GuardInv, Popstate PROVE GuardInv'
<1> DEFINE to == position + Head(traversals)
<1>1. /\ Head(traversals) \in {-1, -2} /\ Head(traversals) = traversals[1] /\ to \in Int /\ to < position
      /\ Tail(traversals) \in Seq({-1, -2}) /\ Len(Tail(traversals)) = Len(traversals) - 1
      /\ traversals # <<>>
  BY DEF GuardInv, GuardShapes, Popstate
<1>2. CASE to < 1
  <2>1. GuardShapes'
    BY <1>1, <1>2 DEF GuardInv, GuardShapes, Popstate
  <2>2. guardNotes' # {}
    BY <1>2 DEF Popstate
  <2>3. QED
    BY <2>1, <2>2 DEF GuardInv, GuardStands
<1>3. CASE to >= 1
  <2>1. to \in 1..Len(entries)
    BY <1>1, <1>3 DEF GuardInv, GuardShapes
  <2>2. GuardShapes'
    <3>1. /\ entries' \in Seq(HistoryEntries) /\ position' \in 1..Len(entries')
          /\ pendingBack' \in BOOLEAN /\ selfNav' \in BOOLEAN
      <4>1. CASE isDirty /\ ~selfNav
        <5>1. entries' = Pushed("guard", to) /\ position' = to + 1 /\ pendingBack' = TRUE /\ selfNav' = selfNav
          <6>1. ~(to < 1)
            BY <1>1, <1>3
          <6>2. QED
            BY <4>1, <6>1, Zenon DEF Popstate
        <5>2. Pushed("guard", to) \in Seq(HistoryEntries) /\ Len(Pushed("guard", to)) = to + 1
          BY <2>1, PushedEntry DEF GuardInv, GuardShapes
        <5>3. QED
          BY <1>1, <5>1, <5>2, <2>1 DEF GuardInv, GuardShapes
      <4>2. CASE ~(isDirty /\ ~selfNav)
        BY <1>3, <2>1, <4>2 DEF GuardInv, GuardShapes, Popstate
      <4>3. QED
        BY <4>1, <4>2
    <3>2. left' \in {"no", "asked", "silently", "clean"}
      <4>1. left' = IF entries[to] # "other" THEN "no" ELSE IF ~isDirty THEN "clean"
                    ELSE IF selfNav THEN "asked" ELSE "silently"
        <5>1. ~(to < 1)
          BY <1>1, <1>3
        <5>2. QED
          BY <5>1, Zenon DEF Popstate
      <4>2. QED
        BY <4>1
    <3>3. QED
      BY <1>1, <3>1, <3>2 DEF GuardInv, GuardShapes, Popstate
  <2>3. GuardStands'
    <3>1. SUFFICES ASSUME guardNotes' = {}
                   PROVE  left' # "silently" /\ (left' = "no" => \E b \in {1, 2} : StandsAt(b)')
      BY DEF GuardStands
    <3>2. guardNotes = {} /\ left = "no" /\ isDirty' = isDirty
      BY <3>1, <1>3 DEF Popstate, AtPage
    <3>3. PICK b \in {1, 2} : StandsAt(b)
      BY <3>2 DEF GuardInv, GuardStands
    <3>4. Tail(traversals) = <<>> /\ traversals' = <<>>
      BY <1>1, <3>3 DEF StandsAt, Popstate
    <3>5. CASE isDirty /\ ~selfNav
      <4>1. traversals[1] = -1 /\ position = b + 1 /\ to = b
        BY <1>1, <3>3, <3>5 DEF StandsAt
      <4>2. /\ entries' = Pushed("guard", b) /\ position' = b + 1 /\ pendingBack' = TRUE /\ selfNav' = selfNav
            /\ left' = "no"
        BY <3>5, <4>1, <3>3 DEF Popstate, StandsAt
      <4>3. StandsAt(b)'
        BY <3>2, <3>3, <3>4, <3>5, <4>1, <4>2, <2>1, PushedEntry DEF StandsAt, GuardInv, GuardShapes
      <4>4. QED
        BY <4>2, <4>3
    <3>6. CASE ~(isDirty /\ ~selfNav)
      <4>1. position' = to /\ selfNav' = FALSE /\ entries' = entries /\ pendingBack' = pendingBack
            /\ left' = IF entries[to] # "other" THEN "no" ELSE IF ~isDirty THEN "clean"
                       ELSE IF selfNav THEN "asked" ELSE "silently"
        <5>1. ~(to < 1)
          BY <1>1, <1>3
        <5>2. QED
          BY <3>6, <5>1, Zenon DEF Popstate
      <4>2. CASE isDirty
        <5>1. traversals[1] = -2 /\ position = b + 1 /\ to = b - 1 /\ selfNav
          BY <1>1, <3>3, <3>6, <4>2 DEF StandsAt
        <5>2. b = 2 /\ entries[to] = "other"
          BY <1>3, <3>3, <5>1 DEF StandsAt
        <5>3. QED
          BY <4>1, <4>2, <5>1, <5>2
      <4>3. CASE ~isDirty
        <5>1. traversals[1] = -1 /\ to = position - 1
          BY <1>1, <3>3, <4>3 DEF StandsAt
        <5>2. CASE position = b + 1
          <6>1. entries[to] = "budgets" /\ left' = "no" /\ to = b
            BY <3>3, <4>1, <5>1, <5>2 DEF StandsAt
          <6>2. StandsAt(b)'
            BY <3>2, <3>3, <3>4, <4>1, <4>3, <5>2, <6>1 DEF StandsAt
          <6>3. QED
            BY <6>1, <6>2
        <5>3. CASE position = b
          BY <1>3, <3>3, <4>1, <4>3, <5>1, <5>3 DEF StandsAt
        <5>4. QED
          BY <3>3, <5>2, <5>3 DEF StandsAt
      <4>4. QED
        BY <4>2, <4>3
    <3>7. QED
      BY <3>5, <3>6
  <2>4. QED
    BY <2>2, <2>3 DEF GuardInv
<1>4. QED
  BY <1>1, <1>2, <1>3

LEMMA ClickLinkKeeps == ASSUME GuardInv, ClickLink PROVE GuardInv'
BY DEF GuardInv, GuardShapes, GuardStands, StandsAt, ClickLink, AtPage, GuardAct

LEMMA AnswerLinkKeeps == ASSUME GuardInv, AnswerLink PROVE GuardInv'
BY DEF GuardInv, GuardShapes, GuardStands, StandsAt, AnswerLink, AtPage

LEMMA AnswerBackKeeps == ASSUME GuardInv, AnswerBack PROVE GuardInv'
<1>1. GuardShapes'
  <2>1. Append(traversals, -2) \in Seq({-1, -2})
    BY DEF GuardInv, GuardShapes
  <2>2. QED
    BY <2>1 DEF GuardInv, GuardShapes, AnswerBack
<1>2. GuardStands'
  <2>1. SUFFICES ASSUME guardNotes' = {} PROVE left' # "silently" /\ \E b \in {1, 2} : StandsAt(b)'
    BY DEF GuardStands
  <2>2. guardNotes = {} /\ traversals = <<>> /\ left = "no" /\ pendingBack
    BY <2>1 DEF AnswerBack, AtPage
  <2>3. PICK b \in {1, 2} : StandsAt(b)
    BY <2>2 DEF GuardInv, GuardStands
  <2>4. StandsAt(b)'
    <3>1. CASE UNCHANGED <<traversals, selfNav>>
      BY <2>2, <2>3, <3>1 DEF StandsAt, AnswerBack
    <3>2. CASE selfNav' = TRUE /\ traversals' = Append(traversals, -2)
      <4>1. traversals' = <<-2>>
        BY <2>2, <3>2
      <4>2. Len(traversals') = 1 /\ traversals'[1] = -2 /\ traversals' # <<>>
        BY <4>1
      <4>3. QED
        BY <2>2, <2>3, <3>2, <4>2 DEF StandsAt, AnswerBack
    <3>3. QED
      BY <3>1, <3>2 DEF AnswerBack
  <2>5. QED
    BY <2>2, <2>4 DEF AnswerBack
<1>3. QED
  BY <1>1, <1>2 DEF GuardInv

LEMMA GuardStep == GuardInv /\ [GuardNext]_guardVars => GuardInv'
<1>1. ASSUME GuardInv, UNCHANGED guardVars PROVE GuardInv'
  BY <1>1 DEF GuardInv, GuardShapes, GuardStands, StandsAt, guardVars
<1>2. QED
  BY <1>1, BecomeDirtyKeeps, BecomeCleanKeeps, PressBackKeeps, PopstateKeeps, ClickLinkKeeps, AnswerLinkKeeps,
     AnswerBackKeeps DEF GuardNext

LEMMA GuardInvHolds == GuardInv => GuardTypeOK /\ EditsAreGuarded
<1> SUFFICES ASSUME GuardInv PROVE GuardTypeOK /\ EditsAreGuarded
  OBVIOUS
<1>1. GuardTypeOK
  BY DEF GuardInv, GuardShapes, GuardTypeOK
<1>2. ASSUME guardNotes = {}, left = "no", traversals = <<>> PROVE isDirty <=> entries[position] = "guard"
  <2>1. PICK b \in {1, 2} : StandsAt(b)
    BY <1>2 DEF GuardInv, GuardStands
  <2>2. QED
    BY <1>2, <2>1 DEF StandsAt, GuardInv, GuardShapes
<1>3. QED
  BY <1>1, <1>2 DEF GuardInv, GuardStands, EditsAreGuarded

\* Unsaved budgets are not left without a question, and Back asks exactly while there are
\* some, after any number of edits, saves, answers and Backs (Budgets.tsx).
THEOREM GuardHolds == GuardSpec => [](GuardTypeOK /\ EditsAreGuarded)
<1>1. QED
  BY GuardStarts, GuardStep, GuardInvHolds, PTL DEF GuardSpec

(***************************************************************************)
(* The category limits form (CategoryLimits): as in the budgets form, and a *)
(* month left for another one comes back with what the server holds.        *)
(***************************************************************************)
LimitSpec == LimitInit /\ [][LimitNext]_limitVars

LimitLoadShapes == [kind : {"load", "refresh"}, period : Periods,
                    phase : {"asked", "ok", "failed"}, data : LimitForms]
LimitShapes ==
  /\ categoryLimits \in [Periods -> LimitForms] /\ period \in Periods
  /\ editLimits \in LimitForms /\ limitBaseline \in LimitForms /\ loading \in BOOLEAN
  /\ pendingPeriod \subseteq Periods
  /\ limitSave \in [phase : {"none", "sending", "refreshing"}, puts : SUBSET LimitCategories,
                    deletes : SUBSET LimitCategories, shown : LimitForms, ok : BOOLEAN]
  /\ limitLoads \in Seq(LimitLoadShapes) /\ limitsElsewhere \subseteq LimitCategories
\* No save starts behind the dialog.
LimitsAsk ==
  /\ limitSave.phase = "none" => limitSave = NoSave
  /\ pendingPeriod # {} => limitSave = NoSave
\* The form is hidden while a load is under way, the last of them for the month
\* it names, and what a load was served stands.
LimitsLoad ==
  limitNotes = {} =>
    /\ loading <=> Len(limitLoads) > 0
    /\ Len(limitLoads) > 0 => limitLoads[Len(limitLoads)].period = period
    /\ \A i \in 1..Len(limitLoads) :
          limitLoads[i].phase = "ok" => limitLoads[i].data = categoryLimits[limitLoads[i].period]
    /\ Len(limitLoads) = 0 /\ limitSave.phase = "none" =>
         \A c \in LimitCategories \ limitsElsewhere : limitBaseline[c] = categoryLimits[period][c]
\* While it is saved no load is under way, and what is not left to send is the
\* server's already, unless another device wrote it.
LimitsSave ==
  limitNotes = {} =>
    /\ limitSave.phase = "sending" => Len(limitLoads) = 0
    /\ limitSave.phase = "sending" /\ limitSave.ok =>
         \A c \in LimitCategories \ (limitSave.puts \cup limitSave.deletes \cup limitsElsewhere) :
            categoryLimits[period][c] = limitSave.shown[c]
    /\ limitSave.phase = "refreshing" => Len(limitLoads) = 1 /\ limitLoads[1].kind = "refresh"
    /\ limitSave.phase = "refreshing" /\ limitSave.ok =>
         \A c \in LimitCategories \ limitsElsewhere : categoryLimits[period][c] = limitSave.shown[c]
LimitInv == LimitShapes /\ LimitsAsk /\ LimitsLoad /\ LimitsSave

LEMMA NoLimitsShape == NoLimits \in LimitForms /\ Limits \subseteq Nat /\ Limits # {}
BY LimitAssumption DEF NoLimits, LimitForms

LEMMA NoSaveShape ==
  /\ NoSave \in [phase : {"none", "sending", "refreshing"}, puts : SUBSET LimitCategories,
                 deletes : SUBSET LimitCategories, shown : LimitForms, ok : BOOLEAN]
  /\ NoSave.phase = "none" /\ NoSave.ok = FALSE
BY NoLimitsShape DEF NoSave

LEMMA FirstPeriodShape == FirstPeriod \in Periods
<1>1. LimitYears \in SUBSET Nat /\ LimitYears # {} /\ LimitMonths \in SUBSET Nat /\ LimitMonths # {}
  BY LimitAssumption
<1>2. PICK y \in LimitYears : \A x \in LimitYears : y <= x
  BY <1>1, LeastNatural
<1>3. PICK m \in LimitMonths : \A x \in LimitMonths : m <= x
  BY <1>1, LeastNatural
<1>4. <<y, m>> \in Periods /\ \A q \in Periods : <<y, m>>[1] <= q[1] /\ <<y, m>>[2] <= q[2]
  BY <1>2, <1>3 DEF Periods
<1>5. \E p \in Periods : \A q \in Periods : p[1] <= q[1] /\ p[2] <= q[2]
  BY <1>4
<1>6. QED
  BY <1>5 DEF FirstPeriod

\* The load that a switch, or the end of a save, sends.
LEMMA LimitLoadSent ==
  ASSUME LimitInv, NEW kind \in {"load", "refresh"}, NEW p \in Periods,
         limitLoads' = Append(limitLoads, LimitLoad(kind, p))
  PROVE  /\ limitLoads' \in Seq(LimitLoadShapes) /\ Len(limitLoads') = Len(limitLoads) + 1
         /\ Len(limitLoads') \in Nat /\ Len(limitLoads) \in Nat
         /\ limitLoads'[Len(limitLoads')].period = p /\ limitLoads'[Len(limitLoads')].kind = kind
         /\ \A i \in 1..Len(limitLoads') :
               \/ i \in 1..Len(limitLoads) /\ limitLoads'[i] = limitLoads[i]
               \/ limitLoads'[i].phase = "asked"
<1> DEFINE new == LimitLoad(kind, p)
<1>1. new \in LimitLoadShapes /\ new.period = p /\ new.kind = kind /\ new.phase = "asked"
  BY NoLimitsShape DEF LimitLoad, LimitLoadShapes
<1>2. limitLoads \in Seq(LimitLoadShapes) /\ Len(limitLoads) \in Nat
  BY LenProperties DEF LimitInv, LimitShapes
<1> HIDE DEF new
<1>3. limitLoads' = Append(limitLoads, new)
  BY DEF new
<1>4. /\ limitLoads' \in Seq(LimitLoadShapes) /\ Len(limitLoads') = Len(limitLoads) + 1
      /\ limitLoads'[Len(limitLoads) + 1] = new
      /\ \A k \in 1..Len(limitLoads) : limitLoads'[k] = limitLoads[k]
  BY <1>1, <1>2, <1>3, AppendedAt
<1>5. QED
  BY <1>1, <1>2, <1>4

LEMMA LimitTyped == LimitInv => LimitTypeOK
BY DEF LimitInv, LimitShapes, LimitTypeOK

LEMMA LimitSafe == LimitInv => SavedLimitsAreWhatWasShown /\ LimitsFormComesBack
<1>1. ASSUME LimitInv, limitLoads = <<>> PROVE Len(limitLoads) = 0
  BY <1>1
<1>2. QED
  BY <1>1, NoSaveShape DEF LimitInv, LimitsLoad, LimitsSave, SavedLimitsAreWhatWasShown, LimitsFormComesBack

LEMMA LimitStarts == LimitInit => LimitInv
<1> SUFFICES ASSUME LimitInit PROVE LimitInv
  OBVIOUS
<1> DEFINE first == LimitLoad("load", period)
<1>1. period \in Periods
  BY FirstPeriodShape DEF LimitInit
<1>2. first \in LimitLoadShapes /\ first.period = period /\ first.phase = "asked"
  BY <1>1, NoLimitsShape DEF LimitLoad, LimitLoadShapes
<1> HIDE DEF first
<1>3. limitLoads = <<first>>
  BY DEF LimitInit, first
<1>4. limitLoads \in Seq(LimitLoadShapes) /\ Len(limitLoads) = 1 /\ limitLoads[1] = first
  BY <1>2, <1>3
<1>5. (CHOOSE l \in Limits : TRUE) \in Limits
  BY NoLimitsShape
<1>6. categoryLimits \in [Periods -> LimitForms]
  <2>1. [c \in LimitCategories |-> CHOOSE l \in Limits : TRUE] \in LimitForms
    BY <1>5 DEF LimitForms
  <2>2. QED
    BY <2>1 DEF LimitInit
<1>7. LimitShapes
  BY <1>1, <1>4, <1>6, NoLimitsShape, NoSaveShape DEF LimitInit, LimitShapes
<1>8. LimitsAsk
  BY DEF LimitInit, LimitsAsk
<1>9. LimitsLoad
  <2>1. \A i \in 1..Len(limitLoads) : limitLoads[i].phase # "ok"
    BY <1>2, <1>4
  <2>2. Len(limitLoads) > 0 /\ loading = TRUE /\ limitLoads[Len(limitLoads)].period = period
    BY <1>2, <1>4 DEF LimitInit
  <2>3. QED
    BY <2>1, <2>2, <1>4 DEF LimitsLoad
<1>10. LimitsSave
  BY NoSaveShape DEF LimitInit, LimitsSave
<1>11. QED
  BY <1>7, <1>8, <1>9, <1>10 DEF LimitInv

LEMMA ServeLimitsKeeps ==
  ASSUME LimitInv, ServeLimits
  PROVE  LimitInv'
<1>1. PICK i \in DOMAIN limitLoads :
        /\ limitLoads[i].phase = "asked"
        /\ \/ limitLoads' = [limitLoads EXCEPT ![i].phase = "ok",
                                               ![i].data = categoryLimits[limitLoads[i].period]]
           \/ limitLoads' = [limitLoads EXCEPT ![i].phase = "failed"]
  BY ZenonT(40) DEF ServeLimits
<1>2. UNCHANGED <<categoryLimits, period, editLimits, limitBaseline, loading, pendingPeriod,
                  limitSave, limitsElsewhere, limitNotes>>
  BY Zenon DEF ServeLimits
<1>3. limitLoads \in Seq(LimitLoadShapes) /\ Len(limitLoads) \in Nat /\ i \in 1..Len(limitLoads)
  BY LenProperties DEF LimitInv, LimitShapes
<1>4. limitLoads[i] \in LimitLoadShapes
  BY <1>3, ElementOfSeq
<1>5. categoryLimits[limitLoads[i].period] \in LimitForms
  BY <1>4 DEF LimitInv, LimitShapes, LimitLoadShapes
<1>6. PICK h \in LimitLoadShapes :
        /\ limitLoads' = [limitLoads EXCEPT ![i] = h] /\ h.period = limitLoads[i].period
        /\ h.kind = limitLoads[i].kind
        /\ h.phase = "ok" => h.data = categoryLimits[h.period]
  <2> DEFINE good == [limitLoads[i] EXCEPT !.phase = "ok", !.data = categoryLimits[limitLoads[i].period]]
             bad == [limitLoads[i] EXCEPT !.phase = "failed"]
  <2>1. good \in LimitLoadShapes /\ good.period = limitLoads[i].period /\ good.kind = limitLoads[i].kind /\ good.data = categoryLimits[good.period]
    BY <1>4, <1>5 DEF LimitLoadShapes
  <2>2. bad \in LimitLoadShapes /\ bad.period = limitLoads[i].period /\ bad.kind = limitLoads[i].kind /\ bad.phase = "failed"
    BY <1>4 DEF LimitLoadShapes
  <2>3. limitLoads' = [limitLoads EXCEPT ![i] = good] \/ limitLoads' = [limitLoads EXCEPT ![i] = bad]
    BY <1>1
  <2> HIDE DEF good, bad
  <2>4. QED
    BY <2>1, <2>2, <2>3
<1>7. /\ limitLoads' \in Seq(LimitLoadShapes) /\ Len(limitLoads') = Len(limitLoads)
      /\ \A j \in 1..Len(limitLoads) : limitLoads'[j] = IF j = i THEN h ELSE limitLoads[j]
  BY <1>3, <1>6, ExceptSeq
<1>8. /\ \A j \in 1..Len(limitLoads') : limitLoads'[j].period = limitLoads[j].period
                                           /\ limitLoads'[j].kind = limitLoads[j].kind
      /\ \A j \in 1..Len(limitLoads') :
            limitLoads'[j].phase = "ok"
            => \/ j = i /\ limitLoads'[j].data = categoryLimits[limitLoads'[j].period]
               \/ limitLoads[j].phase = "ok" /\ limitLoads'[j] = limitLoads[j]
  <2>1. ASSUME NEW j \in 1..Len(limitLoads')
        PROVE  /\ limitLoads'[j].period = limitLoads[j].period /\ limitLoads'[j].kind = limitLoads[j].kind
               /\ limitLoads'[j].phase = "ok"
                  => \/ j = i /\ limitLoads'[j].data = categoryLimits[limitLoads'[j].period]
                     \/ limitLoads[j].phase = "ok" /\ limitLoads'[j] = limitLoads[j]
    <3>1. limitLoads'[j] = IF j = i THEN h ELSE limitLoads[j]
      BY <1>7
    <3>2. CASE j = i
      BY <1>6, <3>1, <3>2
    <3>3. CASE j # i
      BY <3>1, <3>3
    <3>4. QED
      BY <3>2, <3>3
  <2>2. QED
    BY <2>1
<1>9. LimitShapes'
  BY <1>2, <1>7 DEF LimitInv, LimitShapes
<1>10. LimitsAsk'
  BY <1>2 DEF LimitInv, LimitsAsk
<1>11. LimitsLoad'
  BY <1>2, <1>3, <1>7, <1>8 DEF LimitInv, LimitsLoad
<1>12. LimitsSave'
  <2>1. Len(limitLoads') = 1 => limitLoads'[1].kind = limitLoads[1].kind
    BY <1>7, <1>8
  <2>2. QED
    BY <1>2, <1>7, <2>1 DEF LimitInv, LimitsSave
<1>13. QED
  BY <1>9, <1>10, <1>11, <1>12 DEF LimitInv

LEMMA FetchLimitsKeeps ==
  ASSUME LimitInv, FetchLimits
  PROVE  LimitInv'
<1>1. PICK i \in DOMAIN limitLoads :
        /\ limitLoads[i].phase # "asked"
        /\ limitLoads' = SubSeq(limitLoads, 1, i - 1) \o SubSeq(limitLoads, i + 1, Len(limitLoads))
        /\ IF limitLoads[i].phase = "failed" /\ limitLoads[i].kind = "refresh"
           THEN UNCHANGED <<editLimits, limitBaseline, loading, limitsElsewhere>>
           ELSE /\ editLimits' = limitLoads[i].data /\ limitBaseline' = limitLoads[i].data
                /\ loading' = FALSE /\ limitsElsewhere' = {}
        /\ limitSave' = IF limitLoads[i].kind = "refresh" THEN NoSave ELSE limitSave
        /\ limitNotes' = limitNotes \cup (IF Len(limitLoads) > 1 THEN {"crossed"} ELSE {})
                                    \cup (IF limitLoads[i].phase = "failed" THEN {"failed"} ELSE {})
  BY DEF FetchLimits
<1>2. UNCHANGED <<categoryLimits, period, pendingPeriod>>
  BY DEF FetchLimits
<1>3. limitLoads \in Seq(LimitLoadShapes) /\ Len(limitLoads) \in Nat /\ i \in 1..Len(limitLoads)
  BY LenProperties DEF LimitInv, LimitShapes
<1>4. limitLoads[i] \in LimitLoadShapes
  BY <1>3, ElementOfSeq
<1>5. limitLoads' \in Seq(LimitLoadShapes) /\ Len(limitLoads') = Len(limitLoads) - 1
  BY <1>1, <1>3, WithoutOne
<1>6. limitNotes' = {} =>
        /\ limitNotes = {} /\ Len(limitLoads) = 1 /\ i = 1 /\ Len(limitLoads') = 0
        /\ limitLoads[i].phase = "ok"
  <2>1. ASSUME limitNotes' = {} PROVE limitNotes = {} /\ ~(Len(limitLoads) > 1) /\ limitLoads[i].phase # "failed"
    BY <1>1, <2>1
  <2>2. limitLoads[i].phase \in {"asked", "ok", "failed"}
    BY <1>4 DEF LimitLoadShapes
  <2>3. limitLoads[i].phase # "asked"
    BY <1>1
  <2>4. ASSUME limitNotes' = {}
        PROVE  /\ limitNotes = {} /\ Len(limitLoads) = 1 /\ i = 1 /\ Len(limitLoads') = 0
               /\ limitLoads[i].phase = "ok"
    BY <1>3, <1>5, <2>1, <2>2, <2>3, <2>4
  <2>5. QED
    BY <2>4
<1>7. limitNotes' = {} => loading' = FALSE /\ limitBaseline' = categoryLimits[period]
  <2>1. ASSUME limitNotes' = {}
        PROVE  loading' = FALSE /\ limitBaseline' = categoryLimits[period]
    <3>1. limitNotes = {} /\ Len(limitLoads) = 1 /\ i = 1 /\ limitLoads[i].phase = "ok"
      BY <1>6, <2>1
    <3>2. loading' = FALSE /\ limitBaseline' = limitLoads[i].data
      BY <1>1, <3>1
    <3>3. limitLoads[1].period = period /\ (limitLoads[1].phase = "ok" => limitLoads[1].data = categoryLimits[limitLoads[1].period])
      BY <3>1 DEF LimitInv, LimitsLoad
    <3>4. QED
      BY <3>1, <3>2, <3>3
  <2>2. QED
    BY <2>1
<1>8. LimitShapes'
  <2>1. editLimits' \in LimitForms /\ limitBaseline' \in LimitForms /\ loading' \in BOOLEAN
        /\ limitsElsewhere' \subseteq LimitCategories
    BY <1>1, <1>4 DEF LimitInv, LimitShapes, LimitLoadShapes
  <2>2. QED
    BY <1>1, <1>2, <1>5, <2>1, NoSaveShape DEF LimitInv, LimitShapes
<1>9. LimitsAsk'
  BY <1>1, <1>2 DEF LimitInv, LimitsAsk
<1>10. LimitsLoad'
  <2>1. 1..0 = {}
    OBVIOUS
  <2>2. QED
    BY <1>2, <1>6, <1>7, <2>1 DEF LimitsLoad
<1>11. LimitsSave'
  <2>1. limitNotes = {} => limitSave.phase # "sending"
    BY <1>3 DEF LimitInv, LimitsSave
  <2>2. ASSUME limitNotes' = {} PROVE limitSave'.phase = "none"
    <3>1. limitSave.phase # "refreshing" \/ limitLoads[i].kind = "refresh"
      BY <1>6, <2>2 DEF LimitInv, LimitsSave
    <3>2. QED
      BY <1>1, <1>6, <2>1, <2>2, <3>1, NoSaveShape DEF LimitInv, LimitShapes
  <2>3. QED
    BY <2>2 DEF LimitsSave
<1>12. QED
  BY <1>8, <1>9, <1>10, <1>11 DEF LimitInv

LEMMA EditLimitKeeps ==
  ASSUME LimitInv, EditLimit
  PROVE  LimitInv'
<1>1. PICK c \in LimitCategories, l \in Limits \cup {0, LimitInvalid} : editLimits' = [editLimits EXCEPT ![c] = l]
  BY DEF EditLimit
<1>2. UNCHANGED <<categoryLimits, period, limitBaseline, loading, pendingPeriod, limitSave,
                  limitLoads, limitsElsewhere, limitNotes>>
  BY DEF EditLimit
<1>3. LimitShapes'
  BY <1>1, <1>2 DEF LimitInv, LimitShapes, LimitForms
<1>4. QED
  BY <1>2, <1>3 DEF LimitInv, LimitsAsk, LimitsLoad, LimitsSave

LEMMA SaveLimitsKeeps ==
  ASSUME LimitInv, SaveLimits
  PROVE  LimitInv'
<1> DEFINE save == [phase |-> "sending", shown |-> editLimits, ok |-> TRUE,
                    puts |-> {c \in LimitChanged : editLimits[c] # 0},
                    deletes |-> {c \in LimitChanged : editLimits[c] = 0}]
<1>1. ~loading /\ limitSave = NoSave /\ pendingPeriod = {} /\ limitSave' = save
  BY DEF SaveLimits, Fillable
<1>2. UNCHANGED <<categoryLimits, period, editLimits, limitBaseline, loading, pendingPeriod,
                  limitLoads, limitsElsewhere, limitNotes>>
  BY DEF SaveLimits
<1>3. /\ save \in [phase : {"none", "sending", "refreshing"}, puts : SUBSET LimitCategories,
                    deletes : SUBSET LimitCategories, shown : LimitForms, ok : BOOLEAN]
      /\ save.phase = "sending" /\ save.shown = editLimits /\ save.puts \cup save.deletes = LimitChanged
  BY DEF LimitInv, LimitShapes, LimitChanged
<1>4. \A c \in LimitCategories \ LimitChanged : editLimits[c] = limitBaseline[c]
  BY DEF LimitChanged
<1> HIDE DEF save
<1>5. Len(limitLoads) \in Nat
  BY LenProperties DEF LimitInv, LimitShapes
<1>6. limitNotes = {} =>
        /\ Len(limitLoads) = 0
        /\ \A c \in LimitCategories \ limitsElsewhere : limitBaseline[c] = categoryLimits[period][c]
  BY <1>1, <1>5, NoSaveShape DEF LimitInv, LimitsLoad
<1>7. LimitShapes'
  BY <1>1, <1>2, <1>3 DEF LimitInv, LimitShapes
<1>8. LimitsAsk'
  BY <1>1, <1>2, <1>3 DEF LimitsAsk
<1>9. LimitsLoad'
  BY <1>1, <1>2, <1>3 DEF LimitInv, LimitsLoad
<1>10. LimitsSave'
  BY <1>1, <1>2, <1>3, <1>4, <1>6 DEF LimitsSave
<1>11. QED
  BY <1>7, <1>8, <1>9, <1>10 DEF LimitInv

LEMMA SaveLimitKeeps ==
  ASSUME LimitInv, SaveLimit
  PROVE  LimitInv'
<1> DEFINE todo == IF limitSave.puts # {} THEN limitSave.puts ELSE limitSave.deletes
           done(c) == [categoryLimits EXCEPT ![period][c] = limitSave.shown[c]]
<1>1. PICK c \in todo :
        \/ /\ categoryLimits' = done(c)
           /\ limitSave' = [limitSave EXCEPT !.puts = @ \ {c}, !.deletes = @ \ {c}]
           /\ limitsElsewhere' = limitsElsewhere \ {c}
        \/ /\ categoryLimits' \in {categoryLimits, done(c)}
           /\ limitSave' = [limitSave EXCEPT !.puts = {}, !.deletes = {}, !.ok = FALSE]
           /\ limitsElsewhere' = limitsElsewhere
  BY ZenonT(30) DEF SaveLimit
<1>2. /\ limitSave.phase = "sending"
      /\ UNCHANGED <<period, editLimits, limitBaseline, loading, pendingPeriod, limitLoads, limitNotes>>
  BY Zenon DEF SaveLimit
<1>3. c \in LimitCategories /\ period \in Periods /\ categoryLimits \in [Periods -> LimitForms]
      /\ limitSave.shown \in LimitForms
  BY DEF LimitInv, LimitShapes
<1>4. /\ done(c) \in [Periods -> LimitForms]
      /\ \A d \in LimitCategories :
            done(c)[period][d] = IF d = c THEN limitSave.shown[c] ELSE categoryLimits[period][d]
  BY <1>3 DEF LimitForms
<1> HIDE DEF done
<1>5. /\ limitSave' \in [phase : {"none", "sending", "refreshing"}, puts : SUBSET LimitCategories,
                    deletes : SUBSET LimitCategories, shown : LimitForms, ok : BOOLEAN]
      /\ limitSave'.phase = "sending" /\ limitSave'.shown = limitSave.shown
  <2>1. \/ limitSave' = [limitSave EXCEPT !.puts = @ \ {c}, !.deletes = @ \ {c}]
        \/ limitSave' = [limitSave EXCEPT !.puts = {}, !.deletes = {}, !.ok = FALSE]
    BY <1>1
  <2>2. limitSave \in [phase : {"none", "sending", "refreshing"}, puts : SUBSET LimitCategories,
                       deletes : SUBSET LimitCategories, shown : LimitForms, ok : BOOLEAN]
    BY DEF LimitInv, LimitShapes
  <2>3. CASE limitSave' = [limitSave EXCEPT !.puts = @ \ {c}, !.deletes = @ \ {c}]
    BY <1>2, <2>2, <2>3
  <2>4. CASE limitSave' = [limitSave EXCEPT !.puts = {}, !.deletes = {}, !.ok = FALSE]
    BY <1>2, <2>2, <2>4
  <2>5. QED
    BY <2>1, <2>3, <2>4
<1>6. /\ categoryLimits' \in {categoryLimits, done(c)}
      /\ limitsElsewhere' \subseteq LimitCategories
      /\ limitSave'.ok => /\ limitSave.ok /\ categoryLimits' = done(c) /\ limitsElsewhere' = limitsElsewhere \ {c}
                          /\ limitSave'.puts = limitSave.puts \ {c} /\ limitSave'.deletes = limitSave.deletes \ {c}
  BY <1>1, <1>2 DEF LimitInv, LimitShapes
<1>7. LimitShapes'
  BY <1>2, <1>3, <1>4, <1>5, <1>6 DEF LimitInv, LimitShapes
<1>8. LimitsAsk'
  BY <1>2, <1>5, NoSaveShape DEF LimitInv, LimitsAsk
<1>9. limitNotes = {} => Len(limitLoads) = 0
  BY <1>2 DEF LimitInv, LimitsSave
<1>10. LimitsLoad'
  BY <1>2, <1>5, <1>9 DEF LimitInv, LimitsLoad
<1>11. LimitsSave'
  <2>1. ASSUME limitNotes = {}, limitSave'.ok,
               NEW d \in LimitCategories \ (limitSave'.puts \cup limitSave'.deletes \cup limitsElsewhere')
        PROVE  categoryLimits'[period][d] = limitSave'.shown[d]
    <3>1. d = c \/ (d \in LimitCategories \ (limitSave.puts \cup limitSave.deletes \cup limitsElsewhere))
      BY <1>6, <2>1
    <3>2. categoryLimits'[period][d] = IF d = c THEN limitSave.shown[c] ELSE categoryLimits[period][d]
      BY <1>4, <1>6, <2>1
    <3>3. d # c => categoryLimits[period][d] = limitSave.shown[d]
      BY <1>2, <1>6, <2>1, <3>1 DEF LimitInv, LimitsSave
    <3>4. QED
      BY <1>5, <3>2, <3>3
  <2>2. QED
    BY <1>2, <1>5, <1>9, <2>1 DEF LimitsSave
<1>12. QED
  BY <1>7, <1>8, <1>10, <1>11 DEF LimitInv

LEMMA SaveLimitsEndsKeeps ==
  ASSUME LimitInv, SaveLimitsEnds
  PROVE  LimitInv'
<1>1. /\ limitSave.phase = "sending" /\ limitSave.puts = {} /\ limitSave.deletes = {}
      /\ limitSave' = [limitSave EXCEPT !.phase = "refreshing"]
      /\ loading' = TRUE /\ limitLoads' = Append(limitLoads, LimitLoad("refresh", period))
  BY DEF SaveLimitsEnds
<1>2. UNCHANGED <<categoryLimits, period, editLimits, limitBaseline, pendingPeriod, limitsElsewhere,
                  limitNotes>>
  BY DEF SaveLimitsEnds
<1>3. period \in Periods
  BY DEF LimitInv, LimitShapes
<1>4. /\ limitLoads' \in Seq(LimitLoadShapes) /\ Len(limitLoads') = Len(limitLoads) + 1
      /\ Len(limitLoads') \in Nat /\ Len(limitLoads) \in Nat
      /\ limitLoads'[Len(limitLoads')].period = period /\ limitLoads'[Len(limitLoads')].kind = "refresh"
      /\ \A i \in 1..Len(limitLoads') :
            \/ i \in 1..Len(limitLoads) /\ limitLoads'[i] = limitLoads[i]
            \/ limitLoads'[i].phase = "asked"
  BY <1>1, <1>3, LimitLoadSent
<1>5. /\ limitSave' \in [phase : {"none", "sending", "refreshing"}, puts : SUBSET LimitCategories,
                    deletes : SUBSET LimitCategories, shown : LimitForms, ok : BOOLEAN]
      /\ limitSave'.phase = "refreshing" /\ limitSave'.shown = limitSave.shown /\ limitSave'.ok = limitSave.ok
  BY <1>1 DEF LimitInv, LimitShapes
<1>6. limitNotes = {} /\ limitSave.ok =>
        \A c \in LimitCategories \ limitsElsewhere : categoryLimits[period][c] = limitSave.shown[c]
  BY <1>1 DEF LimitInv, LimitsSave
<1>7. LimitShapes'
  BY <1>1, <1>2, <1>4, <1>5 DEF LimitInv, LimitShapes
<1>8. LimitsAsk'
  BY <1>1, <1>2, <1>5, NoSaveShape DEF LimitInv, LimitsAsk
<1>9. limitNotes = {} => Len(limitLoads) = 0
  BY <1>1 DEF LimitInv, LimitsSave
<1>10. LimitsLoad'
  BY <1>1, <1>2, <1>4, <1>5, <1>9 DEF LimitsLoad
<1>11. LimitsSave'
  BY <1>2, <1>4, <1>5, <1>6, <1>9 DEF LimitsSave
<1>12. QED
  BY <1>7, <1>8, <1>10, <1>11 DEF LimitInv

\* A switch to another month, with nothing being saved.
LEMMA SwitchPeriodKeeps ==
  ASSUME LimitInv, NEW p \in Periods, SwitchPeriod(p), limitSave = NoSave, pendingPeriod' \subseteq Periods,
         UNCHANGED <<categoryLimits, editLimits, limitBaseline, limitSave, limitsElsewhere, limitNotes>>
  PROVE  LimitInv'
<1>1. period' = p /\ loading' = TRUE /\ limitLoads' = Append(limitLoads, LimitLoad("load", p))
  BY DEF SwitchPeriod
<1>2. /\ limitLoads' \in Seq(LimitLoadShapes) /\ Len(limitLoads') = Len(limitLoads) + 1
      /\ Len(limitLoads') \in Nat /\ Len(limitLoads) \in Nat
      /\ limitLoads'[Len(limitLoads')].period = p
      /\ \A i \in 1..Len(limitLoads') :
            \/ i \in 1..Len(limitLoads) /\ limitLoads'[i] = limitLoads[i]
            \/ limitLoads'[i].phase = "asked"
  BY <1>1, LimitLoadSent
<1>3. LimitShapes'
  BY <1>1, <1>2 DEF LimitInv, LimitShapes
<1>4. LimitsAsk'
  BY DEF LimitInv, LimitsAsk
<1>5. LimitsLoad'
  BY <1>1, <1>2 DEF LimitInv, LimitsLoad
<1>6. LimitsSave'
  BY NoSaveShape DEF LimitInv, LimitsSave
<1>7. QED
  BY <1>3, <1>4, <1>5, <1>6 DEF LimitInv

LEMMA SelectPeriodKeeps ==
  ASSUME LimitInv, SelectPeriod
  PROVE  LimitInv'
<1>1. PICK p \in Periods :
        IF LimitDirty # {}
        THEN pendingPeriod' = {p} /\ UNCHANGED <<period, loading, limitLoads>>
        ELSE SwitchPeriod(p) /\ UNCHANGED pendingPeriod
  BY DEF SelectPeriod
<1>2. limitSave = NoSave /\ UNCHANGED <<categoryLimits, editLimits, limitBaseline, limitSave, limitsElsewhere, limitNotes>>
  BY DEF SelectPeriod
<1>3. CASE LimitDirty # {}
  BY <1>1, <1>2, <1>3 DEF LimitInv, LimitShapes, LimitsAsk, LimitsLoad, LimitsSave
<1>4. CASE LimitDirty = {}
  <2>1. SwitchPeriod(p) /\ pendingPeriod' \subseteq Periods
    BY <1>1, <1>4 DEF LimitInv, LimitShapes
  <2>2. QED
    BY <1>2, <2>1, SwitchPeriodKeeps
<1>5. QED
  BY <1>3, <1>4

LEMMA AnswerSwitchKeeps ==
  ASSUME LimitInv, AnswerSwitch
  PROVE  LimitInv'
<1>1. pendingPeriod' = {} /\ limitSave = NoSave
      /\ UNCHANGED <<categoryLimits, editLimits, limitBaseline, limitSave, limitsElsewhere, limitNotes>>
  BY DEF AnswerSwitch, LimitInv, LimitsAsk
<1>2. CASE \E p \in pendingPeriod : SwitchPeriod(p)
  <2>1. PICK p \in pendingPeriod : SwitchPeriod(p)
    BY <1>2
  <2>2. p \in Periods
    BY DEF LimitInv, LimitShapes
  <2>3. QED
    BY <1>1, <2>1, <2>2, SwitchPeriodKeeps
<1>3. CASE UNCHANGED <<period, loading, limitLoads>>
  BY <1>1, <1>3 DEF LimitInv, LimitShapes, LimitsAsk, LimitsLoad, LimitsSave
<1>4. QED
  BY <1>2, <1>3 DEF AnswerSwitch

LEMMA LimitsElsewhereKeeps ==
  ASSUME LimitInv, LimitsElsewhere
  PROVE  LimitInv'
<1>1. PICK p \in Periods, c \in LimitCategories, l \in Limits \cup {0} :
        /\ categoryLimits' = [categoryLimits EXCEPT ![p][c] = l]
        /\ limitsElsewhere' = IF p = period THEN limitsElsewhere \cup {c} ELSE limitsElsewhere
        /\ limitNotes' = IF \E i \in DOMAIN limitLoads : limitLoads[i].phase = "ok" /\ limitLoads[i].period = p
                         THEN limitNotes \cup {"outrun"} ELSE limitNotes
  BY DEF LimitsElsewhere
<1>2. UNCHANGED <<period, editLimits, limitBaseline, loading, pendingPeriod, limitSave, limitLoads>>
  BY DEF LimitsElsewhere
<1>3. limitLoads \in Seq(LimitLoadShapes) /\ DOMAIN limitLoads = 1..Len(limitLoads) /\ period \in Periods
      /\ categoryLimits \in [Periods -> LimitForms] /\ limitsElsewhere \subseteq LimitCategories
  BY LenProperties DEF LimitInv, LimitShapes
<1>4. /\ categoryLimits' \in [Periods -> LimitForms]
      /\ \A q \in Periods : q # p => categoryLimits'[q] = categoryLimits[q]
      /\ \A d \in LimitCategories : d # c => categoryLimits'[p][d] = categoryLimits[p][d]
  BY <1>1, <1>3 DEF LimitForms
<1>5. limitsElsewhere' \subseteq LimitCategories
      /\ \A d \in LimitCategories \ limitsElsewhere' :
            d \notin limitsElsewhere /\ categoryLimits'[period][d] = categoryLimits[period][d]
  BY <1>1, <1>3, <1>4
<1>6. ASSUME limitNotes' = {}
      PROVE  /\ limitNotes = {}
             /\ \A i \in 1..Len(limitLoads) :
                   limitLoads[i].phase = "ok"
                   => categoryLimits'[limitLoads[i].period] = categoryLimits[limitLoads[i].period]
  <2>1. limitNotes = {} /\ ~\E i \in DOMAIN limitLoads : limitLoads[i].phase = "ok" /\ limitLoads[i].period = p
    BY <1>1, <1>6
  <2>2. ASSUME NEW i \in 1..Len(limitLoads)
        PROVE  limitLoads[i].period \in Periods
    <3>1. limitLoads[i] \in LimitLoadShapes
      BY <1>3, ElementOfSeq
    <3>2. QED
      BY <3>1 DEF LimitLoadShapes
  <2>3. QED
    BY <1>3, <1>4, <2>1, <2>2
<1>7. LimitShapes' /\ LimitsAsk'
  BY <1>2, <1>4, <1>5 DEF LimitInv, LimitShapes, LimitsAsk
<1>8. LimitsLoad'
  BY <1>2, <1>5, <1>6 DEF LimitInv, LimitsLoad
<1>9. LimitsSave'
  BY <1>2, <1>5, <1>6 DEF LimitInv, LimitsSave
<1>10. QED
  BY <1>7, <1>8, <1>9 DEF LimitInv

LEMMA LimitStands ==
  ASSUME LimitInv, UNCHANGED limitVars
  PROVE  LimitInv'
BY DEF limitVars, LimitInv, LimitShapes, LimitsAsk, LimitsLoad, LimitsSave, LimitChanged

LEMMA LimitSteps ==
  ASSUME LimitInv, [LimitNext]_limitVars
  PROVE  LimitInv'
BY ServeLimitsKeeps, FetchLimitsKeeps, EditLimitKeeps, SaveLimitsKeeps, SaveLimitKeeps,
   SaveLimitsEndsKeeps, SelectPeriodKeeps, AnswerSwitchKeeps, LimitsElsewhereKeeps, LimitStands DEF LimitNext

\* The month's limits are what the form showed when they were saved, and the form
\* comes back with them, but for the limits another device wrote meanwhile
\* (Budgets.tsx).
THEOREM LimitHolds == LimitSpec => [](LimitTypeOK /\ SavedLimitsAreWhatWasShown /\ LimitsFormComesBack)
<1>1. LimitSpec => []LimitInv
  BY LimitStarts, LimitSteps, PTL DEF LimitSpec
<1>2. QED
  BY <1>1, LimitTyped, LimitSafe, PTL

(***************************************************************************)
(* The savings goals (SavingsPage): the list that is loaded last is the     *)
(* server's, and the dialog that replaces a goal was opened from it.        *)
(***************************************************************************)
SavingsSpec == SavingsInit /\ [][SavingsNext]_goalVars

Goals == [GoalYears -> GoalTargets \cup {0}]
GoalLoadShapes == [phase : {"asked", "ok", "failed"}, data : Goals]
GoalPutShapes == [year : GoalYears, target : GoalTargets, replaces : BOOLEAN,
                  phase : {"asked", "ok", "failed"}]
GoalDeleteShapes == [year : GoalYears, phase : {"asked", "ok", "failed"}]
GoalForms == [open : BOOLEAN, year : GoalYears \cup {0}, target : GoalTargets \cup {0}]
GoalShapes ==
  /\ serverGoals \in Goals /\ goals \in Goals /\ goalForm \in GoalForms
  /\ goalPuts \subseteq GoalPutShapes /\ goalDeletes \subseteq GoalDeleteShapes
  /\ confirmGoal \in GoalYears \cup {0} /\ untold \in BOOLEAN
  /\ goalLoads \in Seq(GoalLoadShapes) /\ goalsElsewhere \subseteq GoalYears

\* What the page will show once the loads under way are taken, if it is known.
GoalsKnown == Len(goalLoads) = 0 \/ goalLoads[Len(goalLoads)].phase = "ok"
GoalsToShow == IF Len(goalLoads) = 0 THEN goals ELSE goalLoads[Len(goalLoads)].data
\* What it will not show, as another device wrote it since.
GoalsBlind == IF Len(goalLoads) = 0 THEN goalsElsewhere ELSE {}
NoPutDone == \A p \in goalPuts : p.phase # "ok"
NoDeleteDone == \A d \in goalDeletes : d.phase # "ok"
GoalsAreSound == goalNotes \cap {"failed", "crossed", "unanswered", "outrun"} = {}
\* A change that was made and answered is loaded again.
GoalsTold ==
  GoalsAreSound /\ NoPutDone /\ NoDeleteDone /\ GoalsKnown =>
    \A y \in GoalYears \ GoalsBlind : GoalsToShow[y] = serverGoals[y]
\* The page shows at least the goals there are.
GoalsCovered ==
  goalNotes = {} /\ NoPutDone /\ GoalsKnown =>
    \A y \in GoalYears \ GoalsBlind : serverGoals[y] # 0 => GoalsToShow[y] # 0
\* One goal is added at a time, and the one that adds it said what it does.
PutsTold ==
  /\ untold => goalNotes # {}
  /\ goalNotes = {} =>
       /\ \A p, q \in goalPuts : p = q
       /\ \A p \in goalPuts : p.phase = "asked" /\ ~p.replaces => serverGoals[p.year] = 0
SavingsInv == GoalShapes /\ GoalsTold /\ GoalsCovered /\ PutsTold

LEMMA GoalConstants ==
  /\ NoGoals \in Goals /\ ThisYear \in GoalYears /\ EmptyForm \in GoalForms /\ GoalLoad \in GoalLoadShapes
  /\ GoalLoad.phase = "asked" /\ (CHOOSE t \in GoalTargets : TRUE) \in GoalTargets
<1>1. GoalYears \in SUBSET Nat /\ GoalYears # {} /\ GoalTargets # {}
  BY GoalAssumption
<1>2. NoGoals \in Goals
  BY DEF NoGoals, Goals
<1>3. \E y \in GoalYears : \A x \in GoalYears : y <= x
  BY <1>1, LeastNatural
<1>4. ThisYear \in GoalYears
  BY <1>3 DEF ThisYear
<1>5. EmptyForm \in GoalForms
  BY <1>4 DEF EmptyForm, GoalForms
<1>6. GoalLoad \in GoalLoadShapes /\ GoalLoad.phase = "asked"
  BY <1>2 DEF GoalLoad, GoalLoadShapes
<1>7. QED
  BY <1>1, <1>2, <1>4, <1>5, <1>6

LEMMA SavingsTyped == SavingsInv => SavingsTypeOK
<1> SUFFICES ASSUME SavingsInv PROVE SavingsTypeOK
  OBVIOUS
<1>1. goalLoads \in Seq(GoalLoadShapes)
  BY DEF SavingsInv, GoalShapes
<1>2. ASSUME NEW i \in DOMAIN goalLoads PROVE goalLoads[i].phase \in {"asked", "ok", "failed"}
  <2>1. goalLoads[i] \in GoalLoadShapes
    BY <1>1, ElementOfSeq, LenProperties
  <2>2. QED
    BY <2>1 DEF GoalLoadShapes
<1>3. QED
  BY <1>2 DEF SavingsInv, GoalShapes, SavingsTypeOK, Goals, GoalForms

LEMMA SavingsSafe == SavingsInv => GoalsShownAreTrue /\ GoalReplacementIsTold
<1> SUFFICES ASSUME SavingsInv PROVE GoalsShownAreTrue /\ GoalReplacementIsTold
  OBVIOUS
<1>1. ASSUME goalLoads = <<>> PROVE Len(goalLoads) = 0
  BY <1>1
<1>2. GoalsShownAreTrue
  BY <1>1 DEF SavingsInv, GoalsTold, GoalsAreSound, NoPutDone, NoDeleteDone, GoalsKnown, GoalsToShow,
              GoalsBlind, GoalsShownAreTrue
<1>3. QED
  BY <1>2 DEF SavingsInv, PutsTold, GoalReplacementIsTold

\* A list that is asked for is not known.
LEMMA GoalLoadSent ==
  ASSUME SavingsInv, goalLoads' = Append(goalLoads, GoalLoad)
  PROVE  goalLoads' \in Seq(GoalLoadShapes) /\ ~GoalsKnown'
<1>1. goalLoads \in Seq(GoalLoadShapes) /\ Len(goalLoads) \in Nat
  BY LenProperties DEF SavingsInv, GoalShapes
<1>2. GoalLoad \in GoalLoadShapes /\ GoalLoad.phase = "asked"
  BY GoalConstants
<1>3. goalLoads' \in Seq(GoalLoadShapes) /\ Len(goalLoads') = Len(goalLoads) + 1
      /\ goalLoads'[Len(goalLoads) + 1] = GoalLoad
  BY <1>1, <1>2, AppendedAt
<1>4. Len(goalLoads') # 0 /\ goalLoads'[Len(goalLoads')].phase = "asked"
  BY <1>1, <1>2, <1>3
<1>5. QED
  BY <1>3, <1>4 DEF GoalsKnown

LEMMA SavingsStarts == SavingsInit => SavingsInv
<1> SUFFICES ASSUME SavingsInit PROVE SavingsInv
  OBVIOUS
<1>1. serverGoals \in Goals
  <2>1. [NoGoals EXCEPT ![ThisYear] = CHOOSE t \in GoalTargets : TRUE] \in Goals
    BY GoalConstants DEF Goals
  <2>2. QED
    BY <2>1, GoalConstants DEF SavingsInit
<1>2. goalLoads = <<GoalLoad>>
  BY DEF SavingsInit
<1>3. goalLoads \in Seq(GoalLoadShapes) /\ Len(goalLoads) = 1 /\ goalLoads[1].phase = "asked"
  BY <1>2, GoalConstants
<1>4. ~GoalsKnown
  BY <1>3 DEF GoalsKnown
<1>5. GoalShapes
  BY <1>1, <1>3, GoalConstants DEF SavingsInit, GoalShapes
<1>6. PutsTold
  BY DEF SavingsInit, PutsTold
<1>7. QED
  BY <1>4, <1>5, <1>6 DEF SavingsInv, GoalsTold, GoalsCovered

LEMMA ServeGoalLoadKeeps ==
  ASSUME SavingsInv, ServeGoalLoad
  PROVE  SavingsInv'
<1>1. PICK i \in DOMAIN goalLoads :
        /\ goalLoads[i].phase = "asked"
        /\ \/ goalLoads' = [goalLoads EXCEPT ![i] = [phase |-> "ok", data |-> serverGoals]]
           \/ goalLoads' = [goalLoads EXCEPT ![i].phase = "failed"]
  BY DEF ServeGoalLoad
<1>2. UNCHANGED <<serverGoals, goals, goalForm, goalPuts, confirmGoal, goalDeletes, goalsElsewhere,
                  untold, goalNotes>>
  BY Zenon DEF ServeGoalLoad
<1>3. goalLoads \in Seq(GoalLoadShapes) /\ Len(goalLoads) \in Nat /\ i \in 1..Len(goalLoads)
      /\ serverGoals \in Goals
  BY LenProperties DEF SavingsInv, GoalShapes
<1>4. goalLoads[i] \in GoalLoadShapes
  BY <1>3, ElementOfSeq
<1>5. PICK h \in GoalLoadShapes :
        goalLoads' = [goalLoads EXCEPT ![i] = h] /\ (h.phase = "ok" => h.data = serverGoals)
  <2> DEFINE good == [phase |-> "ok", data |-> serverGoals]
             bad == [goalLoads[i] EXCEPT !.phase = "failed"]
  <2>1. good \in GoalLoadShapes /\ good.data = serverGoals
    BY <1>3 DEF GoalLoadShapes
  <2>2. bad \in GoalLoadShapes /\ bad.phase = "failed"
    BY <1>4 DEF GoalLoadShapes
  <2>3. goalLoads' = [goalLoads EXCEPT ![i] = good] \/ goalLoads' = [goalLoads EXCEPT ![i] = bad]
    BY <1>1
  <2> HIDE DEF good, bad
  <2>4. QED
    BY <2>1, <2>2, <2>3
<1>6. /\ goalLoads' \in Seq(GoalLoadShapes) /\ Len(goalLoads') = Len(goalLoads)
      /\ \A j \in 1..Len(goalLoads) : goalLoads'[j] = IF j = i THEN h ELSE goalLoads[j]
  BY <1>3, <1>5, ExceptSeq
<1>7. GoalsKnown' =>
        GoalsToShow' = serverGoals \/ (GoalsKnown /\ GoalsToShow' = GoalsToShow /\ GoalsBlind' = GoalsBlind)
  <2>1. Len(goalLoads) \in 1..Len(goalLoads)
    BY <1>3
  <2>2. goalLoads'[Len(goalLoads)] = IF Len(goalLoads) = i THEN h ELSE goalLoads[Len(goalLoads)]
    BY <1>6, <2>1
  <2>3. Len(goalLoads') # 0
    BY <1>6, <2>1
  <2>4. CASE Len(goalLoads) = i
    BY <1>2, <1>5, <1>6, <2>2, <2>3, <2>4 DEF GoalsKnown, GoalsToShow, GoalsBlind
  <2>5. CASE Len(goalLoads) # i
    BY <1>2, <1>6, <2>2, <2>3, <2>5 DEF GoalsKnown, GoalsToShow, GoalsBlind
  <2>6. QED
    BY <2>4, <2>5
<1>8. GoalShapes'
  BY <1>2, <1>6 DEF SavingsInv, GoalShapes
<1>9. GoalsTold' /\ GoalsCovered'
  BY <1>2, <1>7 DEF SavingsInv, GoalsTold, GoalsCovered, GoalsAreSound, NoPutDone, NoDeleteDone
<1>10. PutsTold'
  BY <1>2 DEF SavingsInv, PutsTold
<1>11. QED
  BY <1>8, <1>9, <1>10 DEF SavingsInv

LEMMA FetchGoalsKeeps ==
  ASSUME SavingsInv, FetchGoals
  PROVE  SavingsInv'
<1>1. PICK i \in DOMAIN goalLoads :
        /\ goalLoads[i].phase # "asked"
        /\ goalLoads' = SubSeq(goalLoads, 1, i - 1) \o SubSeq(goalLoads, i + 1, Len(goalLoads))
        /\ IF goalLoads[i].phase = "ok" THEN goals' = goalLoads[i].data /\ goalsElsewhere' = {}
           ELSE UNCHANGED <<goals, goalsElsewhere>>
        /\ goalNotes' = goalNotes \cup (IF goalLoads[i].phase = "ok" THEN {} ELSE {"failed"})
                                  \cup (IF i = 1 THEN {} ELSE {"crossed"})
  BY DEF FetchGoals
<1>2. UNCHANGED <<serverGoals, goalForm, goalPuts, confirmGoal, goalDeletes, untold>>
  BY DEF FetchGoals
<1>3. goalLoads \in Seq(GoalLoadShapes) /\ Len(goalLoads) \in Nat /\ i \in 1..Len(goalLoads)
  BY LenProperties DEF SavingsInv, GoalShapes
<1>4. goalLoads[i] \in GoalLoadShapes
  BY <1>3, ElementOfSeq
<1>5. goalLoads' \in Seq(GoalLoadShapes) /\ Len(goalLoads') = Len(goalLoads) - 1
      /\ \A j \in 1..Len(goalLoads') : goalLoads'[j] = IF j < i THEN goalLoads[j] ELSE goalLoads[j + 1]
  BY <1>1, <1>3, WithoutOne
<1>6. goalNotes \subseteq goalNotes' /\ (GoalsAreSound' => GoalsAreSound /\ i = 1 /\ goalLoads[i].phase = "ok")
  BY <1>1 DEF GoalsAreSound
<1>7. goalNotes' = {} => goalNotes = {} /\ GoalsAreSound'
  BY <1>6 DEF GoalsAreSound
<1>8. i = 1 /\ goalLoads[i].phase = "ok" /\ GoalsKnown' =>
        GoalsKnown /\ GoalsToShow' = GoalsToShow /\ GoalsBlind' = GoalsBlind
  <2> SUFFICES ASSUME i = 1, goalLoads[i].phase = "ok", GoalsKnown'
               PROVE  GoalsKnown /\ GoalsToShow' = GoalsToShow /\ GoalsBlind' = GoalsBlind
    OBVIOUS
  <2>1. CASE Len(goalLoads) = 1
    <3>1. Len(goalLoads') = 0
      BY <1>5, <2>1
    <3>2. goals' = goalLoads[1].data /\ goalsElsewhere' = {}
      BY <1>1
    <3>3. QED
      BY <2>1, <3>1, <3>2 DEF GoalsKnown, GoalsToShow, GoalsBlind
  <2>2. CASE Len(goalLoads) # 1
    <3>1. Len(goalLoads') \in 1..Len(goalLoads') /\ Len(goalLoads') # 0 /\ Len(goalLoads) # 0
          /\ ~(Len(goalLoads') < 1) /\ Len(goalLoads') + 1 = Len(goalLoads)
      BY <1>3, <1>5, <2>2
    <3>2. goalLoads'[Len(goalLoads')] = goalLoads[Len(goalLoads)]
      BY <1>5, <3>1
    <3>3. QED
      BY <3>1, <3>2 DEF GoalsKnown, GoalsToShow, GoalsBlind
  <2>3. QED
    BY <2>1, <2>2
<1>9. GoalShapes'
  <2>1. goals' \in Goals /\ goalsElsewhere' \subseteq GoalYears
    BY <1>1, <1>4 DEF SavingsInv, GoalShapes, GoalLoadShapes
  <2>2. QED
    BY <1>2, <1>5, <2>1 DEF SavingsInv, GoalShapes
<1>10. GoalsTold' /\ GoalsCovered'
  BY <1>2, <1>6, <1>7, <1>8 DEF SavingsInv, GoalsTold, GoalsCovered, NoPutDone, NoDeleteDone
<1>11. PutsTold'
  BY <1>2, <1>6, <1>7 DEF SavingsInv, PutsTold
<1>12. QED
  BY <1>9, <1>10, <1>11 DEF SavingsInv

\* What only moves the dialogs.
LEMMA GoalDialogKeeps ==
  ASSUME SavingsInv, goalForm' \in GoalForms, confirmGoal' \in GoalYears \cup {0},
         UNCHANGED <<serverGoals, goals, goalPuts, goalDeletes, goalLoads, goalsElsewhere, untold, goalNotes>>
  PROVE  SavingsInv'
<1>1. GoalShapes'
  BY DEF SavingsInv, GoalShapes
<1>2. GoalsTold' /\ GoalsCovered'
  BY DEF SavingsInv, GoalsTold, GoalsCovered, GoalsAreSound, NoPutDone, NoDeleteDone, GoalsKnown, GoalsToShow, GoalsBlind
<1>3. PutsTold'
  BY DEF SavingsInv, PutsTold
<1>4. QED
  BY <1>1, <1>2, <1>3 DEF SavingsInv

LEMMA GoalDialogsKeep ==
  ASSUME SavingsInv, OpenGoalDialog \/ TypeGoal \/ CloseGoalDialog \/ AskDeleteGoal
  PROVE  SavingsInv'
<1>1. goalForm \in GoalForms /\ confirmGoal \in GoalYears \cup {0}
  BY DEF SavingsInv, GoalShapes
<1>2. goalForm' \in GoalForms /\ confirmGoal' \in GoalYears \cup {0}
  <2>1. CASE OpenGoalDialog
    BY <1>1, <2>1 DEF OpenGoalDialog, GoalForms
  <2>2. CASE TypeGoal
    <3>1. PICK y \in GoalYears \cup {0}, t \in GoalTargets \cup {0} :
            goalForm' = [goalForm EXCEPT !.year = y, !.target = t]
      BY ZenonT(30), <2>2 DEF TypeGoal
    <3>2. confirmGoal' = confirmGoal
      BY Zenon, <2>2 DEF TypeGoal
    <3>3. QED
      BY <1>1, <3>1, <3>2 DEF GoalForms
  <2>3. CASE CloseGoalDialog
    BY <1>1, <2>3, GoalConstants DEF CloseGoalDialog
  <2>4. CASE AskDeleteGoal
    BY <1>1, <2>4 DEF AskDeleteGoal
  <2>5. QED
    BY <2>1, <2>2, <2>3, <2>4
<1>3. UNCHANGED <<serverGoals, goals, goalPuts, goalDeletes, goalLoads, goalsElsewhere, untold, goalNotes>>
  <2>1. CASE OpenGoalDialog
    BY Zenon, <2>1 DEF OpenGoalDialog
  <2>2. CASE TypeGoal
    BY Zenon, <2>2 DEF TypeGoal
  <2>3. CASE CloseGoalDialog
    BY Zenon, <2>3 DEF CloseGoalDialog
  <2>4. CASE AskDeleteGoal
    BY Zenon, <2>4 DEF AskDeleteGoal
  <2>5. QED
    BY <2>1, <2>2, <2>3, <2>4
<1>4. QED
  BY <1>2, <1>3, GoalDialogKeeps

LEMMA OnAddGoalKeeps ==
  ASSUME SavingsInv, OnAddGoal
  PROVE  SavingsInv'
<1> DEFINE p == [year |-> goalForm.year, target |-> goalForm.target,
                 replaces |-> ExistingGoal(goalForm.year), phase |-> "asked"]
<1>1. /\ goalForm.year \in GoalYears /\ goalForm.target \in GoalTargets /\ goalForm.year # 0
      /\ goalPuts' = goalPuts \cup {p}
      /\ goalNotes' = goalNotes \cup (IF goalLoads = <<>> /\ goalPuts = {} THEN {} ELSE {"early"})
                                \cup (IF goalForm.year \in goalsElsewhere THEN {"outdated"} ELSE {})
  BY DEF OnAddGoal, SavingsInv, GoalShapes, GoalForms
<1>2. UNCHANGED <<serverGoals, goals, goalForm, confirmGoal, goalDeletes, goalLoads, goalsElsewhere, untold>>
  BY DEF OnAddGoal
<1>3. /\ p \in GoalPutShapes /\ p.phase = "asked" /\ p.year \in GoalYears
      /\ p.year = goalForm.year /\ (~p.replaces => goals[p.year] = 0)
  <2>1. ExistingGoal(goalForm.year) \in BOOLEAN
    BY DEF ExistingGoal
  <2>2. ~ExistingGoal(goalForm.year) => goals[goalForm.year] = 0
    BY <1>1 DEF ExistingGoal
  <2>3. QED
    BY <1>1, <2>1, <2>2 DEF GoalPutShapes
<1> HIDE DEF p
<1>4. NoPutDone' => NoPutDone
  BY <1>1 DEF NoPutDone
<1>5. GoalShapes'
  BY <1>1, <1>2, <1>3 DEF SavingsInv, GoalShapes
<1>6. GoalsAreSound' => GoalsAreSound
  BY <1>1 DEF GoalsAreSound
<1>7. goalNotes' = {} =>
        goalNotes = {} /\ goalLoads = <<>> /\ goalPuts = {} /\ goalForm.year \notin goalsElsewhere
  BY <1>1
<1>8. GoalsTold' /\ GoalsCovered'
  BY <1>2, <1>4, <1>6, <1>7 DEF SavingsInv, GoalsTold, GoalsCovered, NoDeleteDone, GoalsKnown, GoalsToShow, GoalsBlind
<1>9. PutsTold'
  <2>1. ASSUME goalNotes' = {}, ~p.replaces PROVE serverGoals[p.year] = 0
    <3>1. Len(goalLoads) = 0 /\ goalNotes = {} /\ NoPutDone
      BY <1>7, <2>1 DEF NoPutDone
    <3>2. GoalsKnown /\ GoalsToShow = goals /\ p.year \in GoalYears \ GoalsBlind
      BY <1>3, <1>7, <2>1, <3>1 DEF GoalsKnown, GoalsToShow, GoalsBlind
    <3>3. QED
      BY <1>3, <2>1, <3>1, <3>2 DEF SavingsInv, GoalsCovered
  <2>2. goalNotes' = {} => goalPuts' = {p}
    BY <1>1, <1>7
  <2>3. untold' => goalNotes' # {}
    BY <1>2, <1>7 DEF SavingsInv, PutsTold
  <2>4. QED
    BY <1>2, <2>1, <2>2, <2>3 DEF PutsTold
<1>10. QED
  BY <1>5, <1>8, <1>9 DEF SavingsInv

LEMMA ServeGoalPutKeeps ==
  ASSUME SavingsInv, ServeGoalPut
  PROVE  SavingsInv'
<1> DEFINE put(p) == [serverGoals EXCEPT ![p.year] = p.target]
           After(p, ph) == (goalPuts \ {p}) \cup {[p EXCEPT !.phase = ph]}
<1>1. PICK p \in goalPuts :
        /\ p.phase = "asked"
        /\ \/ /\ serverGoals' = put(p) /\ goalPuts' = After(p, "ok") /\ UNCHANGED goalNotes
              /\ untold' = (untold \/ (serverGoals[p.year] # 0 /\ ~p.replaces))
           \/ /\ serverGoals' \in {serverGoals, put(p)} /\ goalPuts' = After(p, "failed")
              /\ goalNotes' = goalNotes \cup {"unanswered"} /\ UNCHANGED untold
  BY DEF ServeGoalPut
<1>2. UNCHANGED <<goals, goalForm, confirmGoal, goalDeletes, goalLoads, goalsElsewhere>>
  BY DEF ServeGoalPut
<1>3. p \in GoalPutShapes /\ serverGoals \in Goals
  BY DEF SavingsInv, GoalShapes
<1>4. put(p) \in Goals
  BY <1>3 DEF GoalPutShapes, Goals
<1>5. ASSUME NEW ph \in {"ok", "failed"}
      PROVE  [p EXCEPT !.phase = ph] \in GoalPutShapes /\ [p EXCEPT !.phase = ph].phase = ph
  BY <1>3 DEF GoalPutShapes
<1>6. After(p, "ok") \subseteq GoalPutShapes /\ After(p, "failed") \subseteq GoalPutShapes
      /\ \E q \in After(p, "ok") : q.phase = "ok"
  BY <1>5 DEF SavingsInv, GoalShapes
<1> HIDE DEF put
<1>7. CASE goalPuts' = After(p, "ok")
  <2>1. CASE /\ serverGoals' = put(p) /\ UNCHANGED goalNotes
             /\ untold' = (untold \/ (serverGoals[p.year] # 0 /\ ~p.replaces))
    <3>1. ~NoPutDone'
      BY <1>6, <1>7 DEF NoPutDone
    <3>2. GoalShapes'
      BY <1>2, <1>4, <1>6, <1>7, <2>1 DEF SavingsInv, GoalShapes
    <3>3. PutsTold'
      <4>1. untold' => goalNotes' # {}
        BY <1>1, <2>1 DEF SavingsInv, PutsTold
      <4>2. ASSUME goalNotes' = {} PROVE goalPuts' = {[p EXCEPT !.phase = "ok"]}
        BY <1>7, <2>1, <4>2 DEF SavingsInv, PutsTold
      <4>3. [p EXCEPT !.phase = "ok"].phase # "asked"
        BY <1>5
      <4>4. QED
        BY <4>1, <4>2, <4>3 DEF PutsTold
    <3>4. QED
      BY <3>1, <3>2, <3>3 DEF SavingsInv, GoalsTold, GoalsCovered
  <2>2. CASE /\ serverGoals' \in {serverGoals, put(p)} /\ goalPuts' = After(p, "failed")
             /\ goalNotes' = goalNotes \cup {"unanswered"} /\ UNCHANGED untold
    <3>1. goalNotes' # {} /\ ~GoalsAreSound'
      BY <2>2 DEF GoalsAreSound
    <3>2. GoalShapes'
      BY <1>2, <1>3, <1>4, <1>6, <2>2 DEF SavingsInv, GoalShapes
    <3>3. QED
      BY <3>1, <3>2 DEF SavingsInv, GoalsTold, GoalsCovered, PutsTold
  <2>3. QED
    BY <1>1, <2>1, <2>2
<1>8. CASE goalPuts' # After(p, "ok")
  <2>1. /\ serverGoals' \in {serverGoals, put(p)} /\ goalPuts' = After(p, "failed")
        /\ goalNotes' = goalNotes \cup {"unanswered"} /\ UNCHANGED untold
    BY <1>1, <1>8
  <2>2. goalNotes' # {} /\ ~GoalsAreSound'
    BY <2>1 DEF GoalsAreSound
  <2>3. GoalShapes'
    BY <1>2, <1>3, <1>4, <1>6, <2>1 DEF SavingsInv, GoalShapes
  <2>4. QED
    BY <2>2, <2>3 DEF SavingsInv, GoalsTold, GoalsCovered, PutsTold
<1>9. QED
  BY <1>7, <1>8

\* An answer that leaves the page makes it load the list again when it was a
\* success; one that was not was told.
LEMMA GoalAnswerKeeps ==
  ASSUME SavingsInv, goalForm' \in GoalForms, goalPuts' \subseteq goalPuts, goalDeletes' \subseteq goalDeletes,
         UNCHANGED <<serverGoals, goals, confirmGoal, goalsElsewhere, untold, goalNotes>>,
         \/ goalLoads' = Append(goalLoads, GoalLoad)
         \/ /\ goalLoads' = goalLoads /\ (NoPutDone' => NoPutDone) /\ (NoDeleteDone' => NoDeleteDone)
  PROVE  SavingsInv'
<1>1. goalLoads' \in Seq(GoalLoadShapes)
  BY GoalLoadSent DEF SavingsInv, GoalShapes
<1>2. GoalShapes'
  BY <1>1 DEF SavingsInv, GoalShapes
<1>3. PutsTold'
  BY DEF SavingsInv, PutsTold
<1>4. GoalsTold' /\ GoalsCovered'
  <2>1. CASE goalLoads' = Append(goalLoads, GoalLoad)
    BY <2>1, GoalLoadSent DEF GoalsTold, GoalsCovered
  <2>2. CASE /\ goalLoads' = goalLoads /\ (NoPutDone' => NoPutDone) /\ (NoDeleteDone' => NoDeleteDone)
    BY <2>2 DEF SavingsInv, GoalsTold, GoalsCovered, GoalsAreSound, GoalsKnown, GoalsToShow, GoalsBlind
  <2>3. QED
    BY <2>1, <2>2
<1>5. QED
  BY <1>2, <1>3, <1>4 DEF SavingsInv

LEMMA GoalSavedKeeps ==
  ASSUME SavingsInv, GoalSaved
  PROVE  SavingsInv'
<1>1. PICK p \in goalPuts :
        /\ goalPuts' = goalPuts \ {p}
        /\ IF p.phase = "ok"
           THEN goalForm' = EmptyForm /\ goalLoads' = Append(goalLoads, GoalLoad)
           ELSE UNCHANGED <<goalForm, goalLoads>>
  BY DEF GoalSaved
<1>2. UNCHANGED <<serverGoals, goals, confirmGoal, goalDeletes, goalsElsewhere, untold, goalNotes>>
  BY DEF GoalSaved
<1>3. goalForm' \in GoalForms /\ goalPuts' \subseteq goalPuts
  BY <1>1, GoalConstants DEF SavingsInv, GoalShapes
<1>4. p.phase # "ok" => (NoPutDone' => NoPutDone)
  BY <1>1 DEF NoPutDone
<1>5. NoDeleteDone' => NoDeleteDone
  BY <1>2 DEF NoDeleteDone
<1>6. QED
  BY <1>1, <1>2, <1>3, <1>4, <1>5, GoalAnswerKeeps

LEMMA GoalDeletedKeeps ==
  ASSUME SavingsInv, GoalDeleted
  PROVE  SavingsInv'
<1>1. PICK d \in goalDeletes :
        /\ goalDeletes' = goalDeletes \ {d}
        /\ goalLoads' = IF d.phase = "ok" THEN Append(goalLoads, GoalLoad) ELSE goalLoads
  BY DEF GoalDeleted
<1>2. UNCHANGED <<serverGoals, goals, goalForm, goalPuts, confirmGoal, goalsElsewhere, untold, goalNotes>>
  BY DEF GoalDeleted
<1>3. goalForm' \in GoalForms /\ goalDeletes' \subseteq goalDeletes
  BY <1>1, <1>2 DEF SavingsInv, GoalShapes
<1>4. d.phase # "ok" => (NoDeleteDone' => NoDeleteDone)
  BY <1>1 DEF NoDeleteDone
<1>5. NoPutDone' => NoPutDone
  BY <1>2 DEF NoPutDone
<1>6. QED
  BY <1>1, <1>2, <1>3, <1>4, <1>5, GoalAnswerKeeps

LEMMA CloseDeleteGoalKeeps ==
  ASSUME SavingsInv, CloseDeleteGoal
  PROVE  SavingsInv'
<1>1. /\ confirmGoal \in GoalYears /\ confirmGoal' = 0
      /\ goalDeletes' \in {goalDeletes, goalDeletes \cup {[year |-> confirmGoal, phase |-> "asked"]}}
  BY DEF CloseDeleteGoal, SavingsInv, GoalShapes
<1>2. UNCHANGED <<serverGoals, goals, goalForm, goalPuts, goalLoads, goalsElsewhere, untold, goalNotes>>
  BY DEF CloseDeleteGoal
<1>3. [year |-> confirmGoal, phase |-> "asked"] \in GoalDeleteShapes
  BY <1>1 DEF GoalDeleteShapes
<1>4. goalDeletes' \subseteq GoalDeleteShapes
  BY <1>1, <1>3 DEF SavingsInv, GoalShapes
<1>5. NoDeleteDone' => NoDeleteDone
  BY <1>1 DEF NoDeleteDone
<1>6. GoalShapes'
  BY <1>1, <1>2, <1>4 DEF SavingsInv, GoalShapes
<1>7. GoalsTold' /\ GoalsCovered'
  BY <1>2, <1>5 DEF SavingsInv, GoalsTold, GoalsCovered, GoalsAreSound, NoPutDone, GoalsKnown, GoalsToShow, GoalsBlind
<1>8. PutsTold'
  BY <1>2 DEF SavingsInv, PutsTold
<1>9. QED
  BY <1>6, <1>7, <1>8 DEF SavingsInv

LEMMA ServeGoalDeleteKeeps ==
  ASSUME SavingsInv, ServeGoalDelete
  PROVE  SavingsInv'
<1> DEFINE gone(d) == [serverGoals EXCEPT ![d.year] = 0]
           After(d, ph) == (goalDeletes \ {d}) \cup {[d EXCEPT !.phase = ph]}
<1>1. PICK d \in goalDeletes :
        /\ d.phase = "asked"
        /\ \/ /\ serverGoals' = gone(d) /\ UNCHANGED goalNotes
              /\ goalDeletes' = After(d, IF serverGoals[d.year] = 0 THEN "failed" ELSE "ok")
           \/ /\ serverGoals' \in {serverGoals, gone(d)} /\ goalDeletes' = After(d, "failed")
              /\ goalNotes' = goalNotes \cup {"unanswered"}
  BY DEF ServeGoalDelete
<1>2. UNCHANGED <<goals, goalForm, goalPuts, confirmGoal, goalLoads, goalsElsewhere, untold>>
  BY DEF ServeGoalDelete
<1>3. d \in GoalDeleteShapes /\ serverGoals \in Goals
  BY DEF SavingsInv, GoalShapes
<1>4. gone(d) \in Goals /\ (\A y \in GoalYears : gone(d)[y] # 0 => serverGoals[y] = gone(d)[y])
      /\ (serverGoals[d.year] = 0 => gone(d) = serverGoals)
  BY <1>3 DEF GoalDeleteShapes, Goals
<1>5. ASSUME NEW ph \in {"ok", "failed"}
      PROVE  [d EXCEPT !.phase = ph] \in GoalDeleteShapes /\ [d EXCEPT !.phase = ph].phase = ph
  BY <1>3 DEF GoalDeleteShapes
<1>6. After(d, "ok") \subseteq GoalDeleteShapes /\ After(d, "failed") \subseteq GoalDeleteShapes
      /\ (\E e \in After(d, "ok") : e.phase = "ok")
      /\ ((\A e \in After(d, "failed") : e.phase # "ok") => NoDeleteDone)
  <2>1. (\A e \in After(d, "failed") : e.phase # "ok") => NoDeleteDone
    BY <1>1 DEF NoDeleteDone
  <2>2. QED
    BY <1>5, <2>1 DEF SavingsInv, GoalShapes
<1> HIDE DEF gone, After
<1>7. serverGoals' \in Goals /\ \A y \in GoalYears : serverGoals'[y] # 0 => serverGoals[y] = serverGoals'[y]
  BY <1>1, <1>3, <1>4
<1>8. goalNotes \subseteq goalNotes' /\ (goalDeletes' = After(d, "ok") \/ goalDeletes' = After(d, "failed"))
  BY <1>1
<1>9. GoalShapes'
  BY <1>2, <1>6, <1>7, <1>8 DEF SavingsInv, GoalShapes
<1>10. GoalsAreSound' /\ NoDeleteDone' => GoalsAreSound /\ NoDeleteDone /\ serverGoals' = serverGoals
  <2> SUFFICES ASSUME GoalsAreSound', NoDeleteDone'
               PROVE  GoalsAreSound /\ NoDeleteDone /\ serverGoals' = serverGoals
    OBVIOUS
  <2>1. goalNotes' # goalNotes \cup {"unanswered"}
    BY DEF GoalsAreSound
  <2>2. goalDeletes' # After(d, "ok")
    BY <1>6 DEF NoDeleteDone
  <2>3. serverGoals[d.year] = 0 /\ serverGoals' = gone(d) /\ goalDeletes' = After(d, "failed")
    BY <1>1, <2>1, <2>2
  <2>4. QED
    BY <1>4, <1>6, <1>8, <2>3 DEF NoDeleteDone, GoalsAreSound
<1>11. GoalsTold'
  BY <1>2, <1>10 DEF SavingsInv, GoalsTold, NoPutDone, GoalsKnown, GoalsToShow, GoalsBlind
<1>12. goalNotes' = {} => goalNotes = {}
  BY <1>8
<1>13. GoalsCovered'
  BY <1>2, <1>7, <1>12 DEF SavingsInv, GoalsCovered, NoPutDone, GoalsKnown, GoalsToShow, GoalsBlind
<1>14. PutsTold'
  <2>1. \A p \in goalPuts : p.year \in GoalYears
    BY DEF SavingsInv, GoalShapes, GoalPutShapes
  <2>2. QED
    BY <1>2, <1>7, <1>12, <2>1 DEF SavingsInv, PutsTold
<1>15. QED
  BY <1>9, <1>11, <1>13, <1>14 DEF SavingsInv

LEMMA GoalsElsewhereKeeps ==
  ASSUME SavingsInv, GoalsElsewhere
  PROVE  SavingsInv'
<1>1. PICK y \in GoalYears, t \in GoalTargets \cup {0} :
        /\ serverGoals' = [serverGoals EXCEPT ![y] = t] /\ goalsElsewhere' = goalsElsewhere \cup {y}
        /\ goalNotes' = IF \/ \E i \in DOMAIN goalLoads : goalLoads[i].phase = "ok"
                           \/ \E p \in goalPuts : p.phase = "asked" /\ p.year = y
                        THEN goalNotes \cup {"outrun"} ELSE goalNotes
  BY DEF GoalsElsewhere
<1>2. UNCHANGED <<goals, goalForm, goalPuts, confirmGoal, goalDeletes, goalLoads, untold>>
  BY DEF GoalsElsewhere
<1>3. goalLoads \in Seq(GoalLoadShapes) /\ Len(goalLoads) \in Nat /\ DOMAIN goalLoads = 1..Len(goalLoads)
      /\ serverGoals \in Goals
  BY LenProperties DEF SavingsInv, GoalShapes
<1>4. serverGoals' \in Goals /\ \A x \in GoalYears : x # y => serverGoals'[x] = serverGoals[x]
  BY <1>1, <1>3 DEF Goals
<1>5. goalNotes \subseteq goalNotes' /\ (GoalsAreSound' => GoalsAreSound)
  BY <1>1 DEF GoalsAreSound
<1>6. Len(goalLoads) # 0 /\ GoalsKnown => ~GoalsAreSound' /\ goalNotes' # {}
  <2> SUFFICES ASSUME Len(goalLoads) # 0, GoalsKnown PROVE "outrun" \in goalNotes'
    BY DEF GoalsAreSound
  <2>1. Len(goalLoads) \in DOMAIN goalLoads /\ goalLoads[Len(goalLoads)].phase = "ok"
    BY <1>3 DEF GoalsKnown
  <2>2. QED
    BY <1>1, <2>1
<1>7. (GoalsKnown' <=> GoalsKnown) /\ GoalsToShow' = GoalsToShow
      /\ (Len(goalLoads) = 0 => GoalsBlind = goalsElsewhere /\ GoalsBlind' = goalsElsewhere \cup {y})
      /\ (NoPutDone' <=> NoPutDone) /\ (NoDeleteDone' <=> NoDeleteDone)
  BY <1>1, <1>2 DEF GoalsKnown, GoalsToShow, GoalsBlind, NoPutDone, NoDeleteDone
<1>8. GoalShapes'
  BY <1>1, <1>2, <1>4 DEF SavingsInv, GoalShapes
<1>9. GoalsTold'
  BY <1>4, <1>5, <1>6, <1>7 DEF SavingsInv, GoalsTold
<1>10. GoalsCovered'
  BY <1>4, <1>5, <1>6, <1>7 DEF SavingsInv, GoalsCovered
<1>11. PutsTold'
  <2>1. \A p \in goalPuts : p.year \in GoalYears
    BY DEF SavingsInv, GoalShapes, GoalPutShapes
  <2>2. goalNotes' = {} => \A p \in goalPuts : p.phase = "asked" => p.year # y
    BY <1>1
  <2>3. QED
    BY <1>2, <1>4, <1>5, <2>1, <2>2 DEF SavingsInv, PutsTold
<1>12. QED
  BY <1>8, <1>9, <1>10, <1>11 DEF SavingsInv

LEMMA SavingsStands ==
  ASSUME SavingsInv, UNCHANGED goalVars
  PROVE  SavingsInv'
<1>1. UNCHANGED <<serverGoals, goals, goalPuts, goalDeletes, goalLoads, goalsElsewhere, untold, goalNotes>>
      /\ goalForm' \in GoalForms /\ confirmGoal' \in GoalYears \cup {0}
  BY DEF goalVars, SavingsInv, GoalShapes
<1>2. QED
  BY <1>1, GoalDialogKeeps

LEMMA SavingsSteps ==
  ASSUME SavingsInv, [SavingsNext]_goalVars
  PROVE  SavingsInv'
BY ServeGoalLoadKeeps, FetchGoalsKeeps, GoalDialogsKeep, OnAddGoalKeeps, ServeGoalPutKeeps, GoalSavedKeeps,
   CloseDeleteGoalKeeps, ServeGoalDeleteKeeps, GoalDeletedKeeps, GoalsElsewhereKeeps,
   SavingsStands DEF SavingsNext

\* The list is the server's but for what another device wrote, and a goal is
\* replaced only by a dialog that said so, with the cases the properties set aside
\* (Savings.tsx).
THEOREM SavingsHolds == SavingsSpec => [](SavingsTypeOK /\ GoalsShownAreTrue /\ GoalReplacementIsTold)
<1>1. SavingsSpec => []SavingsInv
  BY SavingsStarts, SavingsSteps, PTL DEF SavingsSpec
<1>2. QED
  BY <1>1, SavingsTyped, SavingsSafe, PTL

(***************************************************************************)
(* The heatmap (Heatmap): whichever grid is on show, it holds the days of   *)
(* the year or month one after the other behind at most six empty cells,    *)
(* which is what the tab stop, the keys and the weekdays follow from.       *)
(***************************************************************************)
HeatSpec == HeatInit /\ [][HeatNext]_heatVars

\* What the grid on show is made from.
HeatShown == heatYear \in HeatYears /\ narrow \in BOOLEAN /\ monthFor[1] = heatYear /\ monthFor[2] \in 1..12
HeatFirst == IF narrow THEN FirstOf(heatYear, Month) ELSE 1
HeatLast == HeatFirst + (IF narrow THEN MonthLength(heatYear, Month) ELSE YearLength(heatYear)) - 1

HeatShapes ==
  /\ DOMAIN heatData \subseteq HeatDays /\ \A d \in DOMAIN heatData : heatData[d] \in HeatTotals
  /\ focusedDate[2] \in 0..366 /\ heatFocus \in {"page", "sheet", "cell", "lost"}
  /\ openDay # ShutDay => openDay.date = openedFrom /\ openedFrom \in 1..366
\* The focused cell is on show and no sheet covers it.
CellIsFocused ==
  heatFocus = "cell" =>
    openDay = ShutDay /\ focusedDate = <<heatYear, focusedDate[2]>> /\ InGrid(focusedDate[2])
\* The cell the sheet was opened from is still there, unless the viewport flipped.
SheetHasItsCell ==
  /\ openDay # ShutDay /\ "flipped" \notin heatNotes => InGrid(openedFrom)
  /\ heatFocus = "lost" => "flipped" \in heatNotes
SheetIsOfDay ==
  openDay # ShutDay =>
    /\ ~(openDay.upcoming /\ openDay.rows)
    /\ "refetched" \notin heatNotes => openDay.total = TotalOf(openDay.date)
                                       /\ openDay.upcoming = IsUpcoming(openDay.date)
HeatInv == HeatShown /\ HeatShapes /\ CellIsFocused /\ SheetHasItsCell /\ SheetIsOfDay

\* Where a cell stands in the order of the days.
HeatIndex(p) == IF narrow THEN (p[1] - 1) * 7 + p[2] ELSE (p[2] - 1) * 7 + p[1]
\* The grid of w weeks, its first day after lead empty cells.
GridShape(lead, w) ==
  /\ lead = StartWeekday(heatYear, HeatFirst) /\ lead \in 0..6 /\ w \in Nat \ {0}
  /\ lead + (HeatLast - HeatFirst + 1) <= 7 * w
  /\ DOMAIN Cells = 1..(7 * w)
  /\ \A i \in 1..(7 * w) :
        Cells[i] = IF i - lead \in 1..(HeatLast - HeatFirst + 1) THEN HeatFirst + i - lead - 1 ELSE 0
  /\ Places(Grid) = IF narrow THEN (1..w) \X (1..7) ELSE (1..7) \X (1..w)
  /\ \A p \in Places(Grid) : At(Grid, p) = Cells[HeatIndex(p)] /\ DOMAIN Grid[p[1]] = DOMAIN Grid[1]

(***************************************************************************)
(* The calendar.                                                           *)
(***************************************************************************)
LEMMA CalendarIs ==
  ASSUME NEW y \in Nat \ {0}
  PROVE  /\ YearLength(y) \in {365, 366}
         /\ \A m \in 1..12 : /\ MonthLength(y, m) \in 28..31 /\ FirstOf(y, m) \in 1..336
                             /\ FirstOf(y, m) + MonthLength(y, m) - 1 <= YearLength(y)
<1>1. YearLength(y) = IF Leap(y) THEN 366 ELSE 365
  BY DEF YearLength
<1>2. ASSUME NEW m \in 1..12
      PROVE  /\ MonthLength(y, m) \in 28..31 /\ FirstOf(y, m) \in 1..336
             /\ FirstOf(y, m) + MonthLength(y, m) - 1 <= YearLength(y)
  <2> HIDE DEF Leap
  <2>1. m \in {1, 2, 3, 4, 5, 6, 7, 8, 9, 10, 11, 12}
    OBVIOUS
  <2>2. QED
    BY <1>1, <2>1 DEF MonthLength, FirstOf, DaysBefore
<1>3. QED
  BY <1>1, <1>2

LEMMA MonthExists ==
  ASSUME NEW y \in Nat, NEW d \in 1..YearLength(y)
  PROVE  MonthOf(y, d) \in 1..12
<1>1. \E m \in 1..12 : d \in FirstOf(y, m)..(FirstOf(y, m) + MonthLength(y, m) - 1)
  <2> DEFINE l == IF Leap(y) THEN 1 ELSE 0
  <2>1. l \in {0, 1} /\ d \in 1..(365 + l)
    BY DEF YearLength
  <2>2. /\ \A m \in 1..12 : FirstOf(y, m) = DaysBefore[m] + (IF m > 2 THEN 1 + l ELSE 1)
        /\ \A m \in 1..12 : MonthLength(y, m) = IF m = 2 THEN 28 + l ELSE IF m \in {4, 6, 9, 11} THEN 30 ELSE 31
    BY DEF FirstOf, MonthLength
  <2> HIDE DEF l
  <2>3. /\ FirstOf(y, 1) = 1 /\ FirstOf(y, 2) = 32 /\ FirstOf(y, 3) = 60 + l /\ FirstOf(y, 4) = 91 + l
        /\ FirstOf(y, 5) = 121 + l /\ FirstOf(y, 6) = 152 + l /\ FirstOf(y, 7) = 182 + l /\ FirstOf(y, 8) = 213 + l
        /\ FirstOf(y, 9) = 244 + l /\ FirstOf(y, 10) = 274 + l /\ FirstOf(y, 11) = 305 + l /\ FirstOf(y, 12) = 335 + l
    BY <2>1, <2>2 DEF DaysBefore
  <2>4. /\ MonthLength(y, 1) = 31 /\ MonthLength(y, 2) = 28 + l /\ MonthLength(y, 3) = 31 /\ MonthLength(y, 4) = 30
        /\ MonthLength(y, 5) = 31 /\ MonthLength(y, 6) = 30 /\ MonthLength(y, 7) = 31 /\ MonthLength(y, 8) = 31
        /\ MonthLength(y, 9) = 30 /\ MonthLength(y, 10) = 31 /\ MonthLength(y, 11) = 30 /\ MonthLength(y, 12) = 31
    BY <2>2
  <2>5. CASE d <= 181 + l
    BY <2>1, <2>3, <2>4, <2>5
  <2>6. CASE d > 181 + l
    BY <2>1, <2>3, <2>4, <2>6
  <2>7. QED
    BY <2>1, <2>5, <2>6
<1>2. QED
  BY <1>1 DEF MonthOf

LEMMA DefaultMonthIs ==
  ASSUME NEW y \in HeatYears
  PROVE  DefaultMonth(y) \in 1..12
<1>1. TodayYear \in Nat /\ TodayDate \in 1..YearLength(TodayYear)
  BY HeatAssumption, TodayAssumption
<1>2. MonthOf(TodayYear, TodayDate) \in 1..12
  BY <1>1, MonthExists
<1>3. QED
  BY <1>2 DEF DefaultMonth

\* The days of a year or a month, padded to whole weeks.
Padded(cells, lead, first, last, w) ==
  /\ Len(cells) \div 7 = w /\ DOMAIN cells = 1..(7 * w) /\ lead + (last - first + 1) <= 7 * w
  /\ \A i \in 1..(7 * w) :
        cells[i] = IF i - lead \in 1..(last - first + 1) THEN first + i - lead - 1 ELSE 0

LEMMA PaddedWeeks ==
  ASSUME NEW y \in Nat \ {0}, NEW first \in Nat \ {0}, NEW last \in Nat, first <= last
  PROVE  /\ StartWeekday(y, first) \in 0..6
         /\ \E w \in Nat \ {0} : Padded(GenerateDates(y, first, last), StartWeekday(y, first), first, last, w)
<1> DEFINE lead == StartWeekday(y, first)
           len == last - first + 1
           w == (lead + len + 6) \div 7
           at(i) == IF i - lead \in 1..len THEN first + i - lead - 1 ELSE 0
           cells == [i \in 1..(w * 7) |-> at(i)]
<1>1. lead \in 0..6
  <2>1. UTCDay(y, first) \in 0..6
    <3> DEFINE days == y + (y - 1) \div 4 - (y - 1) \div 100 + (y - 1) \div 400 + first - 1
    <3>1. days \in Int
      OBVIOUS
    <3> HIDE DEF days
    <3>2. days % 7 \in 0..6
      BY <3>1
    <3>3. QED
      BY <3>2 DEF UTCDay, days
  <2>2. QED
    BY <2>1 DEF StartWeekday, WeekdayCount
<1>2. GenerateDates(y, first, last) = cells
  BY DEF GenerateDates, WeekdayCount
<1> HIDE DEF lead
<1>3. len \in Nat \ {0}
  OBVIOUS
<1> HIDE DEF len
<1>4. w \in Nat \ {0} /\ lead + len <= 7 * w
  BY <1>1, <1>3
<1>5. \A i \in 1..(w * 7) : at(i) \in Int
  BY <1>1, <1>3, <1>4
<1> HIDE DEF w
<1>6. cells \in [1..(w * 7) -> Int] /\ w * 7 \in Nat
  BY <1>4, <1>5
<1>7. Len(cells) = w * 7
  <2> HIDE DEF cells
  <2>1. cells \in Seq(Int)
    BY <1>6, SeqDef
  <2>2. DOMAIN cells = 1..Len(cells) /\ Len(cells) \in Nat /\ DOMAIN cells = 1..(w * 7)
    BY <1>6, <2>1, LenProperties
  <2>3. QED
    BY <1>4, <1>6, <2>2
<1>8. (w * 7) \div 7 = w /\ w * 7 = 7 * w
  BY <1>4
<1>9. DOMAIN cells = 1..(7 * w) /\ \A i \in 1..(7 * w) : cells[i] = at(i)
  BY <1>8
<1>10. Len(cells) \div 7 = w
  BY <1>7, <1>8
<1> HIDE DEF cells
<1>11. \A i \in 1..(7 * w) : cells[i] = IF i - lead \in 1..len THEN first + i - lead - 1 ELSE 0
  BY <1>9
<1> HIDE DEF at
<1>12. Padded(cells, lead, first, last, w)
  BY <1>4, <1>9, <1>10, <1>11 DEF len, Padded
<1>13. QED
  BY <1>1, <1>2, <1>4, <1>12 DEF lead

(***************************************************************************)
(* The grid on show.                                                       *)
(***************************************************************************)
LEMMA HeatSpan ==
  ASSUME HeatShown
  PROVE  /\ Month \in 1..12 /\ heatYear \in Nat \ {0} /\ HeatFirst \in 1..336 /\ HeatLast \in 28..366
         /\ HeatLast - HeatFirst + 1 \in 28..366
<1>1. Month \in 1..12 /\ heatYear \in Nat \ {0} /\ narrow \in BOOLEAN
  BY HeatAssumption DEF HeatShown, Month
<1>2. /\ YearLength(heatYear) \in {365, 366}
      /\ MonthLength(heatYear, Month) \in 28..31 /\ FirstOf(heatYear, Month) \in 1..336
      /\ FirstOf(heatYear, Month) + MonthLength(heatYear, Month) - 1 <= YearLength(heatYear)
  <2>1. PICK m \in 1..12, y \in Nat \ {0} : m = Month /\ y = heatYear
    BY <1>1
  <2>2. YearLength(y) \in {365, 366} /\ FirstOf(y, m) \in 1..336 /\ MonthLength(y, m) \in 28..31
    BY CalendarIs, ZenonT(30)
  <2>3. FirstOf(y, m) + MonthLength(y, m) - 1 <= YearLength(y)
    BY CalendarIs
  <2>4. QED
    BY <2>1, <2>2, <2>3
<1>3. QED
  BY <1>1, <1>2 DEF HeatFirst, HeatLast

LEMMA GridIs ==
  ASSUME HeatShown
  PROVE  \E lead, w : GridShape(lead, w)
<1>1. /\ Month \in 1..12 /\ heatYear \in Nat \ {0} /\ HeatFirst \in 1..336 /\ HeatLast \in 28..366
      /\ HeatLast - HeatFirst + 1 \in 28..366 /\ narrow \in BOOLEAN /\ heatYear \in HeatYears
  BY HeatSpan DEF HeatShown
<1> DEFINE lead == StartWeekday(heatYear, HeatFirst)
           cells == GenerateDates(heatYear, HeatFirst, HeatLast)
<1>2. lead \in 0..6 /\ \E w \in Nat \ {0} : Padded(cells, lead, HeatFirst, HeatLast, w)
  <2>1. HeatFirst \in Nat \ {0} /\ HeatLast \in Nat /\ HeatFirst <= HeatLast
    BY <1>1
  <2>2. QED
    BY <1>1, <2>1, PaddedWeeks
<1>3. PICK w \in Nat \ {0} :
          /\ Len(cells) \div 7 = w /\ DOMAIN cells = 1..(7 * w) /\ lead + (HeatLast - HeatFirst + 1) <= 7 * w
          /\ \A i \in 1..(7 * w) :
               cells[i] = IF i - lead \in 1..(HeatLast - HeatFirst + 1) THEN HeatFirst + i - lead - 1 ELSE 0
  BY <1>2 DEF Padded
<1>4. CASE ~narrow
  <2>1. HeatFirst = 1 /\ HeatLast = YearLength(heatYear)
    BY <1>1, <1>4, CalendarIs DEF HeatFirst, HeatLast
  <2>2. Cells = cells /\ Grid = ToWeekdayRows(cells)
    BY <1>1, <1>4, <2>1 DEF Cells, Grid, YearCells, YearGrids
  <2> HIDE DEF cells
  <2>3. Grid = [r \in 1..7 |-> [c \in 1..w |-> cells[(c - 1) * 7 + r]]]
    BY <1>3, <2>2 DEF ToWeekdayRows, WeekdayCount
  <2>4. DOMAIN Grid = 1..7 /\ \A r \in 1..7 : DOMAIN Grid[r] = 1..w
    BY <2>3
  <2>5. Places(Grid) = (1..7) \X (1..w)
    BY <2>4 DEF Places
  <2>6. \A p \in Places(Grid) : At(Grid, p) = Cells[HeatIndex(p)] /\ DOMAIN Grid[p[1]] = DOMAIN Grid[1]
    <3> SUFFICES ASSUME NEW p \in Places(Grid)
                 PROVE  At(Grid, p) = Cells[HeatIndex(p)] /\ DOMAIN Grid[p[1]] = DOMAIN Grid[1]
      OBVIOUS
    <3>1. p[1] \in 1..7 /\ p[2] \in 1..w
      BY <2>5
    <3>2. Grid[p[1]][p[2]] = cells[(p[2] - 1) * 7 + p[1]]
      BY <2>3, <3>1
    <3>3. DOMAIN Grid[p[1]] = 1..w /\ DOMAIN Grid[1] = 1..w
      BY <2>4, <3>1
    <3>4. QED
      BY <1>4, <2>2, <3>2, <3>3 DEF At, HeatIndex
  <2>7. GridShape(lead, w)
    BY <1>2, <1>3, <1>4, <2>2, <2>5, <2>6 DEF GridShape
  <2>8. QED
    BY <2>7
<1>5. CASE narrow
  <2>1. HeatFirst = FirstOf(heatYear, Month) /\ HeatLast = FirstOf(heatYear, Month) + MonthLength(heatYear, Month) - 1
    BY <1>1, <1>5, CalendarIs DEF HeatFirst, HeatLast
  <2>2. Cells = cells /\ Grid = ToWeekRows(cells)
    <3>1. Cells = MonthCells[heatYear][Month] /\ Grid = MonthGrids[heatYear][Month]
      BY <1>5 DEF Cells, Grid
    <3>2. MonthCells[heatYear][Month] = cells
      BY <1>1, <2>1 DEF MonthCells
    <3>3. MonthGrids[heatYear][Month] = ToWeekRows(MonthCells[heatYear][Month])
      BY <1>1 DEF MonthGrids
    <3>4. QED
      BY <3>1, <3>2, <3>3
  <2> HIDE DEF cells
  <2>3. Grid = [r \in 1..w |-> [c \in 1..7 |-> cells[(r - 1) * 7 + c]]]
    BY <1>3, <2>2 DEF ToWeekRows, WeekdayCount
  <2>4. DOMAIN Grid = 1..w /\ \A r \in 1..w : DOMAIN Grid[r] = 1..7
    BY <2>3
  <2>5. Places(Grid) = (1..w) \X (1..7) /\ 1 \in 1..w
    BY <1>3, <2>4 DEF Places
  <2>6. \A p \in Places(Grid) : At(Grid, p) = Cells[HeatIndex(p)] /\ DOMAIN Grid[p[1]] = DOMAIN Grid[1]
    <3> SUFFICES ASSUME NEW p \in Places(Grid)
                 PROVE  At(Grid, p) = Cells[HeatIndex(p)] /\ DOMAIN Grid[p[1]] = DOMAIN Grid[1]
      OBVIOUS
    <3>1. p[1] \in 1..w /\ p[2] \in 1..7
      BY <2>5
    <3>2. Grid[p[1]][p[2]] = cells[(p[1] - 1) * 7 + p[2]]
      BY <2>3, <3>1
    <3>3. DOMAIN Grid[p[1]] = 1..7 /\ DOMAIN Grid[1] = 1..7
      BY <2>4, <2>5, <3>1
    <3>4. QED
      BY <1>5, <2>2, <3>2, <3>3 DEF At, HeatIndex
  <2>7. GridShape(lead, w)
    BY <1>2, <1>3, <1>5, <2>2, <2>5, <2>6 DEF GridShape
  <2>8. QED
    BY <2>7
<1>6. QED
  BY <1>4, <1>5

\* Every place has a cell of its own.
LEMMA PlacesApart ==
  ASSUME NEW lead, NEW w, GridShape(lead, w), narrow \in BOOLEAN
  PROVE  /\ \A p \in Places(Grid) : p = <<p[1], p[2]>> /\ p[1] \in Nat \ {0} /\ p[2] \in Nat \ {0}
                                    /\ HeatIndex(p) \in 1..(7 * w)
         /\ \A p, q \in Places(Grid) : HeatIndex(p) = HeatIndex(q) => p = q
         /\ \A i \in 1..(7 * w) : \E p \in Places(Grid) : HeatIndex(p) = i
<1>1. w \in Nat \ {0} /\ Places(Grid) = IF narrow THEN (1..w) \X (1..7) ELSE (1..7) \X (1..w)
  BY DEF GridShape
<1>2. ASSUME NEW a \in 1..7, NEW b \in 1..w, NEW c \in 1..7, NEW d \in 1..w
      PROVE  (b - 1) * 7 + a \in 1..(7 * w) /\ ((b - 1) * 7 + a = (d - 1) * 7 + c => a = c /\ b = d)
  BY <1>1
<1>3. ASSUME NEW i \in 1..(7 * w)
      PROVE  \E a \in 1..7, b \in 1..w : (b - 1) * 7 + a = i
  <2> DEFINE a == ((i - 1) % 7) + 1
             b == ((i - 1) \div 7) + 1
  <2>1. a \in 1..7 /\ b \in 1..w /\ (b - 1) * 7 + a = i
    BY <1>1
  <2>2. QED
    BY <2>1
<1>4. CASE narrow
  <2>1. \A p : p \in Places(Grid) => p = <<p[1], p[2]>> /\ p[1] \in 1..w /\ p[2] \in 1..7
    BY <1>1, <1>4
  <2>2. \A p : HeatIndex(p) = (p[1] - 1) * 7 + p[2]
    BY <1>4 DEF HeatIndex
  <2>3. \A p \in Places(Grid) : p = <<p[1], p[2]>> /\ p[1] \in Nat \ {0} /\ p[2] \in Nat \ {0}
                                    /\ HeatIndex(p) \in 1..(7 * w)
    BY <1>1, <1>2, <2>1, <2>2
  <2>4. ASSUME NEW p \in Places(Grid), NEW q \in Places(Grid), HeatIndex(p) = HeatIndex(q) PROVE p = q
    <3>1. p[1] = q[1] /\ p[2] = q[2]
      BY <1>2, <2>1, <2>2, <2>4
    <3>2. QED
      BY <2>1, <3>1
  <2>5. ASSUME NEW i \in 1..(7 * w) PROVE \E p \in Places(Grid) : HeatIndex(p) = i
    <3>1. PICK a \in 1..7, b \in 1..w : (b - 1) * 7 + a = i
      BY <1>3
    <3>2. <<b, a>> \in Places(Grid) /\ HeatIndex(<<b, a>>) = i
      BY <1>1, <1>4, <2>2, <3>1
    <3>3. QED
      BY <3>2
  <2>6. QED
    BY <2>3, <2>4, <2>5
<1>5. CASE ~narrow
  <2>1. \A p : p \in Places(Grid) => p = <<p[1], p[2]>> /\ p[1] \in 1..7 /\ p[2] \in 1..w
    BY <1>1, <1>5
  <2>2. \A p : HeatIndex(p) = (p[2] - 1) * 7 + p[1]
    BY <1>5 DEF HeatIndex
  <2>3. \A p \in Places(Grid) : p = <<p[1], p[2]>> /\ p[1] \in Nat \ {0} /\ p[2] \in Nat \ {0}
                                    /\ HeatIndex(p) \in 1..(7 * w)
    BY <1>1, <1>2, <2>1, <2>2
  <2>4. ASSUME NEW p \in Places(Grid), NEW q \in Places(Grid), HeatIndex(p) = HeatIndex(q) PROVE p = q
    <3>1. p[1] = q[1] /\ p[2] = q[2]
      BY <1>2, <2>1, <2>2, <2>4
    <3>2. QED
      BY <2>1, <3>1
  <2>5. ASSUME NEW i \in 1..(7 * w) PROVE \E p \in Places(Grid) : HeatIndex(p) = i
    <3>1. PICK a \in 1..7, b \in 1..w : (b - 1) * 7 + a = i
      BY <1>3
    <3>2. <<a, b>> \in Places(Grid) /\ HeatIndex(<<a, b>>) = i
      BY <1>1, <1>5, <2>2, <3>1
    <3>3. QED
      BY <3>2
  <2>6. QED
    BY <2>3, <2>4, <2>5
<1>6. QED
  BY <1>4, <1>5

\* The cell of a day, and the day of a cell.
LEMMA DaysHaveCells ==
  ASSUME NEW lead, NEW w, GridShape(lead, w), HeatShown
  PROVE  /\ \A p \in Places(Grid) : At(Grid, p) # 0 =>
              /\ At(Grid, p) \in HeatFirst..HeatLast
              /\ HeatIndex(p) = At(Grid, p) - HeatFirst + 1 + lead
         /\ \A p, q \in Places(Grid) : At(Grid, p) # 0 /\ At(Grid, p) = At(Grid, q) => p = q
         /\ \A d \in HeatFirst..HeatLast :
              /\ PlaceOf(Grid, d) \in Places(Grid) /\ At(Grid, PlaceOf(Grid, d)) = d
              /\ HeatIndex(PlaceOf(Grid, d)) = d - HeatFirst + 1 + lead
         /\ \A d : InGrid(d) <=> d \in HeatFirst..HeatLast
         /\ DatesOf(Grid) = HeatFirst..HeatLast
<1>1. /\ HeatFirst \in 1..336 /\ HeatLast \in 28..366 /\ HeatLast - HeatFirst + 1 \in 28..366 /\ narrow \in BOOLEAN
  BY HeatSpan DEF HeatShown
<1>2. /\ lead \in 0..6 /\ w \in Nat \ {0} /\ lead + (HeatLast - HeatFirst + 1) <= 7 * w
      /\ DOMAIN Cells = 1..(7 * w)
      /\ \A i \in 1..(7 * w) :
            Cells[i] = IF i - lead \in 1..(HeatLast - HeatFirst + 1) THEN HeatFirst + i - lead - 1 ELSE 0
      /\ \A p \in Places(Grid) : At(Grid, p) = Cells[HeatIndex(p)]
  BY DEF GridShape
<1>3. /\ \A p \in Places(Grid) : HeatIndex(p) \in 1..(7 * w)
      /\ \A p, q \in Places(Grid) : HeatIndex(p) = HeatIndex(q) => p = q
      /\ \A i \in 1..(7 * w) : \E p \in Places(Grid) : HeatIndex(p) = i
  BY <1>1, PlacesApart
<1>4. \A i \in 1..(7 * w) : Cells[i] # 0 => Cells[i] \in HeatFirst..HeatLast /\ i = Cells[i] - HeatFirst + 1 + lead
  BY <1>1, <1>2
<1>5. \A d \in HeatFirst..HeatLast : d - HeatFirst + 1 + lead \in 1..(7 * w) /\ Cells[d - HeatFirst + 1 + lead] = d /\ d # 0
  BY <1>1, <1>2
<1>6. \A p \in Places(Grid) : At(Grid, p) # 0 =>
              /\ At(Grid, p) \in HeatFirst..HeatLast
              /\ HeatIndex(p) = At(Grid, p) - HeatFirst + 1 + lead
  BY <1>2, <1>3, <1>4
<1>7. \A p, q \in Places(Grid) : At(Grid, p) # 0 /\ At(Grid, p) = At(Grid, q) => p = q
  BY <1>3, <1>6
<1>8. ASSUME NEW d \in HeatFirst..HeatLast
      PROVE  /\ PlaceOf(Grid, d) \in Places(Grid) /\ At(Grid, PlaceOf(Grid, d)) = d
             /\ HeatIndex(PlaceOf(Grid, d)) = d - HeatFirst + 1 + lead
  <2>1. \E p \in Places(Grid) : At(Grid, p) = d
    BY <1>2, <1>3, <1>5
  <2>2. PlaceOf(Grid, d) \in Places(Grid) /\ At(Grid, PlaceOf(Grid, d)) = d
    BY <2>1 DEF PlaceOf
  <2>3. d # 0
    BY <1>5
  <2>4. QED
    BY <1>6, <2>2, <2>3
<1>9. \A d : InGrid(d) <=> d \in HeatFirst..HeatLast
  BY <1>2, <1>4, <1>5 DEF InGrid
<1>10. DatesOf(Grid) = HeatFirst..HeatLast
  <2>1. \A d \in DatesOf(Grid) : d \in HeatFirst..HeatLast
    BY <1>6 DEF DatesOf
  <2>2. \A d \in HeatFirst..HeatLast : d \in DatesOf(Grid)
    BY <1>5, <1>8 DEF DatesOf
  <2>3. QED
    BY <2>1, <2>2
<1>11. QED
  BY <1>6, <1>7, <1>8, <1>9, <1>10

\* A weekday, counted in whole weeks from the padded start.
LEMMA WeeksAside ==
  ASSUME NEW x \in Int
  PROVE  x % 7 \in 0..6 /\ \E q \in Int : x = 7 * q + (x % 7)
<1>1. x = 7 * (x \div 7) + (x % 7) /\ (x \div 7) \in Int /\ x % 7 \in 0..6
  OBVIOUS
<1>2. QED
  BY <1>1

LEMMA WeekdayOfPlace ==
  ASSUME NEW k \in Int, NEW first \in Int, NEW d \in Int, NEW lead \in 0..6, lead = (((k + first) % 7) + 6) % 7,
         NEW wd \in 1..7, NEW wk \in Int, (wk - 1) * 7 + wd = d - first + 1 + lead
  PROVE  wd % 7 = (k + d) % 7
<1>1. PICK a \in Int, q \in Int, s \in 0..6 : a = k + first /\ s = a % 7 /\ a = 7 * q + s
  <2>1. PICK a \in Int : a = k + first
    OBVIOUS
  <2>2. QED
    BY <2>1, WeeksAside
<1>2. lead = (s + 6) % 7
  BY <1>1
<1>3. \E c \in Int : s = 7 * c + lead + 1
  <2>1. CASE s = 0
    <3>1. lead = 6
      BY <1>2, <2>1
    <3>2. s = 7 * (0 - 1) + lead + 1
      BY <2>1, <3>1
    <3>3. QED
      BY <3>2
  <2>2. CASE s # 0
    <3>1. lead = s - 1
      BY <1>1, <1>2, <2>2
    <3>2. s = 7 * 0 + lead + 1
      BY <3>1
    <3>3. QED
      BY <3>2
  <2>3. QED
    BY <2>1, <2>2
<1>4. PICK c \in Int : s = 7 * c + lead + 1
  BY <1>3
<1>5. PICK t \in Int : t = q + c + wk - 1
  OBVIOUS
<1>6. k + d = 7 * t + wd
  BY <1>1, <1>4, <1>5
<1>7. \A u \in Int, v \in 1..7 : (7 * u + v) % 7 = v % 7
  OBVIOUS
<1>8. QED
  BY <1>6, <1>7

LEMMA GridTrue ==
  ASSUME HeatShown
  PROVE  GridIsTrue
<1>1. PICK lead, w : GridShape(lead, w)
  BY GridIs
<1>2. /\ HeatFirst \in 1..336 /\ HeatLast \in 28..366 /\ HeatLast - HeatFirst + 1 \in 28..366 /\ narrow \in BOOLEAN
      /\ heatYear \in Nat \ {0}
  BY HeatSpan DEF HeatShown
<1>3. /\ \A p \in Places(Grid) : At(Grid, p) # 0 => At(Grid, p) \in HeatFirst..HeatLast
      /\ \A p, q \in Places(Grid) : At(Grid, p) # 0 /\ At(Grid, p) = At(Grid, q) => p = q
      /\ \A d \in HeatFirst..HeatLast :
              /\ PlaceOf(Grid, d) \in Places(Grid) /\ At(Grid, PlaceOf(Grid, d)) = d
              /\ HeatIndex(PlaceOf(Grid, d)) = d - HeatFirst + 1 + lead
      /\ DatesOf(Grid) = HeatFirst..HeatLast
  BY <1>1, DaysHaveCells
<1>4. Cardinality({p \in Places(Grid) : At(Grid, p) # 0}) = HeatLast - HeatFirst + 1
  <2> DEFINE S == {p \in Places(Grid) : At(Grid, p) # 0}
             D == HeatFirst..HeatLast
             f == [d \in D |-> PlaceOf(Grid, d)]
  <2>1. IsFiniteSet(D) /\ Cardinality(D) = HeatLast - HeatFirst + 1
    BY <1>2, FS_Interval
  <2>2. \A d \in D : d # 0
    BY <1>2
  <2>3. \A d \in D : PlaceOf(Grid, d) \in S /\ At(Grid, PlaceOf(Grid, d)) = d
    BY <1>3, <2>2
  <2>4. \A p \in S : At(Grid, p) \in D /\ PlaceOf(Grid, At(Grid, p)) = p
    BY <1>3
  <2> HIDE DEF S, D
  <2>5. f \in [D -> S] /\ (\A d, e \in D : f[d] = f[e] => d = e) /\ \A p \in S : \E d \in D : f[d] = p
    BY <2>3, <2>4
  <2> HIDE DEF f
  <2>6. f \in Bijection(D, S)
    BY <2>5 DEF Bijection, Injection, Surjection, IsInjective
  <2>7. ExistsBijection(D, S)
    BY <2>6 DEF ExistsBijection
  <2>8. Cardinality(S) = Cardinality(D)
    BY <2>1, <2>7, FS_Bijection
  <2>9. QED
    BY <2>1, <2>8 DEF S
<1> DEFINE slot(d) == LET p == PlaceOf(Grid, d) IN IF narrow THEN <<p[2], p[1]>> ELSE p
<1>5. ASSUME NEW d \in HeatFirst..HeatLast
      PROVE  /\ slot(d) = <<slot(d)[1], slot(d)[2]>> /\ slot(d)[1] \in 1..7 /\ slot(d)[2] \in Int
             /\ (slot(d)[2] - 1) * 7 + slot(d)[1] = d - HeatFirst + 1 + lead
  <2>1. PICK p \in Places(Grid) : p = PlaceOf(Grid, d) /\ HeatIndex(p) = d - HeatFirst + 1 + lead
    BY <1>3
  <2>2. w \in Nat \ {0} /\ Places(Grid) = IF narrow THEN (1..w) \X (1..7) ELSE (1..7) \X (1..w)
    BY <1>1 DEF GridShape
  <2>3. CASE narrow
    <3>1. slot(d) = <<p[2], p[1]>> /\ p[2] \in 1..7 /\ p[1] \in Int
      BY <2>1, <2>2, <2>3
    <3>2. HeatIndex(p) = (p[1] - 1) * 7 + p[2]
      BY <2>3 DEF HeatIndex
    <3> HIDE DEF slot
    <3>3. QED
      BY <2>1, <3>1, <3>2
  <2>4. CASE ~narrow
    <3>1. slot(d) = p /\ p = <<p[1], p[2]>> /\ p[1] \in 1..7 /\ p[2] \in Int
      BY <2>1, <2>2, <2>4
    <3>2. HeatIndex(p) = (p[2] - 1) * 7 + p[1]
      BY <2>4 DEF HeatIndex
    <3> HIDE DEF slot
    <3>3. QED
      BY <2>1, <3>1, <3>2
  <2>5. QED
    BY <1>2, <2>3, <2>4
<1>6. lead \in 0..6 /\ lead = (UTCDay(heatYear, HeatFirst) + 6) % 7
  BY <1>1 DEF GridShape, StartWeekday, WeekdayCount
<1>7. ASSUME NEW d \in HeatFirst..HeatLast
      PROVE  slot(d)[1] % 7 = UTCDay(heatYear, d)
  <2>1. \A y \in Nat \ {0} : y + (y - 1) \div 4 - (y - 1) \div 100 + (y - 1) \div 400 - 1 \in Int
    OBVIOUS
  <2>2. PICK k \in Int : k = heatYear + (heatYear - 1) \div 4 - (heatYear - 1) \div 100 + (heatYear - 1) \div 400 - 1
    BY <1>2, <2>1
  <2>3. \A e \in Int : UTCDay(heatYear, e) = (k + e) % 7
    <3>1. \A y \in Nat \ {0}, e \in Int : y + (y - 1) \div 4 - (y - 1) \div 100 + (y - 1) \div 400 + e - 1
            = y + (y - 1) \div 4 - (y - 1) \div 100 + (y - 1) \div 400 - 1 + e
      OBVIOUS
    <3>2. QED
      BY <1>2, <2>2, <3>1 DEF UTCDay
  <2>4. d \in Int /\ HeatFirst \in Int
    BY <1>2
  <2>5. lead = (((k + HeatFirst) % 7) + 6) % 7
    BY <1>6, <2>3, <2>4
  <2>6. PICK wd \in 1..7, wk \in Int : wd = slot(d)[1] /\ wk = slot(d)[2]
    BY <1>5
  <2>7. (wk - 1) * 7 + wd = d - HeatFirst + 1 + lead
    BY <1>5, <2>6
  <2> HIDE DEF slot
  <2>8. wd % 7 = (k + d) % 7
    BY <1>6, <2>4, <2>5, <2>7, WeekdayOfPlace
  <2>9. QED
    BY <2>3, <2>4, <2>6, <2>8
<1>8. ASSUME NEW d \in HeatFirst..HeatLast, d + 7 <= HeatLast
      PROVE  slot(d + 7) = <<slot(d)[1], slot(d)[2] + 1>>
  <2>1. d + 7 \in HeatFirst..HeatLast /\ d \in Int
    BY <1>2, <1>8
  <2>2. /\ slot(d + 7) = <<slot(d + 7)[1], slot(d + 7)[2]>> /\ slot(d + 7)[1] \in 1..7 /\ slot(d + 7)[2] \in Int
        /\ (slot(d + 7)[2] - 1) * 7 + slot(d + 7)[1] = (d + 7) - HeatFirst + 1 + lead
    BY <1>5, <2>1
  <2>3. /\ slot(d)[1] \in 1..7 /\ slot(d)[2] \in Int
        /\ (slot(d)[2] - 1) * 7 + slot(d)[1] = d - HeatFirst + 1 + lead
    BY <1>5
  <2> HIDE DEF slot
  <2>4. PICK a \in 1..7, b \in Int, c \in 1..7, e \in Int :
          a = slot(d)[1] /\ b = slot(d)[2] /\ c = slot(d + 7)[1] /\ e = slot(d + 7)[2]
    BY <2>2, <2>3
  <2>5. (e - 1) * 7 + c = (b - 1) * 7 + a + 7
    <3>1. (e - 1) * 7 + c = (d + 7) - HeatFirst + 1 + lead
      BY <2>2, <2>4
    <3>2. (b - 1) * 7 + a = d - HeatFirst + 1 + lead
      BY <2>3, <2>4
    <3>3. QED
      BY <1>2, <1>6, <2>1, <2>4, <3>1, <3>2
  <2>6. a = c /\ e = b + 1
    BY <2>4, <2>5
  <2>7. QED
    BY <2>2, <2>4, <2>6
<1>9. /\ \A d \in {HeatFirst, HeatLast} \cup (HeatDays \cap HeatFirst..HeatLast) : slot(d)[1] % 7 = UTCDay(heatYear, d)
      /\ \A d \in {HeatFirst} \cup (HeatDays \cap HeatFirst..HeatLast) :
              d + 7 <= HeatLast => slot(d + 7) = <<slot(d)[1], slot(d)[2] + 1>>
  <2>1. HeatFirst \in HeatFirst..HeatLast /\ HeatLast \in HeatFirst..HeatLast
    BY <1>2
  <2> HIDE DEF slot
  <2>2. QED
    BY <1>7, <1>8, <2>1
<1>10. QED
  BY <1>3, <1>4, <1>9 DEF GridIsTrue, HeatFirst, HeatLast

(***************************************************************************)
(* The keys.                                                               *)
(***************************************************************************)
\* The cells with a day along a line of the grid, by their distance.
StopAt(a, b, dr, dc, n) == <<a + n * dr, b + n * dc>>
Stops(g, a, b, dr, dc) ==
  {n \in 1..60 : StopAt(a, b, dr, dc, n) \in Places(g) /\ At(g, StopAt(a, b, dr, dc, n)) # 0}

LEMMA NearestIs ==
  ASSUME NEW g, NEW a, NEW b, NEW dr, NEW dc
  PROVE  /\ Nearest(g, <<a, b>>, dr, dc) # 0 =>
              \E n \in Stops(g, a, b, dr, dc) :
                 /\ Nearest(g, <<a, b>>, dr, dc) = At(g, StopAt(a, b, dr, dc, n))
                 /\ \A m \in Stops(g, a, b, dr, dc) : n <= m
         /\ \A n \in Stops(g, a, b, dr, dc) :
              /\ Nearest(g, <<a, b>>, dr, dc) # 0
              /\ (\A m \in Stops(g, a, b, dr, dc) : n <= m)
                 => Nearest(g, <<a, b>>, dr, dc) = At(g, StopAt(a, b, dr, dc, n))
<1> DEFINE line == Stops(g, a, b, dr, dc)
           stop(n) == StopAt(a, b, dr, dc, n)
           near == Nearest(g, <<a, b>>, dr, dc)
<1>1. near = IF line = {} THEN 0 ELSE At(g, stop(Min(line)))
  BY DEF Nearest, Stops, StopAt
<1>2. line \in SUBSET Nat /\ \A n \in line : At(g, stop(n)) # 0
  BY DEF Stops
<1> HIDE DEF line, near, stop
<1>3. line # {} => Min(line) \in line /\ \A m \in line : Min(line) <= m
  BY <1>2, LeastNatural DEF Min
<1>4. near # 0 => \E n \in line : near = At(g, stop(n)) /\ \A m \in line : n <= m
  BY <1>1, <1>3
<1>5. ASSUME NEW n \in line
      PROVE  near # 0 /\ ((\A m \in line : n <= m) => near = At(g, stop(n)))
  <2>1. near = At(g, stop(Min(line))) /\ Min(line) \in line /\ Min(line) <= n
    BY <1>1, <1>3
  <2>2. near # 0
    BY <1>2, <2>1
  <2>3. ASSUME \A m \in line : n <= m PROVE near = At(g, stop(n))
    <3>1. n <= Min(line)
      BY <2>1, <2>3
    <3>2. \A m \in line : m \in Int
      BY <1>2
    <3>3. Min(line) \in Int /\ n \in Int
      BY <2>1, <3>2
    <3>4. n = Min(line)
      BY <2>1, <3>1, <3>3
    <3>5. QED
      BY <2>1, <3>4
  <2>4. QED
    BY <2>2, <2>3
<1>6. QED
  BY <1>4, <1>5 DEF stop, near, line

DaysApart(g) == \A q, r \in Places(g) : At(g, q) # 0 /\ At(g, q) = At(g, r) => q = r

\* An arrow there and the opposite arrow back.
LEMMA BackAgain ==
  ASSUME NEW g, NEW a \in Int, NEW b \in Int, <<a, b>> \in Places(g), At(g, <<a, b>>) # 0,
         DaysApart(g),
         NEW dr \in {-1, 0, 1}, NEW dc \in {-1, 0, 1}, NEW er, NEW ec, er = 0 - dr, ec = 0 - dc,
         Nearest(g, <<a, b>>, dr, dc) # 0
  PROVE  Nearest(g, PlaceOf(g, Nearest(g, <<a, b>>, dr, dc)), er, ec) = At(g, <<a, b>>)
<1> DEFINE there == Nearest(g, <<a, b>>, dr, dc)
<1>1. PICK n \in Stops(g, a, b, dr, dc) : /\ there = At(g, StopAt(a, b, dr, dc, n))
                                          /\ \A m \in Stops(g, a, b, dr, dc) : n <= m
  BY NearestIs
<1>2. n \in 1..60 /\ StopAt(a, b, dr, dc, n) \in Places(g) /\ At(g, StopAt(a, b, dr, dc, n)) # 0
  BY <1>1 DEF Stops
<1>3. PlaceOf(g, there) = StopAt(a, b, dr, dc, n)
  <2> HIDE DEF there
  <2>1. PlaceOf(g, there) \in Places(g) /\ At(g, PlaceOf(g, there)) = there
    BY <1>1, <1>2 DEF PlaceOf
  <2>2. QED
    BY <1>1, <1>2, <2>1 DEF DaysApart
<1> HIDE DEF there
<1>4. PICK c \in Int, e \in Int : c = a + n * dr /\ e = b + n * dc
  BY <1>2
<1>5. StopAt(a, b, dr, dc, n) = <<c, e>>
  BY <1>4 DEF StopAt
<1>6. \A m \in Int : c + m * er = a + (n - m) * dr /\ e + m * ec = b + (n - m) * dc
  BY <1>2, <1>4
<1>7. \A m \in Int : StopAt(c, e, er, ec, m) = StopAt(a, b, dr, dc, n - m)
  BY <1>6 DEF StopAt
<1>8. StopAt(a, b, dr, dc, 0) = <<a, b>> /\ n - n = 0
  BY <1>2 DEF StopAt
<1>9. StopAt(c, e, er, ec, n) = <<a, b>>
  BY <1>2, <1>7, <1>8
<1>10. n \in Stops(g, c, e, er, ec)
  BY <1>2, <1>9 DEF Stops
<1>11. ASSUME NEW m \in Stops(g, c, e, er, ec) PROVE n <= m
  <2>1. SUFFICES ASSUME ~(n <= m) PROVE FALSE
    OBVIOUS
  <2>2. m \in 1..60 /\ StopAt(c, e, er, ec, m) \in Places(g) /\ At(g, StopAt(c, e, er, ec, m)) # 0
    BY <1>11 DEF Stops
  <2>3. m \in Int /\ n - m \in 1..60
    BY <1>2, <2>1, <2>2
  <2>4. StopAt(c, e, er, ec, m) = StopAt(a, b, dr, dc, n - m)
    BY <1>7, <2>3
  <2>5. n - m \in Stops(g, a, b, dr, dc)
    BY <2>2, <2>3, <2>4 DEF Stops
  <2>6. n <= n - m
    BY <1>1, <2>5
  <2>7. QED
    BY <1>2, <2>2, <2>6
<1>12. Nearest(g, <<c, e>>, er, ec) = At(g, StopAt(c, e, er, ec, n))
  BY <1>10, <1>11, NearestIs
<1>13. QED
  BY <1>3, <1>5, <1>9, <1>12 DEF there

\* The day a week later is in the next column, or the next row.
LEMMA NextWeek ==
  ASSUME NEW lead, NEW w, GridShape(lead, w), HeatShown,
         NEW d \in HeatFirst..HeatLast, NEW e \in HeatFirst..HeatLast, e = d + 7
  PROVE  LET p == PlaceOf(Grid, d)
             q == PlaceOf(Grid, e)
         IN  /\ p = <<p[1], p[2]>> /\ q = <<q[1], q[2]>> /\ p[1] \in Int /\ p[2] \in Int
             /\ q[1] = p[1] + (IF narrow THEN 1 ELSE 0) /\ q[2] = p[2] + (IF narrow THEN 0 ELSE 1)
<1>1. /\ HeatFirst \in Int /\ lead \in Int /\ w \in Nat \ {0} /\ narrow \in BOOLEAN /\ d \in Int
      /\ Places(Grid) = IF narrow THEN (1..w) \X (1..7) ELSE (1..7) \X (1..w)
  <2>1. HeatFirst \in Int /\ narrow \in BOOLEAN
    BY HeatSpan DEF HeatShown
  <2>2. lead \in 0..6 /\ w \in Nat \ {0}
        /\ Places(Grid) = IF narrow THEN (1..w) \X (1..7) ELSE (1..7) \X (1..w)
    BY DEF GridShape
  <2>3. QED
    BY <2>1, <2>2
<1>2. PICK p \in Places(Grid) : p = PlaceOf(Grid, d) /\ HeatIndex(p) = d - HeatFirst + 1 + lead
  BY DaysHaveCells
<1>3. PICK q \in Places(Grid) : q = PlaceOf(Grid, e) /\ HeatIndex(q) = e - HeatFirst + 1 + lead
  BY DaysHaveCells
<1>4. HeatIndex(q) = HeatIndex(p) + 7
  BY <1>1, <1>2, <1>3
<1>5. CASE narrow
  <2>1. p = <<p[1], p[2]>> /\ q = <<q[1], q[2]>>
    BY <1>1, <1>5
  <2>2. PICK a \in 1..w, b \in 1..7, c \in 1..w, f \in 1..7 : a = p[1] /\ b = p[2] /\ c = q[1] /\ f = q[2]
    BY <1>1, <1>5
  <2>3. (c - 1) * 7 + f = (a - 1) * 7 + b + 7
    BY <1>4, <1>5, <2>2 DEF HeatIndex
  <2>4. c = a + 1 /\ f = b
    BY <1>1, <2>3
  <2>5. QED
    BY <1>2, <1>3, <1>5, <2>1, <2>2, <2>4
<1>6. CASE ~narrow
  <2>1. p = <<p[1], p[2]>> /\ q = <<q[1], q[2]>>
    BY <1>1, <1>6
  <2>2. PICK a \in 1..w, b \in 1..7, c \in 1..w, f \in 1..7 : a = p[2] /\ b = p[1] /\ c = q[2] /\ f = q[1]
    BY <1>1, <1>6
  <2>3. (c - 1) * 7 + f = (a - 1) * 7 + b + 7
    BY <1>4, <1>6, <2>2 DEF HeatIndex
  <2>4. c = a + 1 /\ f = b
    BY <1>1, <2>3
  <2>5. QED
    BY <1>2, <1>3, <1>6, <2>1, <2>2, <2>4
<1>7. QED
  BY <1>1, <1>5, <1>6

\* A line of the grid with a neighbour on it leads somewhere.
LEMMA NeighbourIsNear ==
  ASSUME NEW g, NEW a \in Int, NEW b \in Int, NEW dr \in {-1, 0, 1}, NEW dc \in {-1, 0, 1},
         <<a + dr, b + dc>> \in Places(g), At(g, <<a + dr, b + dc>>) # 0
  PROVE  Nearest(g, <<a, b>>, dr, dc) # 0
<1>1. StopAt(a, b, dr, dc, 1) = <<a + dr, b + dc>>
  BY DEF StopAt
<1>2. 1 \in Stops(g, a, b, dr, dc)
  BY <1>1 DEF Stops
<1>3. QED
  BY <1>2, NearestIs

\* The arrow keys are each other's inverse, and one of them always leads somewhere.
LEMMA ArrowsLead ==
  ASSUME HeatShown, NEW d \in HeatFirst..HeatLast
  PROVE  LET p == PlaceOf(Grid, d)
             back == [ArrowRight |-> "ArrowLeft", ArrowLeft |-> "ArrowRight",
                      ArrowDown |-> "ArrowUp", ArrowUp |-> "ArrowDown"]
             To(k) == KeyTarget(Grid, p, k)
         IN  /\ \A k \in Arrows : To(k) # 0 => KeyTarget(Grid, PlaceOf(Grid, To(k)), back[k]) = d
             /\ \E k \in Arrows : To(k) # 0
<1> DEFINE p == PlaceOf(Grid, d)
           back == [ArrowRight |-> "ArrowLeft", ArrowLeft |-> "ArrowRight",
                    ArrowDown |-> "ArrowUp", ArrowUp |-> "ArrowDown"]
           To(k) == KeyTarget(Grid, p, k)
<1>1. PICK lead, w : GridShape(lead, w)
  BY GridIs
<1>2. /\ HeatFirst \in 1..336 /\ HeatLast \in 28..366 /\ HeatLast - HeatFirst + 1 \in 28..366 /\ narrow \in BOOLEAN
  BY HeatSpan DEF HeatShown
<1>3. /\ \A q, r \in Places(Grid) : At(Grid, q) # 0 /\ At(Grid, q) = At(Grid, r) => q = r
      /\ \A e \in HeatFirst..HeatLast : PlaceOf(Grid, e) \in Places(Grid) /\ At(Grid, PlaceOf(Grid, e)) = e
  BY <1>1, DaysHaveCells
<1>4. \A q \in Places(Grid) : q = <<q[1], q[2]>> /\ q[1] \in Int /\ q[2] \in Int
  <2>1. \A q \in Places(Grid) : q = <<q[1], q[2]>> /\ q[1] \in Nat \ {0} /\ q[2] \in Nat \ {0}
    BY <1>1, <1>2, PlacesApart
  <2>2. QED
    BY <2>1
<1>5. PICK a \in Int, b \in Int : p = <<a, b>>
  BY <1>3, <1>4
<1>6. <<a, b>> \in Places(Grid) /\ At(Grid, <<a, b>>) = d /\ d # 0
  BY <1>2, <1>3, <1>5
<1>7. /\ \A q : KeyTarget(Grid, q, "ArrowRight") = Nearest(Grid, q, 0, 1)
      /\ \A q : KeyTarget(Grid, q, "ArrowLeft") = Nearest(Grid, q, 0, -1)
      /\ \A q : KeyTarget(Grid, q, "ArrowDown") = Nearest(Grid, q, 1, 0)
      /\ \A q : KeyTarget(Grid, q, "ArrowUp") = Nearest(Grid, q, -1, 0)
  BY DEF KeyTarget
<1> HIDE DEF p
<1>8. ASSUME NEW dr \in {-1, 0, 1}, NEW dc \in {-1, 0, 1}, NEW er, NEW ec, er = 0 - dr, ec = 0 - dc,
             Nearest(Grid, p, dr, dc) # 0
      PROVE  Nearest(Grid, PlaceOf(Grid, Nearest(Grid, p, dr, dc)), er, ec) = d
  <2>1. Nearest(Grid, <<a, b>>, dr, dc) # 0 /\ At(Grid, <<a, b>>) # 0
    BY <1>5, <1>6, <1>8
  <2>2. dr \in {-1, 0, 1} /\ dc \in {-1, 0, 1} /\ er = 0 - dr /\ ec = 0 - dc
    BY <1>8
  <2>3. \A q, r \in Places(Grid) : At(Grid, q) # 0 /\ At(Grid, q) = At(Grid, r) => q = r
    BY <1>3
  <2>4. PICK g : g = Grid
    OBVIOUS
  <2>5. /\ Nearest(g, <<a, b>>, dr, dc) # 0 /\ At(g, <<a, b>>) # 0 /\ <<a, b>> \in Places(g)
        /\ DaysApart(g)
    BY <1>6, <2>1, <2>3, <2>4 DEF DaysApart
  <2>6. Nearest(g, PlaceOf(g, Nearest(g, <<a, b>>, dr, dc)), er, ec) = At(g, <<a, b>>)
    BY <2>2, <2>5, BackAgain
  <2>7. QED
    BY <1>5, <1>6, <2>4, <2>6
<1>9. ASSUME NEW k \in Arrows, To(k) # 0 PROVE KeyTarget(Grid, PlaceOf(Grid, To(k)), back[k]) = d
  <2>1. CASE k = "ArrowRight"
    <3>1. 0 = 0 - 0 /\ -1 = 0 - 1
      OBVIOUS
    <3>2. Nearest(Grid, PlaceOf(Grid, Nearest(Grid, p, 0, 1)), 0, -1) = d
      BY <1>7, <1>8, <1>9, <2>1, <3>1
    <3>3. QED
      BY <1>7, <2>1, <3>2
  <2>2. CASE k = "ArrowLeft"
    <3>1. 0 = 0 - 0 /\ 1 = 0 - (-1)
      OBVIOUS
    <3>2. Nearest(Grid, PlaceOf(Grid, Nearest(Grid, p, 0, -1)), 0, 1) = d
      BY <1>7, <1>8, <1>9, <2>2, <3>1
    <3>3. QED
      BY <1>7, <2>2, <3>2
  <2>3. CASE k = "ArrowDown"
    <3>1. 0 = 0 - 0 /\ -1 = 0 - 1
      OBVIOUS
    <3>2. Nearest(Grid, PlaceOf(Grid, Nearest(Grid, p, 1, 0)), -1, 0) = d
      BY <1>7, <1>8, <1>9, <2>3, <3>1
    <3>3. QED
      BY <1>7, <2>3, <3>2
  <2>4. CASE k = "ArrowUp"
    <3>1. 0 = 0 - 0 /\ 1 = 0 - (-1)
      OBVIOUS
    <3>2. Nearest(Grid, PlaceOf(Grid, Nearest(Grid, p, -1, 0)), 1, 0) = d
      BY <1>7, <1>8, <1>9, <2>4, <3>1
    <3>3. QED
      BY <1>7, <2>4, <3>2
  <2>5. QED
    BY <2>1, <2>2, <2>3, <2>4 DEF Arrows
<1>10. \E k \in Arrows : To(k) # 0
  <2>1. CASE d + 7 <= HeatLast
    <3>1. PICK e \in HeatFirst..HeatLast : e = d + 7
      BY <1>2, <2>1
    <3>2. PICK q \in Places(Grid) : q = PlaceOf(Grid, e) /\ At(Grid, q) = e /\ e # 0
      BY <1>2, <1>3
    <3>3. q = <<q[1], q[2]>> /\ q[1] = a + (IF narrow THEN 1 ELSE 0) /\ q[2] = b + (IF narrow THEN 0 ELSE 1)
      BY <1>1, <1>5, <3>1, <3>2, NextWeek DEF p
    <3>4. CASE narrow
      <4>1. <<a + 1, b + 0>> = q
        BY <3>3, <3>4
      <4>2. Nearest(Grid, <<a, b>>, 1, 0) # 0
        BY <3>2, <4>1, NeighbourIsNear
      <4>3. QED
        BY <1>5, <1>7, <4>2 DEF Arrows
    <3>5. CASE ~narrow
      <4>1. <<a + 0, b + 1>> = q
        BY <3>3, <3>5
      <4>2. Nearest(Grid, <<a, b>>, 0, 1) # 0
        BY <3>2, <4>1, NeighbourIsNear
      <4>3. QED
        BY <1>5, <1>7, <4>2 DEF Arrows
    <3>6. QED
      BY <3>4, <3>5
  <2>2. CASE ~(d + 7 <= HeatLast)
    <3>1. PICK e \in HeatFirst..HeatLast : d = e + 7
      <4>1. d - 7 \in HeatFirst..HeatLast /\ d = (d - 7) + 7
        BY <1>2, <2>2
      <4>2. QED
        BY <4>1
    <3>2. PICK q \in Places(Grid) : q = PlaceOf(Grid, e) /\ At(Grid, q) = e /\ e # 0
      BY <1>2, <1>3
    <3>3. /\ q = <<q[1], q[2]>> /\ q[1] \in Int /\ q[2] \in Int
          /\ a = q[1] + (IF narrow THEN 1 ELSE 0) /\ b = q[2] + (IF narrow THEN 0 ELSE 1)
      BY <1>1, <1>5, <3>1, <3>2, NextWeek DEF p
    <3>4. CASE narrow
      <4>1. <<a + (-1), b + 0>> = q
        BY <3>3, <3>4
      <4>2. Nearest(Grid, <<a, b>>, -1, 0) # 0
        BY <3>2, <4>1, NeighbourIsNear
      <4>3. QED
        BY <1>5, <1>7, <4>2 DEF Arrows
    <3>5. CASE ~narrow
      <4>1. <<a + 0, b + (-1)>> = q
        BY <3>3, <3>5
      <4>2. Nearest(Grid, <<a, b>>, 0, -1) # 0
        BY <3>2, <4>1, NeighbourIsNear
      <4>3. QED
        BY <1>5, <1>7, <4>2 DEF Arrows
    <3>6. QED
      BY <3>4, <3>5
  <2>3. QED
    BY <2>1, <2>2
<1>11. QED
  BY <1>9, <1>10 DEF p

\* A key leads to a day on show, or nowhere.
LEMMA KeysStay ==
  ASSUME HeatShown, NEW d \in HeatFirst..HeatLast, NEW key \in HeatKeys,
         KeyTarget(Grid, PlaceOf(Grid, d), key) # 0
  PROVE  KeyTarget(Grid, PlaceOf(Grid, d), key) \in HeatFirst..HeatLast
<1> DEFINE p == PlaceOf(Grid, d)
           to == KeyTarget(Grid, p, key)
           day(q) == q \in Places(Grid) /\ At(Grid, q) # 0
<1>1. PICK lead, w : GridShape(lead, w)
  BY GridIs
<1>2. /\ HeatFirst \in 1..336 /\ HeatLast \in 28..366 /\ narrow \in BOOLEAN
  BY HeatSpan DEF HeatShown
<1>3. /\ p \in Places(Grid) /\ At(Grid, p) = d /\ d # 0
      /\ \A q \in Places(Grid) : At(Grid, q) # 0 => At(Grid, q) \in HeatFirst..HeatLast
  <2>1. /\ PlaceOf(Grid, d) \in Places(Grid) /\ At(Grid, PlaceOf(Grid, d)) = d
        /\ \A q \in Places(Grid) : At(Grid, q) # 0 => At(Grid, q) \in HeatFirst..HeatLast
    BY <1>1, DaysHaveCells
  <2>2. QED
    BY <1>2, <2>1
<1>4. \E R, C \in Nat : (\E a, b : p = <<a, b>>) /\ Places(Grid) = (1..R) \X (1..C)
  <2>1. w \in Nat /\ 7 \in Nat /\ Places(Grid) = IF narrow THEN (1..w) \X (1..7) ELSE (1..7) \X (1..w)
    BY <1>1 DEF GridShape
  <2>2. p = <<p[1], p[2]>>
    <3>1. \A q \in Places(Grid) : q = <<q[1], q[2]>>
      BY <2>1
    <3> HIDE DEF p
    <3>2. QED
      BY <1>3, <3>1
  <2> HIDE DEF p
  <2>3. PICK R \in Nat, C \in Nat : Places(Grid) = (1..R) \X (1..C)
    <3>1. CASE narrow
      BY <2>1, <3>1
    <3>2. CASE ~narrow
      BY <2>1, <3>2
    <3>3. QED
      BY <1>2, <3>1, <3>2
  <2>4. \E a, b : p = <<a, b>>
    BY <2>2
  <2>5. QED
    BY <2>3, <2>4
<1> HIDE DEF p
<1>5. PICK R \in Nat, C \in Nat : (\E a, b : p = <<a, b>>) /\ Places(Grid) = (1..R) \X (1..C)
  BY <1>4
<1>6. PICK a, b : p = <<a, b>>
  BY <1>5
<1>7. a \in 1..R /\ b \in 1..C /\ day(<<a, b>>)
  BY <1>3, <1>5, <1>6
<1>8. SUFFICES ASSUME to # 0 PROVE \E q : day(q) /\ to = At(Grid, q)
  BY <1>3 DEF p
<1>9. ASSUME NEW dr, NEW dc, to = Nearest(Grid, p, dr, dc) PROVE \E q : day(q) /\ to = At(Grid, q)
  <2>1. PICK n \in Stops(Grid, a, b, dr, dc) : Nearest(Grid, <<a, b>>, dr, dc) = At(Grid, StopAt(a, b, dr, dc, n))
    BY <1>5, <1>6, <1>8, <1>9, NearestIs
  <2>2. QED
    BY <1>5, <1>6, <1>9, <2>1 DEF Stops
<1>10. CASE key \in Arrows
  <2>1. \E dr, dc : to = Nearest(Grid, p, dr, dc)
    BY <1>10 DEF KeyTarget, Arrows
  <2> HIDE DEF to
  <2>2. QED
    BY <1>9, <2>1
<1>11. CASE key \in {"Home", "End"}
  <2>1. DOMAIN Grid[a] = 1..C
    <3>1. DOMAIN Grid[a] = DOMAIN Grid[1] /\ Places(Grid) = (DOMAIN Grid) \X (DOMAIN Grid[1])
      BY <1>1, <1>5, <1>6, <1>7 DEF GridShape, Places
    <3>2. a \in DOMAIN Grid /\ b \in DOMAIN Grid[1]
      BY <1>7, <3>1
    <3>3. \A c : c \in DOMAIN Grid[1] <=> <<a, c>> \in Places(Grid)
      BY <3>1, <3>2
    <3>4. \A c : c \in 1..C <=> <<a, c>> \in Places(Grid)
      BY <1>5, <1>6, <1>7
    <3>5. QED
      BY <3>1, <3>3, <3>4
  <2>2. Row(Grid, p) = {c \in 1..C : Grid[a][c] # 0}
    BY <1>5, <1>6, <2>1 DEF Row
  <2>3. b \in Row(Grid, p) /\ Row(Grid, p) \in SUBSET (0..C) /\ Row(Grid, p) \in SUBSET Nat
    BY <1>5, <1>6, <1>7, <2>2 DEF At
  <2>4. Min(Row(Grid, p)) \in Row(Grid, p)
    BY <2>3, LeastNatural DEF Min
  <2>5. Max(Row(Grid, p)) \in Row(Grid, p)
    <3>1. \E x \in Row(Grid, p) : \A y \in Row(Grid, p) : y <= x
      BY <1>5, <1>6, <2>3, GreatestNatural
    <3>2. \E x \in Row(Grid, p) : \A y \in Row(Grid, p) : x >= y
      BY <2>3, <3>1
    <3>3. QED
      BY <3>2 DEF Max
  <2>6. \A c \in Row(Grid, p) : day(<<a, c>>) /\ At(Grid, <<a, c>>) = Grid[a][c]
    BY <1>5, <1>6, <1>7, <2>2 DEF At
  <2>7. \E c \in Row(Grid, p) : to = Grid[a][c]
    BY <1>5, <1>6, <1>11, <2>4, <2>5 DEF KeyTarget
  <2>8. QED
    BY <2>6, <2>7
<1>12. CASE key = "CtrlHome"
  <2> DEFINE rows == {r \in 1..R : \E c \in 1..C : day(<<r, c>>)}
  <2>1. PICK r \in rows : \A x \in rows : r <= x
    <3>1. rows \in SUBSET Nat /\ a \in rows
      BY <1>5, <1>6, <1>7
    <3> HIDE DEF rows
    <3>2. QED
      BY <3>1, LeastNatural
  <2> DEFINE cols == {c \in 1..C : day(<<r, c>>)}
  <2>2. PICK c \in cols : \A x \in cols : c <= x
    <3>1. \E c \in 1..C : day(<<r, c>>)
      BY <2>1
    <3>2. cols \in SUBSET Nat /\ cols # {}
      BY <1>5, <1>6, <3>1
    <3> HIDE DEF cols
    <3>3. QED
      BY <3>2, LeastNatural
  <2>3. ASSUME NEW q \in Places(Grid), At(Grid, q) # 0 PROVE r < q[1] \/ (r = q[1] /\ c <= q[2])
    <3>1. q = <<q[1], q[2]>> /\ q[1] \in 1..R /\ q[2] \in 1..C /\ r \in 1..R
      BY <1>5
    <3>2. r <= q[1]
      BY <2>1, <2>3, <3>1
    <3>3. r = q[1] => c <= q[2]
      BY <2>2, <2>3, <3>1
    <3>4. QED
      BY <3>1, <3>2, <3>3
  <2>4. day(<<r, c>>) /\ r = <<r, c>>[1] /\ c = <<r, c>>[2]
    BY <2>2
  <2>5. day(FirstPlace(Grid))
    BY <2>3, <2>4 DEF FirstPlace
  <2>6. to = At(Grid, FirstPlace(Grid))
    BY <1>12 DEF KeyTarget
  <2>7. QED
    BY <2>5, <2>6
<1>13. CASE key = "CtrlEnd"
  <2> DEFINE rows == {r \in 1..R : \E c \in 1..C : day(<<r, c>>)}
  <2>1. PICK r \in rows : \A x \in rows : x <= r
    <3>1. rows \in SUBSET (0..R) /\ a \in rows
      BY <1>5, <1>6, <1>7
    <3>2. QED
      BY <1>5, <1>6, <3>1, GreatestNatural
  <2> DEFINE cols == {c \in 1..C : day(<<r, c>>)}
  <2>2. PICK c \in cols : \A x \in cols : x <= c
    <3>1. \E c \in 1..C : day(<<r, c>>)
      BY <2>1
    <3>2. cols \in SUBSET (0..C) /\ cols # {}
      BY <1>5, <1>6, <3>1
    <3> HIDE DEF cols
    <3>3. QED
      BY <1>5, <1>6, <3>2, GreatestNatural
  <2>3. ASSUME NEW q \in Places(Grid), At(Grid, q) # 0 PROVE r > q[1] \/ (r = q[1] /\ c >= q[2])
    <3>1. q = <<q[1], q[2]>> /\ q[1] \in 1..R /\ q[2] \in 1..C /\ r \in 1..R /\ c \in Int
      BY <1>5
    <3>2. q[1] <= r
      BY <2>1, <2>3, <3>1
    <3>3. r = q[1] => q[2] <= c
      BY <2>2, <2>3, <3>1
    <3>4. QED
      BY <3>1, <3>2, <3>3
  <2>4. day(<<r, c>>) /\ r = <<r, c>>[1] /\ c = <<r, c>>[2]
    BY <2>2
  <2>5. day(LastPlace(Grid))
    BY <2>3, <2>4 DEF LastPlace
  <2>6. to = At(Grid, LastPlace(Grid))
    BY <1>13 DEF KeyTarget
  <2>7. QED
    BY <2>5, <2>6
<1>14. QED
  BY <1>10, <1>11, <1>12, <1>13 DEF HeatKeys

(***************************************************************************)
(* The tab stop.                                                           *)
(***************************************************************************)
LEMMA TabStop ==
  ASSUME HeatShown
  PROVE  InGrid(ActiveDate) /\ ActiveDate \in HeatFirst..HeatLast
<1>1. PICK lead, w : GridShape(lead, w)
  BY GridIs
<1>2. /\ HeatFirst \in 1..336 /\ HeatLast - HeatFirst + 1 \in 28..366 /\ HeatLast \in 28..366
  BY HeatSpan
<1>3. /\ lead \in 0..6 /\ w \in Nat \ {0} /\ lead + (HeatLast - HeatFirst + 1) <= 7 * w /\ DOMAIN Cells = 1..(7 * w)
      /\ \A i \in 1..(7 * w) :
            Cells[i] = IF i - lead \in 1..(HeatLast - HeatFirst + 1) THEN HeatFirst + i - lead - 1 ELSE 0
  BY <1>1 DEF GridShape
<1> DEFINE first(i) == i \in DOMAIN Cells /\ Cells[i] # 0 /\ \A j \in 1..(i - 1) : Cells[j] = 0
<1>4. first(lead + 1)
  <2>1. lead + 1 \in 1..(7 * w) /\ (lead + 1) - lead \in 1..(HeatLast - HeatFirst + 1)
    BY <1>2, <1>3
  <2>2. Cells[lead + 1] # 0
    BY <1>2, <1>3, <2>1
  <2>3. \A j \in 1..(lead + 1 - 1) : Cells[j] = 0
    BY <1>2, <1>3, <2>1
  <2>4. QED
    BY <1>3, <2>1, <2>2, <2>3
<1>5. InGrid(DefaultFocus)
  <2> DEFINE i == CHOOSE i \in DOMAIN Cells : Cells[i] # 0 /\ \A j \in 1..(i - 1) : Cells[j] = 0
  <2>1. i \in DOMAIN Cells /\ Cells[i] # 0
    BY <1>4
  <2>2. InGrid(Cells[i])
    BY <2>1 DEF InGrid
  <2>3. QED
    BY <2>2 DEF DefaultFocus
<1>6. InGrid(ActiveDate)
  BY <1>5 DEF ActiveDate, OnShow
<1>7. QED
  BY <1>1, <1>6, DaysHaveCells

LEMMA HeatStops == HeatInv => OneTabStop /\ HeatFocusKept
<1> SUFFICES ASSUME HeatInv PROVE OneTabStop /\ HeatFocusKept
  OBVIOUS
<1>1. HeatShown /\ CellIsFocused /\ SheetHasItsCell
  BY DEF HeatInv
<1>2. InGrid(ActiveDate) /\ ActiveDate \in HeatFirst..HeatLast
  BY <1>1, TabStop
<1>3. heatFocus = "cell" => focusedDate = <<heatYear, ActiveDate>>
  BY <1>1 DEF CellIsFocused, ActiveDate, OnShow
<1>4. OneTabStop
  BY <1>2, <1>3 DEF OneTabStop
<1>5. HeatFocusKept
  BY <1>1, <1>2, ArrowsLead DEF HeatFocusKept, SheetHasItsCell
<1>6. QED
  BY <1>4, <1>5

(***************************************************************************)
(* The colours.                                                            *)
(***************************************************************************)
LEMMA QuotientGrows ==
  ASSUME NEW x \in Int, NEW y \in Int, x <= y, NEW n \in Nat \ {0}
  PROVE  x \div n <= y \div n /\ x \div n \in Int
<1>1. PICK a \in Int, r \in Int : a = x \div n /\ r = x % n
  OBVIOUS
<1>2. PICK b \in Int, s \in Int : b = y \div n /\ s = y % n
  OBVIOUS
<1>3. x = n * a + r /\ 0 <= r /\ r < n
  BY <1>1
<1>4. y = n * b + s /\ 0 <= s /\ s < n
  BY <1>2
<1>5. a <= b
  <2>1. SUFFICES ASSUME a >= b + 1 PROVE FALSE
    OBVIOUS
  <2>2. n * a >= n * (b + 1)
    BY <2>1
  <2>3. n * (b + 1) = n * b + n
    OBVIOUS
  <2>4. n * a \in Int /\ n * b \in Int
    OBVIOUS
  <2>5. QED
    BY <1>3, <1>4, <2>2, <2>3, <2>4
<1>6. QED
  BY <1>1, <1>2, <1>5

LEMMA TopQuotient ==
  ASSUME NEW n \in Nat \ {0}
  PROVE  (4 * n + n - 1) \div n = 4
<1>1. PICK a \in Int, r \in Int : a = (4 * n + n - 1) \div n /\ r = (4 * n + n - 1) % n
  OBVIOUS
<1>2. 4 * n + n - 1 = n * a + r /\ 0 <= r /\ r < n
  BY <1>1
<1>3. a <= 4
  <2>1. SUFFICES ASSUME a >= 5 PROVE FALSE
    OBVIOUS
  <2>2. n * a >= n * 5
    BY <2>1
  <2>3. QED
    BY <1>2, <2>2
<1>4. a >= 4
  <2>1. SUFFICES ASSUME a <= 3 PROVE FALSE
    OBVIOUS
  <2>2. n * a <= n * 3
    BY <2>1
  <2>3. QED
    BY <1>2, <2>2
<1>5. QED
  BY <1>1, <1>3, <1>4

LEMMA Clamp ==
  ASSUME NEW b \in Int
  PROVE  /\ Max({1, Min({4, b})}) = IF b < 1 THEN 1 ELSE IF b > 4 THEN 4 ELSE b
<1>1. Min({4, b}) = IF b > 4 THEN 4 ELSE b
  <2>1. \E x \in {4, b} : \A y \in {4, b} : x =< y
    OBVIOUS
  <2>2. Min({4, b}) \in {4, b} /\ \A y \in {4, b} : Min({4, b}) =< y
    BY <2>1 DEF Min
  <2>3. QED
    BY <2>2
<1>2. PICK m \in Int : m = Min({4, b})
  BY <1>1
<1>3. Max({1, m}) = IF m < 1 THEN 1 ELSE m
  <2>1. \E x \in {1, m} : \A y \in {1, m} : x >= y
    OBVIOUS
  <2>2. Max({1, m}) \in {1, m} /\ \A y \in {1, m} : Max({1, m}) >= y
    BY <2>1 DEF Max
  <2>3. QED
    BY <2>2
<1>4. QED
  BY <1>1, <1>2, <1>3

LEMMA HeatColours == HeatInv => ColoursRankDays
<1> SUFFICES ASSUME HeatInv PROVE ColoursRankDays
  OBVIOUS
<1> DEFINE n == Cardinality(Spending)
           upTo(t) == {d \in Spending : heatData[d] <= t}
           rank(t) == Cardinality(upTo(t))
           bucket(t) == (4 * rank(t) + n - 1) \div n
<1>1. /\ Spending \subseteq HeatDays /\ Spending \subseteq Nat
      /\ \A d \in Spending : heatData[d] \in Int /\ heatData[d] > 0
  <2>1. HeatDays \subseteq Nat /\ HeatTotals \subseteq Int
    BY HeatAssumption
  <2>2. DOMAIN heatData \subseteq HeatDays /\ \A d \in DOMAIN heatData : heatData[d] \in HeatTotals
    BY DEF HeatInv, HeatShapes
  <2>3. Spending \subseteq DOMAIN heatData /\ \A d \in Spending : heatData[d] > 0
    BY DEF Spending
  <2>4. QED
    BY <2>1, <2>2, <2>3
<1>2. IsFiniteSet(Spending) /\ n \in Nat
  <2>1. IsFiniteSet(1..365)
    <3>1. 1 \in Int /\ 365 \in Int
      OBVIOUS
    <3>2. QED
      BY <3>1, FS_Interval, ZenonT(30)
  <2>2. Spending \subseteq 1..365
    BY <1>1, HeatAssumption
  <2>3. QED
    BY <2>1, <2>2, FS_Subset, FS_CardinalityType
<1>3. \A t : upTo(t) \subseteq Spending /\ IsFiniteSet(upTo(t)) /\ rank(t) \in Nat
  BY <1>2, FS_Subset, FS_CardinalityType
<1>4. ASSUME NEW d \in Spending
      PROVE  /\ n \in Nat \ {0} /\ bucket(heatData[d]) \in Int
             /\ Intensity(heatData[d]) = Max({1, Min({4, bucket(heatData[d])})})
  <2>1. n # 0
    BY <1>2, FS_EmptySet
  <2>2. 4 * rank(heatData[d]) + n - 1 \in Int
    <3>1. rank(heatData[d]) \in Nat
      BY <1>3
    <3> HIDE DEF rank, n
    <3>2. QED
      BY <1>2, <3>1
  <2>3. bucket(heatData[d]) \in Int
    <3> HIDE DEF rank, n
    <3>1. n \in Nat \ {0}
      BY <1>2, <2>1
    <3>2. QED
      BY <2>2, <3>1, QuotientGrows
  <2>4. ~(heatData[d] <= 0)
    BY <1>1
  <2>5. Intensity(heatData[d]) = Max({1, Min({4, bucket(heatData[d])})})
    BY <2>1, <2>4 DEF Intensity
  <2>6. QED
    BY <1>2, <2>1, <2>3, <2>5
<1>5. ASSUME NEW d \in Spending, NEW e \in Spending, heatData[d] <= heatData[e]
      PROVE  Intensity(heatData[d]) <= Intensity(heatData[e])
  <2>1. upTo(heatData[d]) \subseteq upTo(heatData[e])
    <3> SUFFICES ASSUME NEW f \in Spending, heatData[f] <= heatData[d] PROVE heatData[f] <= heatData[e]
      OBVIOUS
    <3>1. heatData[d] \in Int /\ heatData[e] \in Int /\ heatData[f] \in Int
      BY <1>1
    <3>2. QED
      BY <1>5, <3>1
  <2>2. rank(heatData[d]) <= rank(heatData[e])
    BY <1>3, <2>1, FS_Subset
  <2>3. /\ n \in Nat \ {0} /\ bucket(heatData[d]) \in Int /\ bucket(heatData[e]) \in Int
        /\ Intensity(heatData[d]) = Max({1, Min({4, bucket(heatData[d])})})
        /\ Intensity(heatData[e]) = Max({1, Min({4, bucket(heatData[e])})})
    BY <1>4
  <2>4. rank(heatData[d]) \in Nat /\ rank(heatData[e]) \in Nat
    BY <1>3
  <2> HIDE DEF rank, n
  <2>5. PICK x \in Int, y \in Int : x = 4 * rank(heatData[d]) + n - 1 /\ y = 4 * rank(heatData[e]) + n - 1 /\ x <= y
    BY <2>2, <2>3, <2>4
  <2>6. bucket(heatData[d]) <= bucket(heatData[e])
    BY <2>3, <2>5, QuotientGrows
  <2> HIDE DEF bucket
  <2>7. PICK u \in Int, v \in Int : u = bucket(heatData[d]) /\ v = bucket(heatData[e]) /\ u <= v
    BY <2>3, <2>6
  <2>8. /\ Max({1, Min({4, u})}) = IF u < 1 THEN 1 ELSE IF u > 4 THEN 4 ELSE u
        /\ Max({1, Min({4, v})}) = IF v < 1 THEN 1 ELSE IF v > 4 THEN 4 ELSE v
    BY Clamp
  <2>9. QED
    BY <2>3, <2>7, <2>8
<1>6. ASSUME NEW d \in Spending, \A e \in Spending : heatData[e] <= heatData[d]
      PROVE  Intensity(heatData[d]) = 4
  <2>1. rank(heatData[d]) = n
    BY <1>6
  <2>2. /\ n \in Nat \ {0} /\ Intensity(heatData[d]) = Max({1, Min({4, bucket(heatData[d])})})
    BY <1>4
  <2> HIDE DEF rank, n
  <2>3. bucket(heatData[d]) = 4
    BY <2>1, <2>2, TopQuotient
  <2> HIDE DEF bucket
  <2>4. Max({1, Min({4, 4})}) = 4
    BY Clamp
  <2>5. QED
    BY <2>2, <2>3, <2>4
<1>7. ASSUME HeaviestDay[1] # 0
      PROVE  /\ InGrid(HeaviestDay[1])
             /\ \A d \in Spending : InGrid(d) => heatData[d] <= heatData[HeaviestDay[1]]
  <2> DEFINE shown == {d \in Spending : InGrid(d)}
             top == {d \in shown : \A e \in shown : heatData[e] <= heatData[d]}
             totals == {heatData[d] : d \in shown}
  <2>1. shown # {} /\ HeaviestDay[1] = Min(top)
    BY <1>7 DEF HeaviestDay
  <2>2. shown \subseteq Spending /\ IsFiniteSet(shown)
    BY <1>2, FS_Subset
  <2>3. \A d \in shown : heatData[d] \in Nat
    BY <1>1, <2>2
  <2> HIDE DEF shown
  <2>4. totals \in SUBSET Nat /\ totals # {}
    BY <2>1, <2>3
  <2>5. IsFiniteSet(totals)
    <3> DEFINE f == [d \in shown |-> heatData[d]]
    <3>1. f \in Surjection(shown, totals)
      BY DEF Surjection
    <3> HIDE DEF f, totals
    <3>2. QED
      BY <2>2, <3>1, FS_Surjection
  <2>6. PICK x \in totals : \A y \in totals : x >= y
    BY <2>4, <2>5, GreatestOfFinite
  <2>7. top # {} /\ top \in SUBSET Nat
    <3>1. PICK d \in shown : x = heatData[d]
      OBVIOUS
    <3>2. \A e \in shown : heatData[e] <= heatData[d]
      BY <2>4, <2>6, <3>1
    <3>3. QED
      BY <1>1, <2>2, <3>2
  <2>8. Min(top) \in top
    <3> HIDE DEF top
    <3>1. QED
      BY <2>7, LeastNatural DEF Min
  <2>9. QED
    BY <2>1, <2>8 DEF shown
<1>8. QED
  BY <1>5, <1>6, <1>7 DEF ColoursRankDays

(***************************************************************************)
(* The steps.                                                              *)
(***************************************************************************)
\* What the grid on show is follows from the year, the month and the viewport.
LEMMA GridStays ==
  ASSUME UNCHANGED <<heatYear, narrow, monthFor>>
  PROVE  (\A d : InGrid(d)' <=> InGrid(d)) /\ Cells' = Cells /\ Grid' = Grid
BY DEF InGrid, Cells, Grid, Month

LEMMA InGridIs ==
  ASSUME HeatShown, NEW d, InGrid(d)
  PROVE  d \in HeatFirst..HeatLast /\ d \in 1..366
<1>1. PICK lead, w : GridShape(lead, w)
  BY GridIs
<1>2. d \in HeatFirst..HeatLast
  BY <1>1, DaysHaveCells
<1>3. HeatFirst \in 1..336 /\ HeatLast \in 28..366
  BY HeatSpan
<1>4. QED
  BY <1>2, <1>3

LEMMA HeatStarts == HeatInit => HeatInv
<1> SUFFICES ASSUME HeatInit PROVE HeatInv
  OBVIOUS
<1>1. heatYear \in HeatYears /\ narrow \in BOOLEAN /\ monthFor = <<heatYear, DefaultMonth(heatYear)>>
  BY DEF HeatInit
<1>2. HeatShown
  BY <1>1, DefaultMonthIs DEF HeatShown
<1>3. /\ focusedDate = <<0, 0>> /\ openDay = ShutDay /\ openedFrom = 0 /\ heatFocus = "page" /\ heatNotes = {}
  BY DEF HeatInit
<1>4. DOMAIN heatData \subseteq HeatDays /\ \A d \in DOMAIN heatData : heatData[d] \in HeatTotals
  <2>1. CASE heatData = <<>>
    BY <2>1
  <2>2. CASE heatData = [d \in HeatDays |-> CHOOSE t \in HeatTotals : t > 0]
    BY <2>2, HeatAssumption
  <2>3. QED
    BY <2>1, <2>2 DEF HeatInit
<1>5. HeatShapes /\ CellIsFocused /\ SheetHasItsCell /\ SheetIsOfDay
  BY <1>3, <1>4 DEF HeatShapes, CellIsFocused, SheetHasItsCell, SheetIsOfDay
<1>6. QED
  BY <1>2, <1>5 DEF HeatInv

LEMMA TabIntoGridSafe ==
  ASSUME HeatInv, TabIntoGrid
  PROVE  HeatInv'
<1>1. /\ heatFocus' = "cell" /\ focusedDate' = <<heatYear, ActiveDate>> /\ openDay = ShutDay
      /\ UNCHANGED <<heatYear, narrow, monthFor, heatData, openDay, openedFrom, heatNotes>>
  BY DEF TabIntoGrid
<1>2. HeatShown /\ HeatShown'
  BY <1>1 DEF HeatInv, HeatShown
<1>3. InGrid(ActiveDate) /\ ActiveDate \in 0..366
  BY <1>2, TabStop, InGridIs
<1>4. \A d : InGrid(d)' <=> InGrid(d)
  BY <1>1, GridStays
<1>5. HeatShapes'
  BY <1>1, <1>3 DEF HeatInv, HeatShapes
<1>6. CellIsFocused'
  BY <1>1, <1>3, <1>4 DEF CellIsFocused
<1>7. SheetHasItsCell' /\ SheetIsOfDay'
  BY <1>1 DEF SheetHasItsCell, SheetIsOfDay
<1>8. QED
  BY <1>2, <1>5, <1>6, <1>7 DEF HeatInv

LEMMA HandleHeatKeySafe ==
  ASSUME HeatInv, HandleHeatKey
  PROVE  HeatInv'
<1>1. /\ heatFocus = "cell" /\ heatFocus' = heatFocus
      /\ UNCHANGED <<heatYear, narrow, monthFor, heatData, openDay, openedFrom, heatNotes>>
  BY DEF HandleHeatKey
<1>2. HeatShown /\ HeatShown'
  BY <1>1 DEF HeatInv, HeatShown
<1>3. PICK to : /\ \E key \in HeatKeys : to = KeyTarget(Grid, PlaceOf(Grid, ActiveDate), key)
                /\ to # 0 /\ focusedDate' = <<heatYear, to>>
  BY DEF HandleHeatKey
<1>4. PICK lead, w : GridShape(lead, w)
  BY <1>2, GridIs
<1>5. to \in HeatFirst..HeatLast
  BY <1>2, <1>3, TabStop, KeysStay
<1>6. InGrid(to) /\ to \in 0..366
  <2>1. InGrid(to)
    BY <1>2, <1>4, <1>5, DaysHaveCells
  <2>2. QED
    BY <1>2, <2>1, InGridIs
<1>7. \A d : InGrid(d)' <=> InGrid(d)
  BY <1>1, GridStays
<1>8. HeatShapes'
  BY <1>1, <1>3, <1>6 DEF HeatInv, HeatShapes
<1>9. CellIsFocused'
  BY <1>1, <1>3, <1>6, <1>7 DEF CellIsFocused, HeatInv
<1>10. SheetHasItsCell' /\ SheetIsOfDay'
  <2>1. heatFocus' # "lost" /\ openDay = ShutDay
    BY <1>1 DEF HeatInv, CellIsFocused
  <2>2. QED
    BY <1>1, <2>1 DEF SheetHasItsCell, SheetIsOfDay
<1>11. QED
  BY <1>2, <1>8, <1>9, <1>10 DEF HeatInv

LEMMA OpenDaySheetSafe ==
  ASSUME HeatInv, OpenDaySheet
  PROVE  HeatInv'
<1>1. /\ openDay = ShutDay /\ heatFocus' = "sheet" /\ heatNotes' = heatNotes \ {"refetched"}
      /\ UNCHANGED <<heatYear, narrow, monthFor, heatData>>
  BY DEF OpenDaySheet
<1>2. HeatShown /\ HeatShown'
  BY <1>1 DEF HeatInv, HeatShown
<1>3. PICK d :
        /\ d \in {e \in HeatDays : InGrid(e)} \cup (IF heatFocus = "cell" THEN {ActiveDate} ELSE {})
        /\ openDay' = [date |-> d, total |-> TotalOf(d), rows |-> d \in DOMAIN heatData, upcoming |-> IsUpcoming(d)]
        /\ openedFrom' = d /\ focusedDate' = <<heatYear, d>>
  BY DEF OpenDaySheet
<1>4. InGrid(d) /\ d \in 1..366
  BY <1>2, <1>3, TabStop, InGridIs
<1>5. \A e : InGrid(e)' <=> InGrid(e)
  BY <1>1, GridStays
<1>6. openDay'.date = d /\ openDay'.total = TotalOf(d) /\ openDay'.upcoming = IsUpcoming(d)
      /\ openDay'.rows = (d \in DOMAIN heatData)
  BY <1>3
<1>7. HeatShapes'
  BY <1>1, <1>3, <1>4, <1>6 DEF HeatInv, HeatShapes
<1>8. CellIsFocused' /\ SheetHasItsCell'
  BY <1>1, <1>3, <1>4, <1>5 DEF CellIsFocused, SheetHasItsCell
<1>9. SheetIsOfDay'
  <2>1. TotalOf(d)' = TotalOf(d) /\ IsUpcoming(d)' = IsUpcoming(d)
    BY <1>1 DEF TotalOf, IsUpcoming
  <2>2. ~(openDay'.upcoming /\ openDay'.rows)
    BY <1>6 DEF IsUpcoming
  <2>3. QED
    BY <1>6, <2>1, <2>2 DEF SheetIsOfDay
<1>10. QED
  BY <1>2, <1>7, <1>8, <1>9 DEF HeatInv

LEMMA CloseDaySheetSafe ==
  ASSUME HeatInv, CloseDaySheet
  PROVE  HeatInv'
<1>1. /\ openDay # ShutDay /\ openDay' = ShutDay
      /\ heatFocus' = (IF InGrid(openedFrom) THEN "cell" ELSE "lost")
      /\ focusedDate' = (IF InGrid(openedFrom) THEN <<heatYear, openedFrom>> ELSE focusedDate)
      /\ UNCHANGED <<heatYear, narrow, monthFor, heatData, openedFrom, heatNotes>>
  BY DEF CloseDaySheet
<1>2. HeatShown /\ HeatShown'
  BY <1>1 DEF HeatInv, HeatShown
<1>3. \A e : InGrid(e)' <=> InGrid(e)
  BY <1>1, GridStays
<1>4. HeatShapes'
  <2>1. openedFrom \in 1..366
    BY <1>1 DEF HeatInv, HeatShapes
  <2>2. focusedDate'[2] \in 0..366
    BY <1>1, <2>1 DEF HeatInv, HeatShapes
  <2>3. QED
    BY <1>1, <2>2 DEF HeatInv, HeatShapes
<1>5. CellIsFocused' /\ SheetHasItsCell' /\ SheetIsOfDay'
  BY <1>1, <1>3 DEF HeatInv, CellIsFocused, SheetHasItsCell, SheetIsOfDay
<1>6. QED
  BY <1>2, <1>4, <1>5 DEF HeatInv

\* What a choice that leaves the focus on the page, and the sheet shut, keeps.
LEMMA ShutStays ==
  ASSUME HeatInv, openDay = ShutDay, heatFocus' = "page",
         UNCHANGED <<narrow, focusedDate, openDay, openedFrom, heatNotes>>, HeatShown',
         DOMAIN heatData' \subseteq HeatDays, \A d \in DOMAIN heatData' : heatData'[d] \in HeatTotals
  PROVE  HeatInv'
<1>1. HeatShapes'
  BY DEF HeatInv, HeatShapes
<1>2. CellIsFocused' /\ SheetHasItsCell' /\ SheetIsOfDay'
  BY DEF CellIsFocused, SheetHasItsCell, SheetIsOfDay
<1>3. QED
  BY <1>1, <1>2 DEF HeatInv

LEMMA SelectHeatMonthSafe ==
  ASSUME HeatInv, SelectHeatMonth
  PROVE  HeatInv'
<1>1. PICK m \in 1..12 : monthFor' = <<heatYear, m>>
  BY DEF SelectHeatMonth
<1>2. /\ openDay = ShutDay /\ heatFocus' = "page"
      /\ UNCHANGED <<heatYear, narrow, heatData, focusedDate, openDay, openedFrom, heatNotes>>
  BY DEF SelectHeatMonth
<1>3. HeatShown'
  BY <1>1, <1>2 DEF HeatInv, HeatShown
<1>4. DOMAIN heatData' \subseteq HeatDays /\ \A d \in DOMAIN heatData' : heatData'[d] \in HeatTotals
  BY <1>2 DEF HeatInv, HeatShapes
<1>5. QED
  BY <1>2, <1>3, <1>4, ShutStays

LEMMA SelectHeatYearSafe ==
  ASSUME HeatInv, SelectHeatYear
  PROVE  HeatInv'
<1>1. PICK y \in HeatYears : heatYear' = y /\ monthFor' = <<y, DefaultMonth(y)>> /\ heatData' \in {<<>>, heatData}
  BY DEF SelectHeatYear
<1>2. /\ openDay = ShutDay /\ heatFocus' = "page"
      /\ UNCHANGED <<narrow, focusedDate, openDay, openedFrom, heatNotes>>
  BY DEF SelectHeatYear
<1>3. HeatShown'
  BY <1>1, <1>2, DefaultMonthIs DEF HeatInv, HeatShown
<1>4. DOMAIN heatData' \subseteq HeatDays /\ \A d \in DOMAIN heatData' : heatData'[d] \in HeatTotals
  <2>1. CASE heatData' = <<>>
    BY <2>1
  <2>2. CASE heatData' = heatData
    BY <2>2 DEF HeatInv, HeatShapes
  <2>3. QED
    BY <1>1, <2>1, <2>2
<1>5. QED
  BY <1>2, <1>3, <1>4, ShutStays

LEMMA HeatDataLoadedSafe ==
  ASSUME HeatInv, HeatDataLoaded
  PROVE  HeatInv'
<1>1. PICK d \in HeatDays, t \in HeatTotals :
        heatData' = [e \in DOMAIN heatData \cup {d} |-> IF e = d THEN t ELSE heatData[e]]
  BY DEF HeatDataLoaded
<1>2. /\ heatNotes' = heatNotes \cup {"refetched"}
      /\ UNCHANGED <<heatYear, narrow, monthFor, focusedDate, openDay, openedFrom, heatFocus>>
  BY DEF HeatDataLoaded
<1>3. HeatShown'
  BY <1>2 DEF HeatInv, HeatShown
<1>4. \A e : InGrid(e)' <=> InGrid(e)
  BY <1>2, GridStays
<1>5. DOMAIN heatData' \subseteq HeatDays /\ \A e \in DOMAIN heatData' : heatData'[e] \in HeatTotals
  BY <1>1 DEF HeatInv, HeatShapes
<1>6. HeatShapes'
  BY <1>2, <1>5 DEF HeatInv, HeatShapes
<1>7. CellIsFocused' /\ SheetHasItsCell'
  BY <1>2, <1>4 DEF HeatInv, CellIsFocused, SheetHasItsCell
<1>8. SheetIsOfDay'
  BY <1>2 DEF HeatInv, SheetIsOfDay
<1>9. QED
  BY <1>3, <1>6, <1>7, <1>8 DEF HeatInv

LEMMA FlipViewportSafe ==
  ASSUME HeatInv, FlipViewport
  PROVE  HeatInv'
<1>1. /\ narrow' = ~narrow /\ heatFocus' = (IF heatFocus = "cell" THEN "lost" ELSE heatFocus)
      /\ heatNotes' = heatNotes \cup {"flipped"}
      /\ UNCHANGED <<heatYear, monthFor, heatData, focusedDate, openDay, openedFrom>>
  BY DEF FlipViewport
<1>2. HeatShown'
  BY <1>1 DEF HeatInv, HeatShown
<1>3. HeatShapes'
  BY <1>1 DEF HeatInv, HeatShapes
<1>4. CellIsFocused' /\ SheetHasItsCell'
  BY <1>1 DEF CellIsFocused, SheetHasItsCell
<1>5. SheetIsOfDay'
  <2>1. \A d : TotalOf(d)' = TotalOf(d) /\ IsUpcoming(d)' = IsUpcoming(d)
    BY <1>1 DEF TotalOf, IsUpcoming
  <2>2. QED
    BY <1>1, <2>1 DEF HeatInv, SheetIsOfDay
<1>6. QED
  BY <1>2, <1>3, <1>4, <1>5 DEF HeatInv

LEMMA HeatSteps == HeatInv /\ [HeatNext]_heatVars => HeatInv'
<1> SUFFICES ASSUME HeatInv, [HeatNext]_heatVars PROVE HeatInv'
  OBVIOUS
<1>1. CASE HeatNext
  BY <1>1, TabIntoGridSafe, HandleHeatKeySafe, OpenDaySheetSafe, CloseDaySheetSafe, SelectHeatMonthSafe,
     SelectHeatYearSafe, HeatDataLoadedSafe, FlipViewportSafe DEF HeatNext
<1>2. CASE UNCHANGED heatVars
  <2>1. UNCHANGED <<heatYear, narrow, monthFor, heatData, focusedDate, openDay, openedFrom, heatFocus, heatNotes>>
    BY <1>2 DEF heatVars
  <2>2. \A d : (InGrid(d)' <=> InGrid(d)) /\ TotalOf(d)' = TotalOf(d) /\ IsUpcoming(d)' = IsUpcoming(d)
    BY <2>1, GridStays DEF TotalOf, IsUpcoming
  <2>3. HeatShown' /\ HeatShapes'
    BY <2>1 DEF HeatInv, HeatShown, HeatShapes
  <2>4. CellIsFocused' /\ SheetHasItsCell' /\ SheetIsOfDay'
    BY <2>1, <2>2 DEF HeatInv, CellIsFocused, SheetHasItsCell, SheetIsOfDay
  <2>5. QED
    BY <2>3, <2>4 DEF HeatInv
<1>3. QED
  BY <1>1, <1>2

LEMMA HeatTyped == HeatInv => HeatTypeOK
<1> SUFFICES ASSUME HeatInv PROVE HeatTypeOK
  OBVIOUS
<1>1. openDay # ShutDay => openDay.date \in 1..366
  BY DEF HeatInv, HeatShapes
<1>2. QED
  BY <1>1 DEF HeatInv, HeatShown, HeatShapes, HeatTypeOK

LEMMA HeatSheet == HeatInv => SheetTellsItsCell
BY DEF HeatInv, SheetIsOfDay, SheetTellsItsCell

\* The heatmap's grid, tab stop, colours, sheet and arrow keys are true of every year and
\* month of the calendar (SpendingHeatmap.tsx, heatmapGrid.ts).
THEOREM HeatHolds ==
  HeatSpec => [](HeatTypeOK /\ GridIsTrue /\ OneTabStop /\ ColoursRankDays /\ SheetTellsItsCell /\ HeatFocusKept)
<1>1. HeatInv => GridIsTrue
  BY GridTrue DEF HeatInv
<1>2. QED
  BY <1>1, HeatStarts, HeatSteps, HeatTyped, HeatStops, HeatColours, HeatSheet, PTL DEF HeatSpec

(***************************************************************************)
(* The amount box (AmountBox): the text in the box, the code beside it and  *)
(* the form behind it say the same money, whichever of them was changed     *)
(* last.                                                                    *)
(***************************************************************************)
BoxSpec == BoxInit /\ [][BoxNext]_boxVars

\* Money of a row: base money has no original, foreign money has a rate.
MoneyRows ==
  {m \in [cents : Int \ {0}, orig : Int, code : ForeignCodes \cup {"base"}, booked : Nat] :
     (m.orig = 0 <=> m.code = "base") /\ (m.orig = 0 => m.booked = 0)}
ListedRates == [ForeignCodes -> BoxRates \cup {0}]
Boxes == [mode : {"closed", "edit", "entry"}, typed : Nat, text : Int,
          code : ForeignCodes \cup {"base", "USD"}, negative : BOOLEAN, focused : BOOLEAN,
          hydrated : BOOLEAN, touched : BOOLEAN, from : {<<>>} \cup MoneyRows, base : {"base", "USD"}]
BoxSaves == [phase : {"asked", "ok", "failed"}, mode : {"edit", "entry"}, typed : Nat, negative : BOOLEAN,
             code : ForeignCodes \cup {"base"}, untouched : BOOLEAN, from : {<<>>} \cup MoneyRows,
             misread : BOOLEAN, says : Nat, row : MoneyRows, rates : ListedRates]
BoxShapes ==
  /\ storedMoney \in MoneyRows /\ listedMoney \in MoneyRows
  /\ serverRates \in AllRates /\ listedRates \in ListedRates
  /\ currencies \in {"loading", "loaded", "failed"}
  /\ box \in Boxes /\ boxSave \in {NoBoxSave} \cup BoxSaves /\ boxNotes \subseteq {"refilled"}
\* An edit form the user has not touched holds the money it was filled from.
BoxHolds ==
  box.mode = "edit" =>
    /\ box.from \in MoneyRows
    /\ ~box.touched => box.typed = Defaults(box.from, box.base).typed /\ box.code = Defaults(box.from, box.base).code
\* What a save took with it.
SaveTakes(s) ==
  /\ \/ s.code = "base" /\ s.says = Rounded(s.typed, 2)
     \/ /\ s.code \in ForeignCodes /\ s.rates[s.code] # 0
        /\ s.says = IF s.mode = "edit" /\ Frozen(s, s.row) THEN Magnitude(s.row.cents)
                    ELSE Rounded(s.typed, 2 * s.rates[s.code])
  /\ s.untouched /\ ~s.misread =>
       /\ s.mode = "edit" /\ s.from \in MoneyRows
       /\ s.from.orig # 0 => s.code = s.from.code /\ s.typed = 2 * Magnitude(s.from.orig)
       /\ s.from.orig = 0 => s.code = "base" /\ s.typed = 2 * Magnitude(s.from.cents)
BoxSaving ==
  boxSave # NoBoxSave => box.mode = boxSave.mode /\ SaveTakes(boxSave)
BoxInv == BoxShapes /\ BoxHolds /\ BoxSaving /\ BoxSaysWhatItHolds /\ MoneyIsAsShown

(***************************************************************************)
(* Rounding.                                                               *)
(***************************************************************************)
LEMMA RoundedNat ==
  ASSUME NEW n \in Nat, NEW d \in Nat \ {0}
  PROVE  Rounded(n, d) \in Nat
BY DEF Rounded

LEMMA RoundedEven ==
  ASSUME NEW m \in Nat
  PROVE  Rounded(2 * m, 2) = m
BY DEF Rounded

LEMMA QuotientIs ==
  ASSUME NEW a \in Nat, NEW b \in Nat \ {0}, NEW q \in Nat, b * q <= a, a < b * q + b
  PROVE  a \div b = q
<1> DEFINE p == a \div b
<1>1. p \in Nat /\ b * p <= a /\ a < b * p + b
  OBVIOUS
<1> HIDE DEF p
<1>2. ~(p < q)
  <2>1. ASSUME p < q PROVE FALSE
    <3>1. p + 1 <= q
      BY <1>1, <2>1
    <3>2. b * (p + 1) <= b * q
      BY <1>1, <3>1
    <3>3. b * (p + 1) = b * p + b
      BY <1>1
    <3>4. b * p \in Nat /\ b * q \in Nat
      BY <1>1
    <3>5. QED
      BY <1>1, <3>2, <3>3, <3>4
  <2>2. QED
    BY <2>1
<1>3. ~(q < p)
  <2>1. ASSUME q < p PROVE FALSE
    <3>1. q + 1 <= p
      BY <1>1, <2>1
    <3>2. b * (q + 1) <= b * p
      BY <1>1, <3>1
    <3>3. b * (q + 1) = b * q + b
      OBVIOUS
    <3>4. b * p \in Nat /\ b * q \in Nat
      BY <1>1
    <3>5. QED
      BY <1>1, <3>2, <3>3, <3>4
  <2>2. QED
    BY <2>1
<1>4. QED
  BY <1>1, <1>2, <1>3 DEF p

\* Money on the cents grid is worth the same counted in half cents.
LEMMA RoundedTwice ==
  ASSUME NEW g \in Nat, NEW r \in Nat \ {0}
  PROVE  Rounded(2 * g, 2 * r) = Rounded(g, r)
<1> DEFINE a == 2 * g + r
           b == 2 * r
           q == a \div b
<1>1. a \in Nat /\ b \in Nat \ {0}
  OBVIOUS
<1>2. q \in Nat /\ b * q <= a /\ a < b * q + b
  <2> HIDE DEF a, b
  <2>1. QED
    BY <1>1
<1>3. 2 * (2 * g) + 2 * r = 2 * a /\ 2 * (2 * r) = 2 * b
  OBVIOUS
<1> HIDE DEF a, b, q
<1>4. 2 * a \in Nat /\ 2 * b \in Nat \ {0}
  BY <1>1
<1>5. (2 * b) * q <= 2 * a /\ 2 * a < (2 * b) * q + 2 * b
  <2>1. (2 * b) * q = 2 * (b * q) /\ b * q \in Nat
    BY <1>1, <1>2
  <2>2. QED
    BY <1>1, <1>2, <2>1
<1>6. (2 * a) \div (2 * b) = q
  BY <1>2, <1>4, <1>5, QuotientIs
<1>7. Rounded(2 * g, 2 * r) = (2 * a) \div (2 * b)
  BY <1>3 DEF Rounded
<1>8. Rounded(g, r) = q
  BY DEF Rounded, a, b, q
<1>9. QED
  BY <1>6, <1>7, <1>8

LEMMA HalfOfEven ==
  ASSUME NEW n \in Nat, n % 2 = 0
  PROVE  \E g \in Nat : n = 2 * g
<1>1. n \div 2 \in Nat /\ n = 2 * (n \div 2)
  OBVIOUS
<1>2. QED
  BY <1>1

(***************************************************************************)
(* Pricing.                                                                *)
(***************************************************************************)
LEMMA BoxConstants ==
  /\ BoxRates \subseteq Nat \ {0} /\ "base" \notin ForeignCodes /\ BoxAmounts \subseteq Nat
  /\ \A rates \in AllRates : \A c \in ForeignCodes : rates[c] \in Nat \ {0}
  /\ AllRates \subseteq ListedRates
  /\ ClosedBox \in Boxes /\ ClosedBox.mode = "closed" /\ NoBoxSave \notin BoxSaves
<1>1. BoxRates \subseteq Nat \ {0} /\ "base" \notin ForeignCodes /\ BoxAmounts \subseteq Nat
  BY BoxAssumption
<1>2. ClosedBox \in Boxes /\ ClosedBox.mode = "closed"
  BY DEF ClosedBox, Boxes
<1>3. NoBoxSave \notin BoxSaves
  BY DEF NoBoxSave, BoxSaves
<1>4. QED
  BY <1>1, <1>2, <1>3 DEF AllRates, ListedRates

\* What the server makes of an amount: money on the grid, of the direction asked.
LEMMA PricedIs ==
  ASSUME NEW typed \in Nat, NEW code \in ForeignCodes \cup {"base"}, NEW negative \in BOOLEAN,
         NEW rates \in AllRates, NEW p \in Priced(typed, code, negative, rates)
  PROVE  LET grid == Rounded(typed, 2)
             worth == IF code = "base" THEN grid ELSE Rounded(grid, rates[code])
         IN  /\ p \in MoneyRows /\ p.code = code /\ grid \in Nat \ {0} /\ worth \in Nat \ {0}
             /\ p.cents = Signed(worth, negative)
             /\ code # "base" => p.orig = Signed(grid, negative) /\ p.orig # 0
             /\ code = "base" => p.orig = 0 /\ p.booked = 0
<1> DEFINE grid == Rounded(typed, 2)
           worth == IF code = "base" THEN grid ELSE Rounded(grid, rates[code])
<1>1. grid \in Nat
  BY RoundedNat
<1>2. worth \in Nat
  <2>1. CASE code = "base"
    BY <1>1, <2>1
  <2>2. CASE code # "base"
    <3>1. rates[code] \in Nat \ {0}
      BY <2>2, BoxConstants
    <3>2. QED
      BY <1>1, <2>2, <3>1, RoundedNat
  <2>3. QED
    BY <2>1, <2>2
<1> HIDE DEF worth
<1>3. grid # 0 /\ worth # 0
      /\ p = [cents |-> Signed(worth, negative),
              orig |-> IF code = "base" THEN 0 ELSE Signed(grid, negative),
              code |-> code, booked |-> IF code = "base" THEN 0 ELSE rates[code]]
  BY DEF Priced, worth
<1> HIDE DEF grid
<1>4. Signed(worth, negative) \in Int \ {0} /\ Signed(grid, negative) \in Int \ {0}
  BY <1>1, <1>2, <1>3 DEF Signed
<1>5. code # "base" => rates[code] \in Nat
  BY BoxConstants
<1>6. p \in MoneyRows
  BY <1>3, <1>4, <1>5 DEF MoneyRows
<1>7. QED
  BY <1>1, <1>2, <1>3, <1>4, <1>6 DEF grid, worth

\* Restated money keeps its worth and takes the direction that was asked.
LEMMA KeptIs ==
  ASSUME NEW before \in MoneyRows, NEW p \in MoneyRows
  PROVE  /\ Kept(before, p) \in MoneyRows /\ Kept(before, p).code = p.code /\ Kept(before, p).orig = p.orig
         /\ MagnitudeUnchanged(before, p) =>
              /\ Magnitude(Kept(before, p).cents) = Magnitude(before.cents)
              /\ (Kept(before, p).cents < 0) = (p.orig < 0)
              /\ Kept(before, p).booked = before.booked
         /\ ~MagnitudeUnchanged(before, p) => Kept(before, p) = p
<1>1. CASE ~MagnitudeUnchanged(before, p)
  BY <1>1 DEF Kept
<1>2. CASE MagnitudeUnchanged(before, p)
  <2> DEFINE c == SameDirection(before.cents, p.orig)
             k == [p EXCEPT !.cents = c, !.booked = before.booked]
  <2>1. before.cents \in Int \ {0} /\ p.orig \in Int \ {0} /\ before.booked \in Nat
    BY <1>2 DEF MoneyRows, MagnitudeUnchanged
  <2>2. c \in Int \ {0} /\ Magnitude(c) = Magnitude(before.cents) /\ (c < 0) = (p.orig < 0)
    BY <2>1 DEF SameDirection, Magnitude
  <2> HIDE DEF c
  <2>3. k \in MoneyRows /\ k.cents = c /\ k.code = p.code /\ k.orig = p.orig /\ k.booked = before.booked
    BY <2>1, <2>2 DEF MoneyRows
  <2>4. Kept(before, p) = k
    BY <1>2 DEF Kept, c
  <2> HIDE DEF k
  <2>5. QED
    BY <1>2, <2>2, <2>3, <2>4
<1>3. QED
  BY <1>1, <1>2

LEMMA SignedIs ==
  ASSUME NEW n \in Nat \ {0}, NEW negative \in BOOLEAN
  PROVE  Magnitude(Signed(n, negative)) = n /\ (Signed(n, negative) < 0) = negative
BY DEF Magnitude, Signed

\* What a save stores, of what it took with it.
LEMMA StoredAsTaken ==
  ASSUME NEW s \in BoxSaves, SaveTakes(s), NEW before \in MoneyRows, NEW rates \in AllRates,
         NEW p \in Priced(s.typed, s.code, s.negative, rates),
         NEW a, a = IF s.mode = "edit" THEN Kept(before, p) ELSE p
  PROVE  /\ a \in MoneyRows
         /\ (a.cents < 0) = s.negative /\ (a.orig # 0 => (a.orig < 0) = s.negative)
         /\ s.untouched /\ s.from = before /\ ~s.misread
            => Magnitude(a.cents) = Magnitude(before.cents) /\ a.code = before.code /\ a.booked = before.booked
         /\ /\ s.mode = "edit" => s.row = before
            /\ s.code # "base" /\ ~(s.mode = "edit" /\ Frozen(s, s.row)) => s.rates[s.code] = rates[s.code]
            /\ (s.mode = "edit" /\ Frozen(s, s.row)) \/ s.code = "base" \/ s.typed % 2 = 0
            => Magnitude(a.cents) = s.says
<1> DEFINE grid == Rounded(s.typed, 2)
           worth == IF s.code = "base" THEN grid ELSE Rounded(grid, rates[s.code])
<1>1. s.typed \in Nat /\ s.code \in ForeignCodes \cup {"base"} /\ s.negative \in BOOLEAN
      /\ s.mode \in {"edit", "entry"} /\ s.untouched \in BOOLEAN /\ s.misread \in BOOLEAN
  BY DEF BoxSaves
<1>2. /\ p \in MoneyRows /\ p.code = s.code /\ grid \in Nat \ {0} /\ worth \in Nat \ {0}
      /\ p.cents = Signed(worth, s.negative)
      /\ s.code # "base" => p.orig = Signed(grid, s.negative) /\ p.orig # 0
      /\ s.code = "base" => p.orig = 0 /\ p.booked = 0
  BY <1>1, PricedIs
<1>3. worth = IF s.code = "base" THEN grid ELSE Rounded(grid, rates[s.code])
  OBVIOUS
<1>4. grid = Rounded(s.typed, 2)
  OBVIOUS
<1> HIDE DEF grid, worth
<1>5. /\ Magnitude(p.cents) = worth /\ (p.cents < 0) = s.negative
      /\ s.code # "base" => Magnitude(p.orig) = grid /\ (p.orig < 0) = s.negative
  BY <1>1, <1>2, SignedIs
<1>6. /\ Kept(before, p) \in MoneyRows /\ Kept(before, p).code = p.code /\ Kept(before, p).orig = p.orig
      /\ MagnitudeUnchanged(before, p) =>
           /\ Magnitude(Kept(before, p).cents) = Magnitude(before.cents)
           /\ (Kept(before, p).cents < 0) = (p.orig < 0)
           /\ Kept(before, p).booked = before.booked
      /\ ~MagnitudeUnchanged(before, p) => Kept(before, p) = p
  BY <1>2, KeptIs
<1>7. MagnitudeUnchanged(before, p) <=> before.orig # 0 /\ s.code # "base" /\ before.code = s.code /\ Magnitude(before.orig) = grid
  BY <1>2, <1>5 DEF MagnitudeUnchanged
<1>8. a \in MoneyRows /\ a.code = s.code /\ a.orig = p.orig
  BY <1>1, <1>2, <1>6
<1>9. (a.cents < 0) = s.negative
  <2>1. CASE s.mode = "edit" /\ MagnitudeUnchanged(before, p)
    BY <1>5, <1>6, <1>7, <2>1
  <2>2. CASE ~(s.mode = "edit" /\ MagnitudeUnchanged(before, p))
    BY <1>5, <1>6, <2>2
  <2>3. QED
    BY <2>1, <2>2
<1>10. a.orig # 0 => (a.orig < 0) = s.negative
  BY <1>2, <1>5, <1>8
<1>11. ASSUME s.untouched, s.from = before, ~s.misread
       PROVE  Magnitude(a.cents) = Magnitude(before.cents) /\ a.code = before.code /\ a.booked = before.booked
  <2>1. /\ s.mode = "edit" /\ before.code \in ForeignCodes \cup {"base"} /\ before.cents \in Int \ {0}
        /\ before.orig \in Int
        /\ before.orig # 0 => s.code = before.code /\ s.typed = 2 * Magnitude(before.orig)
        /\ before.orig = 0 => s.code = "base" /\ s.typed = 2 * Magnitude(before.cents)
        /\ (before.orig = 0 <=> before.code = "base") /\ (before.orig = 0 => before.booked = 0)
    BY <1>11 DEF SaveTakes, MoneyRows
  <2>2. Magnitude(before.orig) \in Nat /\ Magnitude(before.cents) \in Nat
    BY <2>1 DEF Magnitude
  <2>3. CASE before.orig # 0
    <3>1. grid = Magnitude(before.orig)
      BY <1>4, <2>1, <2>2, <2>3, RoundedEven
    <3>2. MagnitudeUnchanged(before, p)
      BY <1>7, <2>1, <2>3, <3>1
    <3>3. QED
      BY <1>6, <1>8, <2>1, <2>3, <3>2
  <2>4. CASE before.orig = 0
    <3>1. grid = Magnitude(before.cents) /\ s.code = "base" /\ ~MagnitudeUnchanged(before, p)
      BY <1>4, <1>7, <2>1, <2>2, <2>4, RoundedEven
    <3>2. a = p /\ p.booked = 0
      BY <1>2, <1>6, <2>1, <3>1
    <3>3. QED
      BY <1>3, <1>5, <1>8, <2>1, <2>4, <3>1, <3>2
  <2>5. QED
    BY <2>3, <2>4
<1>12. ASSUME s.mode = "edit" => s.row = before,
              s.code # "base" /\ ~(s.mode = "edit" /\ Frozen(s, s.row)) => s.rates[s.code] = rates[s.code],
              (s.mode = "edit" /\ Frozen(s, s.row)) \/ s.code = "base" \/ s.typed % 2 = 0
       PROVE  Magnitude(a.cents) = s.says
  <2>1. CASE s.code = "base"
    <3>1. s.says = grid /\ worth = grid
      BY <1>3, <1>4, <2>1, BoxConstants DEF SaveTakes
    <3>2. a = p
      BY <1>6, <1>7, <2>1
    <3>3. QED
      BY <1>5, <3>1, <3>2
  <2>2. CASE s.code # "base" /\ s.mode = "edit" /\ Frozen(s, s.row)
    <3>1. s.says = Magnitude(before.cents)
      BY <1>12, <2>2 DEF SaveTakes
    <3>2. MagnitudeUnchanged(before, p)
      BY <1>4, <1>7, <1>12, <2>2 DEF Frozen
    <3>3. QED
      BY <1>6, <2>2, <3>1, <3>2
  <2>3. CASE s.code # "base" /\ ~(s.mode = "edit" /\ Frozen(s, s.row))
    <3>1. s.typed % 2 = 0 /\ s.rates[s.code] = rates[s.code] /\ s.code \in ForeignCodes
      BY <1>1, <1>12, <2>3
    <3>2. s.says = Rounded(s.typed, 2 * rates[s.code])
      BY <2>3, <3>1 DEF SaveTakes
    <3>3. a = p
      <4>1. s.mode = "edit" => ~MagnitudeUnchanged(before, p)
        BY <1>4, <1>7, <1>12, <2>3 DEF Frozen
      <4>2. QED
        BY <1>6, <4>1
    <3>4. PICK g \in Nat : s.typed = 2 * g
      BY <1>1, <3>1, HalfOfEven
    <3>5. grid = g /\ rates[s.code] \in Nat \ {0}
      BY <1>4, <3>1, <3>4, RoundedEven, BoxConstants
    <3>6. s.says = Rounded(g, rates[s.code])
      BY <3>2, <3>4, <3>5, RoundedTwice
    <3>7. worth = Rounded(g, rates[s.code])
      BY <1>3, <2>3, <3>5
    <3>8. QED
      BY <1>5, <3>3, <3>6, <3>7
  <2>4. QED
    BY <2>1, <2>2, <2>3
<1>13. QED
  BY <1>8, <1>9, <1>10, <1>11, <1>12

(***************************************************************************)
(* The steps of the box.                                                   *)
(***************************************************************************)
LEMMA DefaultsIs ==
  ASSUME NEW row \in MoneyRows, NEW base \in {"base", "USD"}
  PROVE  /\ Defaults(row, base).typed \in Nat /\ Defaults(row, base).negative \in BOOLEAN
         /\ Defaults(row, base).code \in ForeignCodes \cup {"base", "USD"}
         /\ Defaults(row, base).typed = IF row.orig # 0 THEN 2 * Magnitude(row.orig) ELSE 2 * Magnitude(row.cents)
         /\ Defaults(row, base).code = IF row.orig # 0 THEN row.code ELSE base
<1>1. row.orig \in Int /\ row.cents \in Int /\ row.code \in ForeignCodes \cup {"base"}
  BY DEF MoneyRows
<1>2. Magnitude(row.orig) \in Nat /\ Magnitude(row.cents) \in Nat
  BY <1>1 DEF Magnitude
<1>3. CASE row.orig # 0
  BY <1>1, <1>2, <1>3 DEF Defaults
<1>4. CASE row.orig = 0
  BY <1>1, <1>2, <1>4 DEF Defaults
<1>5. QED
  BY <1>3, <1>4

\* The fields filled from a row, and whether that was with the currencies there.
FilledAs(b, row, base, text, h) == [FilledBox(b, row, base, text) EXCEPT !.hydrated = h]

LEMMA FilledIs ==
  ASSUME NEW b \in Boxes, NEW row \in MoneyRows, NEW base \in {"base", "USD"}, NEW text \in Int, NEW h \in BOOLEAN
  PROVE  \A f : f = FilledAs(b, row, base, text, h) =>
             /\ f \in Boxes /\ f.mode = "edit" /\ f.from = row /\ f.base = base /\ f.text = text
             /\ f.typed = Defaults(row, base).typed /\ f.code = Defaults(row, base).code
             /\ f.focused = b.focused
<1> DEFINE d == Defaults(row, base)
<1>1. d.typed \in Nat /\ d.negative \in BOOLEAN /\ d.code \in ForeignCodes \cup {"base", "USD"}
  BY DefaultsIs
<1> HIDE DEF d
<1>2. FilledBox(b, row, base, text) =
        [b EXCEPT !.mode = "edit", !.typed = d.typed, !.code = d.code, !.negative = d.negative,
                  !.text = text, !.from = row, !.base = base, !.touched = FALSE]
  BY DEF FilledBox, d
<1>3. QED
  <2> SUFFICES ASSUME NEW f, f = [[b EXCEPT !.mode = "edit", !.typed = d.typed, !.code = d.code, !.negative = d.negative,
                                    !.text = text, !.from = row, !.base = base, !.touched = FALSE]
                                  EXCEPT !.hydrated = h]
              PROVE /\ f \in Boxes /\ f.mode = "edit" /\ f.from = row /\ f.base = base /\ f.text = text
                    /\ f.typed = d.typed /\ f.code = d.code /\ f.focused = b.focused
    BY <1>2 DEF FilledAs, d
  <2>1. QED
    BY <1>1 DEF Boxes

LEMMA RowsAreMoney ==
  ASSUME NEW rates \in AllRates
  PROVE  Rows(rates) \subseteq MoneyRows
<1>1. ASSUME NEW r \in Rows(rates) PROVE r \in MoneyRows
  <2>1. PICK t \in BoxAmounts, c \in ForeignCodes \cup {"base"}, n \in BOOLEAN : r \in Priced(t, c, n, rates)
    BY DEF Rows
  <2>2. t \in Nat
    BY BoxConstants
  <2>3. QED
    BY <2>1, <2>2, PricedIs
<1>2. QED
  BY <1>1

LEMMA BoxTyped == BoxInv => BoxTypeOK
<1> SUFFICES ASSUME BoxInv PROVE BoxTypeOK
  OBVIOUS
<1>1. storedMoney.cents # 0 /\ listedMoney.code \in ForeignCodes \cup {"base"}
  BY DEF BoxInv, BoxShapes, MoneyRows
<1>2. /\ box.mode \in {"closed", "edit", "entry"} /\ box.text \in Int /\ box.typed \in Nat
      /\ box.code \in ForeignCodes \cup {"base", "USD"}
  BY DEF BoxInv, BoxShapes, Boxes
<1>3. boxSave.phase \in {"none", "asked", "ok", "failed"} /\ boxNotes \subseteq {"refilled"}
  BY DEF BoxInv, BoxShapes, BoxSaves, NoBoxSave
<1>4. QED
  BY <1>1, <1>2, <1>3 DEF BoxTypeOK

LEMMA BoxStarts == BoxInit => BoxInv
<1> SUFFICES ASSUME BoxInit PROVE BoxInv
  OBVIOUS
<1>1. storedMoney \in MoneyRows /\ serverRates \in AllRates
  BY RowsAreMoney DEF BoxInit
<1>2. listedRates \in ListedRates
  BY DEF BoxInit, ListedRates
<1>3. BoxShapes
  BY <1>1, <1>2, BoxConstants DEF BoxInit, BoxShapes
<1>4. BoxHolds /\ BoxSaving /\ BoxSaysWhatItHolds
  BY BoxConstants DEF BoxInit, BoxHolds, BoxSaving, BoxSaysWhatItHolds
<1>5. MoneyIsAsShown
  BY DEF BoxInit, NothingStored, MoneyIsAsShown, PreviewIsStored, UntouchedMoneyStays
<1>6. QED
  BY <1>3, <1>4, <1>5 DEF BoxInv

LEMMA MoneyStays ==
  ASSUME MoneyIsAsShown, lastStored' = lastStored
  PROVE  MoneyIsAsShown'
BY DEF MoneyIsAsShown, PreviewIsStored, UntouchedMoneyStays

\* What moves nothing of the form.
LEMMA BoxBesidesKeep ==
  ASSUME BoxInv, UNCHANGED <<currencies, box, boxSave, lastStored, boxNotes>>,
         storedMoney' \in MoneyRows, listedMoney' \in MoneyRows, serverRates' \in AllRates,
         listedRates' \in ListedRates
  PROVE  BoxInv'
<1>1. BoxShapes'
  BY DEF BoxInv, BoxShapes
<1>2. BoxHolds' /\ BoxSaysWhatItHolds'
  BY DEF BoxInv, BoxHolds, BoxSaysWhatItHolds
<1>3. BoxSaving'
  BY DEF BoxInv, BoxSaving, SaveTakes
<1>4. MoneyIsAsShown'
  BY MoneyStays DEF BoxInv
<1>5. QED
  BY <1>1, <1>2, <1>3, <1>4 DEF BoxInv

LEMMA BoxOthersKeep ==
  ASSUME BoxInv, SetRate \/ EditedElsewhere \/ RowRefetched
  PROVE  BoxInv'
<1>1. /\ storedMoney \in MoneyRows /\ listedMoney \in MoneyRows
      /\ serverRates \in AllRates /\ listedRates \in ListedRates
  BY DEF BoxInv, BoxShapes
<1>2. CASE SetRate
  <2>1. PICK c \in ForeignCodes, r \in BoxRates : serverRates' = [serverRates EXCEPT ![c] = r]
    BY <1>2 DEF SetRate
  <2>2. serverRates' \in AllRates
    BY <1>1, <2>1 DEF AllRates
  <2>3. UNCHANGED <<storedMoney, listedMoney, listedRates, currencies, box, boxSave, lastStored, boxNotes>>
    BY <1>2 DEF SetRate
  <2>4. QED
    BY <1>1, <2>2, <2>3, BoxBesidesKeep
<1>3. CASE EditedElsewhere
  <2>1. PICK row \in Rows(serverRates) : storedMoney' = Kept(storedMoney, row)
    BY <1>3 DEF EditedElsewhere
  <2>2. storedMoney' \in MoneyRows
    BY <1>1, <2>1, RowsAreMoney, KeptIs
  <2>3. UNCHANGED <<listedMoney, serverRates, listedRates, currencies, box, boxSave, lastStored, boxNotes>>
    BY <1>3 DEF EditedElsewhere
  <2>4. QED
    BY <1>1, <2>2, <2>3, BoxBesidesKeep
<1>4. CASE RowRefetched
  <2>1. /\ listedMoney' = storedMoney
        /\ UNCHANGED <<storedMoney, serverRates, listedRates, currencies, box, boxSave, lastStored, boxNotes>>
    BY <1>4 DEF RowRefetched
  <2>2. QED
    BY <1>1, <2>1, BoxBesidesKeep
<1>5. QED
  BY <1>2, <1>3, <1>4

\* What moves the form, the save under way apart.
LEMMA BoxMoves ==
  ASSUME BoxInv, UNCHANGED <<storedMoney, listedMoney, serverRates, boxSave, lastStored>>,
         listedRates' \in ListedRates, currencies' \in {"loading", "loaded", "failed"},
         box' \in Boxes, boxNotes' \subseteq {"refilled"},
         box'.mode = box.mode \/ boxSave = NoBoxSave, BoxHolds', BoxSaysWhatItHolds'
  PROVE  BoxInv'
<1>1. BoxShapes'
  BY DEF BoxInv, BoxShapes
<1>2. BoxSaving'
  BY DEF BoxInv, BoxSaving, SaveTakes
<1>3. MoneyIsAsShown'
  BY MoneyStays DEF BoxInv
<1>4. QED
  BY <1>1, <1>2, <1>3 DEF BoxInv

LEMMA HydrateKeeps ==
  ASSUME BoxInv, NEW base \in {"base", "USD"}, Hydrate(base),
         UNCHANGED <<storedMoney, listedMoney, serverRates, boxSave, lastStored>>,
         listedRates' \in ListedRates, currencies' \in {"loading", "loaded", "failed"}
  PROVE  BoxInv'
<1>1. box \in Boxes /\ boxNotes \subseteq {"refilled"} /\ listedMoney \in MoneyRows
      /\ box.text \in Int /\ box.focused \in BOOLEAN
  BY DEF BoxInv, BoxShapes, Boxes
<1>2. CASE ~(box.mode = "edit" /\ ~box.hydrated)
  <2>1. UNCHANGED <<box, boxNotes>>
    BY <1>2 DEF Hydrate
  <2>2. BoxHolds' /\ BoxSaysWhatItHolds'
    BY <2>1 DEF BoxInv, BoxHolds, BoxSaysWhatItHolds
  <2>3. QED
    BY <1>1, <2>1, <2>2, BoxMoves
<1>3. CASE box.mode = "edit" /\ ~box.hydrated
  <2> DEFINE d == Defaults(listedMoney, base)
             text == IF box.focused THEN box.text ELSE d.typed
  <2>1. /\ box' = [FilledBox(box, listedMoney, base, text) EXCEPT !.hydrated = TRUE]
        /\ boxNotes' = boxNotes \cup (IF box.typed # d.typed THEN {"refilled"} ELSE {})
    BY <1>3 DEF Hydrate
  <2>2. d.typed \in Nat
    BY <1>1, DefaultsIs
  <2>3. text \in Int
    BY <1>1, <2>2
  <2>4. text = IF box.focused THEN box.text ELSE d.typed
    OBVIOUS
  <2> HIDE DEF text
  <2>10. box' = FilledAs(box, listedMoney, base, text, TRUE)
    BY <2>1 DEF FilledAs
  <2>11. PICK h \in BOOLEAN : box' = FilledAs(box, listedMoney, base, text, h)
    BY <2>10
  <2>5. /\ box' \in Boxes /\ box'.mode = "edit" /\ box'.from = listedMoney /\ box'.base = base /\ box'.text = text
        /\ box'.typed = d.typed /\ box'.code = d.code /\ box'.focused = box.focused
    BY <1>1, <2>11, <2>3, FilledIs
  <2>6. BoxHolds'
    BY <1>1, <2>5 DEF BoxHolds
  <2>7. BoxSaysWhatItHolds'
    <3>1. ASSUME boxNotes' = {} PROVE boxNotes = {} /\ box.typed = d.typed
      BY <2>1, <3>1
    <3>2. QED
      BY <1>1, <1>3, <2>4, <2>5, <3>1 DEF BoxInv, BoxSaysWhatItHolds
  <2>8. boxNotes' \subseteq {"refilled"}
    BY <1>1, <2>1
  <2>9. QED
    BY <1>3, <2>5, <2>6, <2>7, <2>8, BoxMoves
<1>4. QED
  BY <1>2, <1>3

LEMMA CurrenciesKeep ==
  ASSUME BoxInv, CurrenciesLoaded \/ CurrenciesFailed
  PROVE  BoxInv'
<1>1. serverRates \in AllRates /\ listedRates \in ListedRates
  BY DEF BoxInv, BoxShapes
<1>2. CASE CurrenciesLoaded
  <2>1. /\ listedRates' = serverRates /\ currencies' = "loaded" /\ Hydrate("base")
        /\ UNCHANGED <<storedMoney, listedMoney, serverRates, boxSave, lastStored>>
    BY <1>2 DEF CurrenciesLoaded
  <2>2. QED
    BY <1>1, <2>1, BoxConstants, HydrateKeeps
<1>3. CASE CurrenciesFailed
  <2>1. /\ currencies' = "failed" /\ Hydrate("USD")
        /\ UNCHANGED <<storedMoney, listedMoney, serverRates, listedRates, boxSave, lastStored>>
    BY <1>3 DEF CurrenciesFailed
  <2>2. QED
    BY <1>1, <2>1, HydrateKeeps
<1>4. QED
  BY <1>2, <1>3

LEMMA OpenBoxKeeps ==
  ASSUME BoxInv, NEW mode, OpenBox(mode)
  PROVE  BoxInv'
<1>1. /\ box.mode = "closed" /\ boxNotes' = {}
      /\ UNCHANGED <<storedMoney, listedMoney, serverRates, listedRates, currencies, boxSave, lastStored>>
  BY DEF OpenBox
<1>2. boxSave = NoBoxSave
  <2>1. boxSave # NoBoxSave => box.mode = boxSave.mode /\ boxSave.mode \in {"edit", "entry"}
    BY DEF BoxInv, BoxSaving, BoxShapes, BoxSaves
  <2>2. QED
    BY <1>1, <2>1
<1>3. listedMoney \in MoneyRows /\ baseCode \in {"base", "USD"} /\ listedRates' \in ListedRates
      /\ currencies' \in {"loading", "loaded", "failed"}
  BY <1>1 DEF BoxInv, BoxShapes, baseCode
<1>4. ClosedBox \in Boxes /\ ClosedBox.focused = FALSE /\ ClosedBox.text = 0 /\ ClosedBox.typed = 0
  BY BoxConstants DEF ClosedBox
<1> DEFINE d == Defaults(listedMoney, baseCode)
<1>5. CASE box' = [FilledBox(ClosedBox, listedMoney, baseCode, d.typed) EXCEPT !.hydrated = currencies # "loading"]
  <2>1. d.typed \in Int /\ (currencies # "loading") \in BOOLEAN
    BY <1>3, DefaultsIs
  <2>2. /\ box' \in Boxes /\ box'.mode = "edit" /\ box'.from = listedMoney /\ box'.base = baseCode /\ box'.text = d.typed
        /\ box'.typed = d.typed /\ box'.code = d.code /\ box'.focused = FALSE
    <3>1. box' = FilledAs(ClosedBox, listedMoney, baseCode, d.typed, currencies # "loading")
      BY <1>5 DEF FilledAs
    <3>2. PICK h \in BOOLEAN : box' = FilledAs(ClosedBox, listedMoney, baseCode, d.typed, h)
      BY <3>1
    <3>3. QED
      BY <1>3, <1>4, <2>1, <3>2, FilledIs
  <2>3. BoxHolds' /\ BoxSaysWhatItHolds'
    BY <1>3, <2>2 DEF BoxHolds, BoxSaysWhatItHolds
  <2>4. QED
    BY <1>1, <1>2, <1>3, <2>2, <2>3, BoxMoves
<1>6. CASE box' = [ClosedBox EXCEPT !.mode = "entry"]
  <2>1. box' \in Boxes /\ box'.mode = "entry" /\ box'.focused = FALSE /\ box'.text = 0 /\ box'.typed = 0
    BY <1>4, <1>6 DEF Boxes
  <2>2. BoxHolds' /\ BoxSaysWhatItHolds'
    BY <2>1 DEF BoxHolds, BoxSaysWhatItHolds
  <2>3. QED
    BY <1>1, <1>2, <1>3, <2>1, <2>2, BoxMoves
<1>7. QED
  BY <1>5, <1>6 DEF OpenBox

\* A change of the fields that leaves where they came from.
LEMMA FieldsMove ==
  ASSUME BoxInv, UNCHANGED <<storedMoney, listedMoney, serverRates, listedRates, currencies, boxSave, lastStored>>,
         box' \in Boxes, box'.mode = box.mode, box'.from = box.from, box'.base = box.base,
         box'.touched \/ (box'.touched = box.touched /\ box'.typed = box.typed /\ box'.code = box.code),
         boxNotes' \subseteq {"refilled"}, BoxSaysWhatItHolds'
  PROVE  BoxInv'
<1>1. BoxHolds'
  BY DEF BoxInv, BoxHolds
<1>2. listedRates' \in ListedRates /\ currencies' \in {"loading", "loaded", "failed"}
  BY DEF BoxInv, BoxShapes
<1>3. QED
  BY <1>1, <1>2, BoxMoves

LEMMA FieldsKeep ==
  ASSUME BoxInv, TypeAmount \/ FocusBox \/ BlurBox \/ FlipRefund \/ PickCurrency
  PROVE  BoxInv'
<1>1. UNCHANGED <<storedMoney, listedMoney, serverRates, listedRates, currencies, boxSave, lastStored>>
  BY DEF TypeAmount, FocusBox, BlurBox, FlipRefund, PickCurrency
<1>2. box \in Boxes /\ boxNotes \subseteq {"refilled"} /\ box.typed \in Nat /\ box.text \in Int /\ box.negative \in BOOLEAN
      /\ BoxSaysWhatItHolds
  BY DEF BoxInv, BoxShapes, Boxes
<1>9. box.typed \in Int
  BY <1>2
<1>3. CASE TypeAmount
  <2>1. PICK text \in BoxAmounts \cup {0, -1} :
          box' = [box EXCEPT !.text = text, !.typed = IF text = -1 THEN 0 ELSE text, !.touched = TRUE]
    BY <1>3 DEF TypeAmount
  <2>6. text \in Nat \/ text = -1
    BY BoxConstants
  <2>7. box.focused /\ boxNotes' = {}
    BY <1>3 DEF TypeAmount
  <2>2. text \in Int /\ (IF text = -1 THEN 0 ELSE text) \in Nat /\ box.focused /\ boxNotes' = {}
    BY <2>6, <2>7
  <2>3. /\ box' \in Boxes /\ box'.mode = box.mode /\ box'.from = box.from /\ box'.base = box.base /\ box'.touched
        /\ box'.text = text /\ box'.typed = (IF text = -1 THEN 0 ELSE text) /\ box'.focused = box.focused
    BY <1>2, <2>1, <2>2 DEF Boxes
  <2>4. BoxSaysWhatItHolds'
    BY <2>2, <2>3 DEF BoxSaysWhatItHolds
  <2>5. QED
    BY <1>1, <2>2, <2>3, <2>4, FieldsMove
<1>4. CASE FocusBox
  <2>1. box' = [box EXCEPT !.focused = TRUE] /\ ~box.focused /\ boxNotes' = boxNotes
    BY <1>4 DEF FocusBox
  <2>2. /\ box' \in Boxes /\ box'.mode = box.mode /\ box'.from = box.from /\ box'.base = box.base
        /\ box'.touched = box.touched /\ box'.typed = box.typed /\ box'.code = box.code /\ box'.text = box.text
        /\ box'.focused
    BY <1>2, <2>1 DEF Boxes
  <2>3. BoxSaysWhatItHolds'
    BY <1>2, <2>1, <2>2 DEF BoxSaysWhatItHolds
  <2>4. QED
    BY <1>1, <1>2, <2>1, <2>2, <2>3, FieldsMove
<1>5. CASE BlurBox
  <2>1. box' = [box EXCEPT !.focused = FALSE, !.text = box.typed] /\ boxNotes' = {}
    BY <1>5 DEF BlurBox
  <2>2. /\ box' \in Boxes /\ box'.mode = box.mode /\ box'.from = box.from /\ box'.base = box.base
        /\ box'.touched = box.touched /\ box'.typed = box.typed /\ box'.code = box.code /\ box'.text = box.typed
        /\ ~box'.focused
    BY <1>2, <1>9, <2>1 DEF Boxes
  <2>3. BoxSaysWhatItHolds'
    BY <2>2 DEF BoxSaysWhatItHolds
  <2>4. QED
    BY <1>1, <2>1, <2>2, <2>3, FieldsMove
<1>6. CASE FlipRefund
  <2>1. box' = [box EXCEPT !.negative = ~@] /\ boxNotes' = boxNotes
    BY <1>6 DEF FlipRefund
  <2>2. /\ box' \in Boxes /\ box'.mode = box.mode /\ box'.from = box.from /\ box'.base = box.base
        /\ box'.touched = box.touched /\ box'.typed = box.typed /\ box'.code = box.code /\ box'.text = box.text
        /\ box'.focused = box.focused
    BY <1>2, <2>1 DEF Boxes
  <2>3. BoxSaysWhatItHolds'
    BY <1>2, <2>1, <2>2 DEF BoxSaysWhatItHolds
  <2>4. QED
    BY <1>1, <1>2, <2>1, <2>2, <2>3, FieldsMove
<1>7. CASE PickCurrency
  <2>1. PICK c \in {"base"} \cup {f \in ForeignCodes : listedRates[f] # 0} :
          box' = [box EXCEPT !.code = c, !.focused = FALSE, !.text = box.typed, !.touched = TRUE]
    BY <1>7 DEF PickCurrency
  <2>2. boxNotes' = {} /\ c \in ForeignCodes \cup {"base", "USD"}
    BY <1>7 DEF PickCurrency
  <2>3. /\ box' \in Boxes /\ box'.mode = box.mode /\ box'.from = box.from /\ box'.base = box.base
        /\ box'.touched /\ box'.typed = box.typed /\ box'.text = box.typed /\ ~box'.focused
    BY <1>2, <1>9, <2>1, <2>2 DEF Boxes
  <2>4. BoxSaysWhatItHolds'
    BY <2>3 DEF BoxSaysWhatItHolds
  <2>5. QED
    BY <1>1, <2>2, <2>3, <2>4, FieldsMove
<1>8. QED
  BY <1>3, <1>4, <1>5, <1>6, <1>7

LEMMA CancelBoxKeeps ==
  ASSUME BoxInv, CancelBox
  PROVE  BoxInv'
<1>1. /\ boxSave = NoBoxSave /\ box' = ClosedBox
      /\ UNCHANGED <<storedMoney, listedMoney, serverRates, listedRates, currencies, boxSave, lastStored, boxNotes>>
  BY DEF CancelBox
<1>2. BoxHolds' /\ BoxSaysWhatItHolds'
  BY <1>1, BoxConstants DEF BoxHolds, BoxSaysWhatItHolds
<1>3. listedRates' \in ListedRates /\ currencies' \in {"loading", "loaded", "failed"} /\ boxNotes' \subseteq {"refilled"}
  BY <1>1 DEF BoxInv, BoxShapes
<1>4. QED
  BY <1>1, <1>2, <1>3, BoxConstants, BoxMoves

\* A save that goes out takes what the form held and the box said.
LEMMA BoxTaken ==
  ASSUME BoxInv, box.mode \in {"edit", "entry"}, currencies \in {"loaded", "failed"},
         UNCHANGED <<storedMoney, listedMoney, serverRates, listedRates, currencies, box, lastStored, boxNotes>>,
         NEW s, boxSave' = s,
         s = [phase |-> s.phase, mode |-> s.mode, typed |-> s.typed, negative |-> s.negative, code |-> s.code,
              untouched |-> s.untouched, from |-> s.from, misread |-> s.misread, says |-> s.says, row |-> s.row,
              rates |-> s.rates],
         s.phase = "asked", s.mode = box.mode, s.typed = box.typed, s.negative = box.negative,
         s.row = listedMoney, s.rates = listedRates, s.from = box.from,
         s.untouched = (box.mode = "edit" /\ ~box.touched), s.misread = (box.mode = "edit" /\ Misread),
         s.code = IF box.code = baseCode THEN "base" ELSE box.code, s.says \in Nat,
         \/ s.code = "base" /\ s.says = Rounded(s.typed, 2)
         \/ /\ s.code \in ForeignCodes /\ s.rates[s.code] # 0
            /\ s.says = IF s.mode = "edit" /\ Frozen(s, s.row) THEN Magnitude(s.row.cents)
                        ELSE Rounded(s.typed, 2 * s.rates[s.code])
  PROVE  BoxInv'
<1>1. /\ box \in Boxes /\ box.typed \in Nat /\ box.negative \in BOOLEAN
      /\ box.touched \in BOOLEAN /\ box.base \in {"base", "USD"}
      /\ box.from \in {<<>>} \cup MoneyRows /\ listedMoney \in MoneyRows /\ listedRates \in ListedRates
  BY DEF BoxInv, BoxShapes, Boxes
<1>2. (box.mode = "edit" /\ ~box.touched) \in BOOLEAN /\ (box.mode = "edit" /\ Misread) \in BOOLEAN
  OBVIOUS
<1>3. s.untouched \in BOOLEAN /\ s.misread \in BOOLEAN
  BY <1>2
<1>4. s \in BoxSaves
  <2>1. s.code \in ForeignCodes \cup {"base"}
    OBVIOUS
  <2>2. QED
    BY <1>1, <1>3, <2>1 DEF BoxSaves
<1>5. ASSUME s.untouched, ~s.misread
      PROVE  /\ s.mode = "edit" /\ s.from \in MoneyRows
             /\ s.from.orig # 0 => s.code = s.from.code /\ s.typed = 2 * Magnitude(s.from.orig)
             /\ s.from.orig = 0 => s.code = "base" /\ s.typed = 2 * Magnitude(s.from.cents)
  <2>1. box.mode = "edit" /\ ~box.touched /\ ~Misread
    BY <1>5
  <2>2. /\ box.from \in MoneyRows /\ box.typed = Defaults(box.from, box.base).typed
        /\ box.code = Defaults(box.from, box.base).code
    BY <2>1 DEF BoxInv, BoxHolds
  <2>3. /\ box.typed = IF box.from.orig # 0 THEN 2 * Magnitude(box.from.orig) ELSE 2 * Magnitude(box.from.cents)
        /\ box.code = IF box.from.orig # 0 THEN box.from.code ELSE box.base
    BY <1>1, <2>2, DefaultsIs
  <2>4. box.from.orig = 0 <=> box.from.code = "base"
    BY <2>2 DEF MoneyRows
  <2>5. ~(box.from.code = "USD" /\ baseCode = "USD") /\ ~(box.from.code = "base" /\ box.base # baseCode)
    BY <2>1 DEF Misread
  <2>6. CASE box.from.orig = 0
    <3>1. box.code = baseCode /\ box.typed = 2 * Magnitude(box.from.cents)
      BY <2>3, <2>4, <2>5, <2>6
    <3>2. QED
      BY <2>1, <2>2, <2>6, <3>1
  <2>7. CASE box.from.orig # 0
    <3>1. box.code = box.from.code /\ box.code # "base" /\ box.typed = 2 * Magnitude(box.from.orig)
      BY <2>3, <2>4, <2>7
    <3>2. box.code # baseCode
      BY <2>5, <3>1 DEF baseCode
    <3>3. QED
      BY <2>1, <2>2, <2>7, <3>1, <3>2
  <2>8. QED
    BY <2>6, <2>7
<1>6. SaveTakes(s)
  BY <1>5 DEF SaveTakes
<1>7. BoxShapes'
  BY <1>4 DEF BoxInv, BoxShapes
<1>8. BoxHolds' /\ BoxSaysWhatItHolds'
  BY DEF BoxInv, BoxHolds, BoxSaysWhatItHolds
<1>9. SaveTakes(boxSave)'
  BY <1>6 DEF SaveTakes, Frozen
<1>10. BoxSaving'
  BY <1>9 DEF BoxSaving
<1>11. MoneyIsAsShown'
  BY MoneyStays DEF BoxInv
<1>12. QED
  BY <1>7, <1>8, <1>10, <1>11 DEF BoxInv

LEMMA SaveBoxKeeps ==
  ASSUME BoxInv, SaveBox
  PROVE  BoxInv'
<1> DEFINE s == [phase |-> "asked", mode |-> box.mode, typed |-> box.typed, negative |-> box.negative,
                 code |-> IF box.code = baseCode THEN "base" ELSE box.code,
                 untouched |-> box.mode = "edit" /\ ~box.touched, from |-> box.from,
                 misread |-> box.mode = "edit" /\ Misread,
                 says |-> IF ShowsPreview(box) THEN previewValue(box) ELSE Rounded(box.typed, 2),
                 row |-> listedMoney, rates |-> listedRates]
<1>1. /\ box.mode # "closed" /\ currencies # "loading" /\ (box.code # baseCode => ShowsPreview(box))
      /\ boxSave' = s
      /\ UNCHANGED <<storedMoney, listedMoney, serverRates, listedRates, currencies, box, lastStored, boxNotes>>
  BY DEF SaveBox
<1>2. /\ box \in Boxes /\ box.mode \in {"edit", "entry"} /\ box.typed \in Nat /\ box.negative \in BOOLEAN
      /\ box.touched \in BOOLEAN /\ box.base \in {"base", "USD"}
      /\ box.from \in {<<>>} \cup MoneyRows /\ listedMoney \in MoneyRows /\ listedRates \in ListedRates
      /\ currencies \in {"loading", "loaded", "failed"}
  BY <1>1 DEF BoxInv, BoxShapes, Boxes
<1>3. /\ s.mode = box.mode /\ s.typed = box.typed /\ s.row = listedMoney /\ s.rates = listedRates /\ s.from = box.from
      /\ s.code = IF box.code = baseCode THEN "base" ELSE box.code
      /\ s.untouched = (box.mode = "edit" /\ ~box.touched) /\ s.misread = (box.mode = "edit" /\ Misread)
      /\ s.says = IF ShowsPreview(box) THEN previewValue(box) ELSE Rounded(box.typed, 2)
      /\ s.phase = "asked" /\ s.negative = box.negative
  OBVIOUS
<1>4. s = [phase |-> s.phase, mode |-> s.mode, typed |-> s.typed, negative |-> s.negative, code |-> s.code,
           untouched |-> s.untouched, from |-> s.from, misread |-> s.misread, says |-> s.says, row |-> s.row,
           rates |-> s.rates]
  OBVIOUS
<1> HIDE DEF s
<1>5. Rounded(box.typed, 2) \in Nat
  BY <1>2, RoundedNat
<1>6. CASE ~ShowsPreview(box)
  <2>1. s.code = "base" /\ s.says = Rounded(s.typed, 2)
    BY <1>1, <1>3, <1>6
  <2>2. s.says \in Nat
    BY <1>3, <1>5, <1>6
  <2>3. QED
    BY <1>1, <1>2, <1>3, <1>4, <2>1, <2>2, BoxTaken
<1>7. CASE ShowsPreview(box)
  <2>1. /\ currencies = "loaded" /\ box.code \in ForeignCodes /\ listedRates[box.code] # 0
        /\ baseCode = "base" /\ box.code # "base"
    BY <1>7, BoxConstants DEF ShowsPreview, baseCode
  <2>2. s.code = box.code /\ s.says = previewValue(box)
    BY <1>3, <1>7, <2>1
  <2>3. listedRates[box.code] \in Nat \ {0}
    BY <1>2, <2>1, BoxConstants DEF ListedRates
  <2>4. Frozen(s, s.row) <=> Frozen(box, listedMoney)
    BY <1>3, <2>2 DEF Frozen
  <2>5. s.says = IF s.mode = "edit" /\ Frozen(s, s.row) THEN Magnitude(s.row.cents)
                 ELSE Rounded(s.typed, 2 * s.rates[s.code])
    BY <1>3, <2>2, <2>4 DEF previewValue
  <2>6. s.says \in Nat
    <3>1. Magnitude(listedMoney.cents) \in Nat
      BY <1>2 DEF Magnitude, MoneyRows
    <3>2. 2 * listedRates[box.code] \in Nat \ {0}
      BY <2>3
    <3>3. Rounded(box.typed, 2 * listedRates[box.code]) \in Nat
      BY <1>2, <3>2, RoundedNat
    <3>4. QED
      BY <2>2, <3>1, <3>3 DEF previewValue
  <2>7. QED
    BY <1>1, <1>2, <1>3, <1>4, <2>1, <2>2, <2>5, <2>6, BoxTaken
<1>8. QED
  BY <1>6, <1>7

LEMMA ServeBoxSaveKeeps ==
  ASSUME BoxInv, ServeBoxSave
  PROVE  BoxInv'
<1>1. boxSave \in BoxSaves /\ SaveTakes(boxSave) /\ box.mode = boxSave.mode
  BY DEF BoxInv, BoxShapes, BoxSaving, ServeBoxSave, NoBoxSave
<1>2. storedMoney \in MoneyRows /\ serverRates \in AllRates
  BY DEF BoxInv, BoxShapes
<1>3. UNCHANGED <<listedMoney, serverRates, listedRates, currencies, box, boxNotes>>
  BY DEF ServeBoxSave
<1>4. BoxHolds' /\ BoxSaysWhatItHolds'
  BY <1>3 DEF BoxInv, BoxHolds, BoxSaysWhatItHolds
<1> DEFINE s == boxSave
           priced == Priced(s.typed, s.code, s.negative, serverRates)
           Restates == s.mode = "edit" /\ Frozen(s, s.row)
<1>5. \E ok \in {"ok", "failed"} : boxSave' = [boxSave EXCEPT !.phase = ok]
  BY DEF ServeBoxSave
<1>6. boxSave' \in BoxSaves /\ boxSave'.mode = boxSave.mode
  BY <1>1, <1>5 DEF BoxSaves
<1>7. SaveTakes(boxSave)'
  <2>1. PICK ok \in {"ok", "failed"} : boxSave' = [boxSave EXCEPT !.phase = ok]
    BY <1>5
  <2>2. /\ boxSave'.mode = s.mode /\ boxSave'.code = s.code /\ boxSave'.says = s.says /\ boxSave'.typed = s.typed
        /\ boxSave'.rates = s.rates /\ boxSave'.row = s.row /\ boxSave'.untouched = s.untouched
        /\ boxSave'.misread = s.misread /\ boxSave'.from = s.from
    BY <1>1, <2>1 DEF BoxSaves
  <2>3. QED
    BY <1>1, <2>2 DEF SaveTakes, Frozen
<1>8. BoxSaving'
  BY <1>1, <1>3, <1>6, <1>7 DEF BoxSaving
<1>9. CASE UNCHANGED <<storedMoney, lastStored>>
  <2>1. BoxShapes'
    BY <1>3, <1>6, <1>9 DEF BoxInv, BoxShapes
  <2>2. MoneyIsAsShown'
    BY <1>9, MoneyStays DEF BoxInv
  <2>3. QED
    BY <1>4, <1>8, <2>1, <2>2 DEF BoxInv
<1>10. CASE \E p \in priced :
              LET row == IF s.mode = "edit" THEN Kept(storedMoney, p) ELSE p
              IN  /\ storedMoney' = (IF s.mode = "edit" THEN row ELSE storedMoney)
                  /\ lastStored' = [served |-> TRUE, save |-> s, before |-> storedMoney, after |-> row,
                                    frozen |-> s.mode = "edit" /\ Frozen(s, s.row),
                                    stale |-> \/ s.mode = "edit" /\ s.row # storedMoney
                                              \/ /\ s.code # "base" /\ ~(s.mode = "edit" /\ Frozen(s, s.row))
                                                 /\ s.rates[s.code] # serverRates[s.code]]
  <2>1. PICK p \in priced :
              LET row == IF s.mode = "edit" THEN Kept(storedMoney, p) ELSE p
              IN  /\ storedMoney' = (IF s.mode = "edit" THEN row ELSE storedMoney)
                  /\ lastStored' = [served |-> TRUE, save |-> s, before |-> storedMoney, after |-> row,
                                    frozen |-> s.mode = "edit" /\ Frozen(s, s.row),
                                    stale |-> \/ s.mode = "edit" /\ s.row # storedMoney
                                              \/ /\ s.code # "base" /\ ~(s.mode = "edit" /\ Frozen(s, s.row))
                                                 /\ s.rates[s.code] # serverRates[s.code]]
    BY <1>10
  <2> DEFINE a == IF s.mode = "edit" THEN Kept(storedMoney, p) ELSE p
             stale == \/ s.mode = "edit" /\ s.row # storedMoney
                      \/ s.code # "base" /\ ~Restates /\ s.rates[s.code] # serverRates[s.code]
  <2>2. /\ storedMoney' = (IF s.mode = "edit" THEN a ELSE storedMoney)
        /\ lastStored' = [served |-> TRUE, save |-> s, before |-> storedMoney, after |-> a,
                          frozen |-> Restates, stale |-> stale]
    BY <2>1
  <2>3. /\ lastStored'.served /\ lastStored'.save = s /\ lastStored'.before = storedMoney /\ lastStored'.after = a
        /\ (lastStored'.frozen <=> Restates) /\ (lastStored'.stale <=> stale)
    <3> HIDE DEF a, stale, Restates
    <3>1. QED
      BY <2>2
  <2>4. a = IF s.mode = "edit" THEN Kept(storedMoney, p) ELSE p
    OBVIOUS
  <2> HIDE DEF a
  <2>5. /\ a \in MoneyRows
        /\ (a.cents < 0) = s.negative /\ (a.orig # 0 => (a.orig < 0) = s.negative)
        /\ s.untouched /\ s.from = storedMoney /\ ~s.misread
           => Magnitude(a.cents) = Magnitude(storedMoney.cents) /\ a.code = storedMoney.code
              /\ a.booked = storedMoney.booked
        /\ /\ s.mode = "edit" => s.row = storedMoney
           /\ s.code # "base" /\ ~Restates => s.rates[s.code] = serverRates[s.code]
           /\ Restates \/ s.code = "base" \/ s.typed % 2 = 0
           => Magnitude(a.cents) = s.says
    BY <1>1, <1>2, <2>1, <2>4, StoredAsTaken
  <2>6. BoxShapes'
    BY <1>2, <1>3, <1>6, <2>2, <2>5 DEF BoxInv, BoxShapes
  <2>7. PreviewIsStored'
    <3>1. ASSUME ~stale, Restates \/ s.code = "base" \/ s.typed % 2 = 0 PROVE Magnitude(a.cents) = s.says
      BY <2>5, <3>1
    <3> HIDE DEF s, stale, Restates
    <3>2. QED
      BY <2>3, <3>1 DEF PreviewIsStored
  <2>8. UntouchedMoneyStays'
    <3> HIDE DEF s, stale, Restates
    <3>1. QED
      BY <2>3, <2>5 DEF UntouchedMoneyStays
  <2>9. QED
    BY <1>4, <1>8, <2>6, <2>7, <2>8 DEF BoxInv, MoneyIsAsShown
<1>11. QED
  BY <1>9, <1>10 DEF ServeBoxSave

LEMMA BoxSaveAnsweredKeeps ==
  ASSUME BoxInv, BoxSaveAnswered
  PROVE  BoxInv'
<1>1. boxSave \in BoxSaves /\ box.mode = boxSave.mode
  BY DEF BoxInv, BoxShapes, BoxSaving, BoxSaveAnswered, NoBoxSave
<1>2. /\ boxSave' = NoBoxSave
      /\ UNCHANGED <<storedMoney, listedMoney, serverRates, listedRates, currencies, lastStored, boxNotes>>
  BY DEF BoxSaveAnswered
<1>3. box' = box \/ box' = ClosedBox \/ (box.mode # "edit" /\ box' = Cleared(box))
  BY <1>1 DEF BoxSaveAnswered
<1>4. box \in Boxes
  BY DEF BoxInv, BoxShapes
<1>5. box' \in Boxes /\ BoxHolds' /\ BoxSaysWhatItHolds'
  <2>1. CASE box' = box
    BY <1>2, <1>4, <2>1 DEF BoxInv, BoxHolds, BoxSaysWhatItHolds
  <2>2. CASE box' = ClosedBox
    BY <2>2, BoxConstants DEF BoxHolds, BoxSaysWhatItHolds
  <2>3. CASE box.mode # "edit" /\ box' = Cleared(box)
    <3>1. box' \in Boxes /\ box'.mode = box.mode /\ box'.typed = 0 /\ box'.text = 0 /\ box'.focused = FALSE
      <4>1. /\ box' = [box EXCEPT !.typed = 0, !.negative = FALSE, !.focused = FALSE, !.text = 0]
            /\ box.mode \in {"closed", "edit", "entry"}
        BY <1>4, <2>3 DEF Cleared, Boxes
      <4>2. box' = [mode |-> box.mode, typed |-> 0, text |-> 0, code |-> box.code, negative |-> FALSE,
                    focused |-> FALSE, hydrated |-> box.hydrated, touched |-> box.touched, from |-> box.from,
                    base |-> box.base]
        BY <1>4, <4>1 DEF Boxes
      <4>3. QED
        BY <1>4, <4>2 DEF Boxes
    <3>2. QED
      BY <2>3, <3>1 DEF BoxHolds, BoxSaysWhatItHolds
  <2>4. QED
    BY <1>3, <2>1, <2>2, <2>3
<1>6. BoxShapes'
  BY <1>2, <1>5 DEF BoxInv, BoxShapes
<1>7. BoxSaving'
  BY <1>2 DEF BoxSaving
<1>8. MoneyIsAsShown'
  BY <1>2, MoneyStays DEF BoxInv
<1>9. QED
  BY <1>5, <1>6, <1>7, <1>8 DEF BoxInv

LEMMA BoxStands ==
  ASSUME BoxInv, UNCHANGED boxVars
  PROVE  BoxInv'
BY DEF BoxInv, BoxShapes, BoxHolds, BoxSaving, BoxSaysWhatItHolds, MoneyIsAsShown, PreviewIsStored,
       UntouchedMoneyStays, SaveTakes, boxVars

LEMMA BoxSteps ==
  ASSUME BoxInv, [BoxNext]_boxVars
  PROVE  BoxInv'
<1>1. CASE UNCHANGED boxVars
  BY <1>1, BoxStands
<1>2. CASE BoxNext
  BY <1>2, BoxOthersKeep, CurrenciesKeep, OpenBoxKeeps, FieldsKeep, CancelBoxKeeps, SaveBoxKeeps,
     ServeBoxSaveKeeps, BoxSaveAnsweredKeeps DEF BoxNext
<1>3. QED
  BY <1>1, <1>2

\* The amount box says what its form holds, and what it shows of foreign money is what a
\* save stores, for any rates (AmountCurrencyInput.tsx, currency.ts).
THEOREM AmountHolds == BoxSpec => [](BoxTypeOK /\ BoxSaysWhatItHolds /\ MoneyIsAsShown)
<1>1. BoxInv => BoxTypeOK /\ BoxSaysWhatItHolds /\ MoneyIsAsShown
  BY BoxTyped DEF BoxInv
<1>2. QED
  BY <1>1, BoxStarts, BoxSteps, PTL DEF BoxSpec

(***************************************************************************)
(* The client.                                                             *)
(***************************************************************************)
\* A section of the client behaves as its own module specifies it.
LEMMA EachIsSection ==
  WebSpec =>
    /\ ImportSpec /\ EntrySpec /\ EditSpec /\ TrashSpec /\ BudgetSpec /\ GuardSpec
    /\ LimitSpec /\ SavingsSpec /\ QuickSpec /\ HeatSpec /\ BoxSpec
<1>1. WebInit =>
        /\ ImportInit /\ EntryInit /\ EditInit /\ TrashInit /\ BudgetInit /\ GuardInit
        /\ LimitInit /\ SavingsInit /\ QuickAddInit /\ HeatInit /\ BoxInit
  BY DEF WebInit
<1>2. [WebNext]_clientVars => [ImportNext]_importVars
  BY DEF WebNext, clientVars
<1>3. [WebNext]_clientVars => [EntryNext]_entryVars
  BY DEF WebNext, clientVars
<1>4. [WebNext]_clientVars => [EditNext]_editVars
  BY DEF WebNext, clientVars
<1>5. [WebNext]_clientVars => [TrashNext]_trashVars
  BY DEF WebNext, clientVars
<1>6. [WebNext]_clientVars => [BudgetNext]_budgetVars
  BY DEF WebNext, clientVars
<1>7. [WebNext]_clientVars => [GuardNext]_guardVars
  BY DEF WebNext, clientVars
<1>8. [WebNext]_clientVars => [LimitNext]_limitVars
  BY DEF WebNext, clientVars
<1>9. [WebNext]_clientVars => [SavingsNext]_goalVars
  BY DEF WebNext, clientVars
<1>10. [WebNext]_clientVars => [QuickAddNext]_quickVars
  BY DEF WebNext, clientVars
<1>11. [WebNext]_clientVars => [HeatNext]_heatVars
  BY DEF WebNext, clientVars
<1>12. [WebNext]_clientVars => [BoxNext]_boxVars
  BY DEF WebNext, clientVars
<1>13. QED
  BY <1>1, <1>2, <1>3, <1>4, <1>5, <1>6, <1>7, <1>8, <1>9, <1>10, <1>11, <1>12,
     PTL DEF WebSpec, ImportSpec, EntrySpec, EditSpec, TrashSpec, BudgetSpec, GuardSpec, LimitSpec,
             SavingsSpec, QuickSpec, HeatSpec, BoxSpec

\* Every section's state is of its type, for any number of rows, keys, months, goals,
\* years and acts (the components' useState and useRef hooks and what they hold).
THEOREM PagesTyped == WebSpec => []PagesTypeOK
<1>1. WebSpec => [](section \in Sections)
  <2>1. WebInit => section \in Sections
    BY DEF WebInit
  <2>2. section \in Sections /\ [WebNext]_clientVars => (section \in Sections)'
    BY DEF WebNext, clientVars
  <2>3. QED
    BY <2>1, <2>2, PTL DEF WebSpec
<1>2. /\ section \in Sections
      /\ ImportTypeOK /\ EntryTypeOK /\ EditTypeOK /\ TrashTypeOK /\ BudgetTypeOK
      /\ GuardTypeOK /\ LimitTypeOK /\ SavingsTypeOK /\ QuickAddTypeOK /\ HeatTypeOK /\ BoxTypeOK
      => PagesTypeOK
  BY DEF PagesTypeOK
<1>3. QED
  BY <1>1, <1>2, EachIsSection, ImportHolds, EntryHolds, EditHolds, TrashHolds, BudgetHolds, GuardHolds,
     LimitHolds, SavingsHolds, QuickHolds, HeatHolds, AmountHolds, PTL

\* An import records no row of the file twice, and one that succeeds leaves out no row the
\* user kept, but those recorded between its gate and its transaction, for a file of any
\* number of rows and however its answers are lost or late (useImportSession.ts,
\* import_handlers.go).
THEOREM ImportsOnce == WebSpec => []ImportRecordsEachRowOnce
<1>1. NoDoubleImport /\ ConfirmRecordsAll => ImportRecordsEachRowOnce
  BY DEF ImportRecordsEachRowOnce
<1>2. QED
  BY <1>1, EachIsSection, ImportHolds, PTL

\* What a confirmed import records is what its preview showed, the preview is the server's
\* session and localStorage names it, with the edits unseen, late, cancelled or raced and
\* the last writes of earlier mounts that the properties set aside (useImportSession.ts,
\* ImportPreviewTable.tsx).
THEOREM ImportsTheShown == WebSpec => []ImportShowsWhatItImports
<1>1. ImportsWhatWasShown /\ PreviewTracksServer /\ PreviewIsResumable => ImportShowsWhatItImports
  BY DEF ImportShowsWhatItImports
<1>2. QED
  BY <1>1, EachIsSection, ImportHolds, PTL

\* The trash on screen and its ticks are the server's, for a trash of any size, but for
\* answers out of order or for a page that was left, failures and other members' changes
\* (TrashPage in Trash.tsx).
THEOREM TrashIsShown == WebSpec => []TrashScreenHolds
<1>1. TrashScreenIsTrue /\ TicksAreOnScreen => TrashScreenHolds
  BY DEF TrashScreenHolds
<1>2. QED
  BY <1>1, EachIsSection, TrashHolds, PTL

\* A form that saves leaves the server with what it showed, in each of the six forms and
\* for any number of months, categories, goals, transactions, drafts and rates, but for the
\* months, categories and goals another device wrote meanwhile and the loads the properties
\* set aside (handleSave and its siblings).
THEOREM SavesTheShown == WebSpec => []SavedIsWhatWasShown
<1>1. /\ SavedYearIsWhatWasShown /\ SavedLimitsAreWhatWasShown /\ LimitsFormComesBack
      /\ GoalReplacementIsTold /\ GoalsShownAreTrue /\ LastSaveStands /\ CategoryIsOfKind /\ MoneyIsAsShown
      => SavedIsWhatWasShown
  BY DEF SavedIsWhatWasShown
<1>2. QED
  BY <1>1, EachIsSection, BudgetHolds, LimitHolds, SavingsHolds, EditHolds, QuickHolds, AmountHolds, PTL

\* No answer takes away what was typed since its request was sent, but for the entry row that
\* empties itself under an entry typed while the first was being sent, an undo over another
\* entry, and a currency that refills the form (TransactionEntryRow.tsx, QuickAdd.tsx,
\* useTransactionEditForm.ts, AmountCurrencyInput.tsx).
THEOREM TypingSurvives == WebSpec => []TypedIsKept
<1>1. EntryKept /\ DraftKept /\ EditKept /\ BoxSaysWhatItHolds => TypedIsKept
  BY DEF TypedIsKept
<1>2. QED
  BY <1>1, EachIsSection, EntryHolds, QuickHolds, EditHolds, AmountHolds, PTL

\* What was typed once is one row unless the user saved it again with its outcome unknown,
\* refused after it had landed, or overtaken by another entry's answer, or brought it back
\* with Escape, for any number of entries, retries and undos (TransactionEntryRow.tsx,
\* QuickAdd.tsx).
THEOREM OneRowEach == WebSpec => []OneRowPerWrite
<1>1. OneRowPerEntry /\ OneRowPerDraft => OneRowPerWrite
  BY DEF OneRowPerWrite
<1>2. QED
  BY <1>1, EachIsSection, EntryHolds, QuickHolds, PTL

\* No way off the budgets page drops its unsaved changes without being asked for, for a
\* history of any length (Budgets.tsx).
THEOREM GuardNeverSlips == WebSpec => []EditsAreGuarded
BY EachIsSection, GuardHolds, PTL

\* The heatmap's grid, tab stop, colours and sheet are true in every year and month of the
\* calendar, for any spending (SpendingHeatmap.tsx, heatmapGrid.ts).
THEOREM HeatmapHolds == WebSpec => []HeatmapIsTrue
<1>1. GridIsTrue /\ OneTabStop /\ ColoursRankDays /\ SheetTellsItsCell /\ HeatFocusKept => HeatmapIsTrue
  BY DEF HeatmapIsTrue
<1>2. QED
  BY <1>1, EachIsSection, HeatHolds, PTL
=============================================================================
