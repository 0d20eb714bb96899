------------------------ MODULE OfflineCaptureProofs ------------------------
(***************************************************************************)
(* Proofs about captures on one device, for any number of tabs, users and  *)
(* captures, any poison cap and any mishaps in any number.                 *)
(***************************************************************************)
EXTENDS OfflineCapture, SequenceTheorems, FiniteSetTheorems, TLAPS

Tab == [user: Users \cup {None}, unverified: BOOLEAN]
Verify == [res: Users \cup {"none", "lost", "denied"}, stale: BOOLEAN]
Leaving == [at: {"purge", "leave"}, uid: Users] \cup {Staying}
Form == [at: {"off", "open", "post", "enqueue"}, key: Keys \cup {0}, post: Posts]
Drain == [at: {"off", "load", "loop", "await"}, items: Seq(Entry), post: Posts, rerun: BOOLEAN]

(***************************************************************************)
(* The inductive invariant, part by part.                                  *)
(***************************************************************************)
\* What the server, the shared storage and the history hold.
StoresTyped ==
  /\ sessions \subseteq Users /\ ledger \subseteq Users \X Keys
  /\ online \in BOOLEAN /\ cookie \in Users \cup {None} /\ remembered \in Users \cup {None}
  /\ hold \subseteq Users /\ deleting \subseteq Users
  /\ DOMAIN queue \subseteq Keys /\ \A k \in DOMAIN queue : queue[k] \in 0..MaxAttempts
  /\ orphans \subseteq [as: Users, key: Keys]
  /\ owner \in [Keys -> Users \cup {None}]
  /\ accepted \subseteq Keys /\ undone \subseteq Keys /\ quiet \subseteq Keys
  /\ discarded \subseteq Keys /\ exposed \subseteq Users /\ faults \in 0..MaxFaults

\* What the tabs hold.
TabsTyped ==
  /\ tab \in [Tabs -> Tab] /\ conn \in [Tabs -> SUBSET Users] /\ event \in [Tabs -> BOOLEAN]
  /\ verify \in [Tabs -> Verify] /\ leaving \in [Tabs -> Leaving]
  /\ form \in [Tabs -> Form] /\ drain \in [Tabs -> [Users -> Drain]]

\* An open screen has a capture of the user shown; it has a request under way
\* when it is posting.
FormSound(t) ==
  /\ form[t].at = "post" <=> form[t].post # NoPost
  /\ form[t].at = "off" <=> form[t].key = 0
  /\ form[t].at # "off" => owner[form[t].key] = tab[t].user /\ tab[t].user # None

\* A replay goes through captures of its own user; the one it awaits is the
\* head of its copy, and below the poison cap.
DrainSound(t, u) ==
  LET d == drain[t][u] IN
  /\ d.at = "await" <=> d.post # NoPost
  /\ d.at = "await" => d.items # <<>> /\ Head(d.items).attempts < MaxAttempts
  /\ \A i \in DOMAIN d.items : owner[d.items[i].key] = u

\* Captures are numbered in the order they are made.
OwnersSound ==
  /\ \E n \in 0..MaxCaptures : \A k \in Keys : owner[k] # None <=> k <= n
  /\ \A k \in DOMAIN queue : owner[k] # None
  /\ \A k \in accepted \cup quiet : owner[k] # None

Shapes ==
  /\ StoresTyped /\ TabsTyped /\ OwnersSound
  /\ \A t \in Tabs : FormSound(t) /\ \A u \in Users : DrainSound(t, u)

\* An answer of success says the capture is in the ledger.
OkIsRecorded ==
  /\ \A t \in Tabs :
       form[t].post.res = "ok" => <<form[t].post.as, form[t].key>> \in ledger
  /\ \A t \in Tabs, u \in Users :
       drain[t][u].post.res = "ok" => <<drain[t][u].post.as, Head(drain[t][u].items).key>> \in ledger

\* Nothing on the device knows of a capture that was taken back unsent.
Forgotten(k) ==
  /\ k \notin DOMAIN queue /\ ~Recorded(k)
  /\ \A o \in orphans : o.key # k
  /\ \A t \in Tabs : form[t].key # k
  /\ \A t \in Tabs, u \in Users : \A i \in DOMAIN drain[t][u].items : drain[t][u].items[i].key # k

QuietIsForgotten == \A k \in quiet : Forgotten(k)

\* Whoever still acts for v, the cookie is v's own or nobody's; unless v is exposed.
Sheltered(v) == v \in exposed \/ cookie \in {v, None}
SentAs(as, v) == as \in {v, None} \/ v \in exposed

ActsAsSelf ==
  /\ remembered \in Users => Sheltered(remembered)
  /\ \A t \in Tabs :
       /\ tab[t].user \in Users => Sheltered(tab[t].user)
       /\ verify[t].res \in Users /\ ~verify[t].stale => Sheltered(verify[t].res)
       /\ form[t].at = "post" => SentAs(form[t].post.as, owner[form[t].key])
       /\ \A u \in Users :
            /\ drain[t][u].at # "off" => Sheltered(u)
            /\ drain[t][u].at = "await" => SentAs(drain[t][u].post.as, u)
  /\ \A o \in orphans : SentAs(o.as, owner[o.key])
  /\ CrossAccountOnlyIfExposed

IInv == Shapes /\ OkIsRecorded /\ NoCaptureLost /\ QuietIsForgotten /\ ActsAsSelf

\* The parts are what the run checks.
LEMMA IInvTyped == IInv => TypeOK
<1> SUFFICES ASSUME IInv PROVE TypeOK
  OBVIOUS
<1>1. StoresTyped /\ TabsTyped /\ \A t \in Tabs : FormSound(t) /\ \A u \in Users : DrainSound(t, u)
  BY DEF IInv, Shapes
<1>2. /\ tab \in [Tabs -> [user: Users \cup {None}, unverified: BOOLEAN]]
      /\ conn \in [Tabs -> SUBSET Users] /\ event \in [Tabs -> BOOLEAN]
  BY <1>1 DEF TabsTyped, Tab
<1>3. ASSUME NEW t \in Tabs
      PROVE  /\ verify[t] \in Verify /\ leaving[t] \in Leaving /\ form[t] \in Form
             /\ \A u \in Users : drain[t][u] \in Drain
  BY <1>1 DEF TabsTyped
<1>4. ASSUME NEW t \in Tabs
      PROVE  /\ verify[t].res \in Users \cup {"none", "lost", "denied"} /\ verify[t].stale \in BOOLEAN
             /\ leaving[t].at \in {"no", "purge", "leave"} /\ leaving[t].uid \in Users \cup {None}
             /\ form[t].at \in {"off", "open", "post", "enqueue"} /\ form[t].post \in Posts
             /\ (form[t].at = "post") = (form[t].post # NoPost)
             /\ (form[t].at = "off") = (form[t].key = 0)
  BY <1>1, <1>3 DEF Verify, Leaving, Staying, Form, FormSound
<1>5. ASSUME NEW t \in Tabs, NEW u \in Users
      PROVE  /\ drain[t][u].at \in {"off", "load", "loop", "await"} /\ drain[t][u].post \in Posts
             /\ (drain[t][u].at = "await") = (drain[t][u].post # NoPost)
             /\ drain[t][u].items \in Seq(Entry)
  BY <1>1, <1>3 DEF Drain, DrainSound
<1>6. QED
  BY <1>1, <1>2, <1>4, <1>5 DEF TypeOK, StoresTyped

(***************************************************************************)
(* Small facts about the records.                                          *)
(***************************************************************************)
LEMMA Constants ==
  /\ NoPost \in Posts /\ NoPost.res = "none" /\ NoPost.as = None
  /\ NoDrain \in Drain /\ NoDrain.at = "off" /\ NoDrain.items = <<>> /\ NoDrain.post = NoPost
  /\ NoForm \in Form /\ NoForm.at = "off" /\ NoForm.key = 0 /\ NoForm.post = NoPost
  /\ NoVerify \in Verify /\ Staying \in Leaving /\ Nobody \in Tab
BY DEF NoPost, Posts, NoDrain, Drain, NoForm, Form, NoVerify, Verify, Staying, Leaving, Nobody, Tab

LEMMA Bounds == {MaxCaptures, MaxAttempts, MaxFaults} \subseteq Nat /\ MaxAttempts \in Nat
                /\ \A a \in 0..MaxAttempts : a < MaxAttempts => a + 1 \in 0..MaxAttempts
BY BoundsAssumption

\* A request is under way, or there is none.
LEMMA PostTyped ==
  ASSUME NEW p \in Posts
  PROVE  /\ p.as \in Users \cup {None} /\ p.res \in Results \cup {"none"}
         /\ p = NoPost \/ p \in [as: Users \cup {None}, res: Results]
         /\ p.res # "none" => p # NoPost
BY DEF Posts, NoPost, Results

\* The keys in a replay's copy of the queue.
Copied(t, u) == {drain[t][u].items[i].key : i \in DOMAIN drain[t][u].items}

LEMMA CopyTyped ==
  ASSUME NEW s \in Seq(Entry), s # <<>>
  PROVE  /\ Head(s) \in Entry /\ 1 \in DOMAIN s /\ Head(s) = s[1] /\ Tail(s) \in Seq(Entry)
         /\ \A i \in DOMAIN Tail(s) : i + 1 \in DOMAIN s /\ Tail(s)[i] = s[i + 1]
<1>1. /\ Head(s) \in Entry /\ Tail(s) \in Seq(Entry) /\ Len(s) \in Nat /\ Len(s) >= 1
      /\ Head(s) = s[1] /\ DOMAIN s = 1 .. Len(s)
  BY HeadTailProperties, LenProperties
<1>2. Len(Tail(s)) = Len(s) - 1 /\ \A i \in 1 .. Len(Tail(s)) : Tail(s)[i] = s[i + 1]
  BY HeadTailProperties
<1>3. DOMAIN Tail(s) = 1 .. Len(Tail(s))
  BY <1>1, LenProperties
<1>4. QED
  BY <1>1, <1>2, <1>3

LEMMA CopiesTyped ==
  ASSUME TabsTyped, NEW t \in Tabs, NEW u \in Users, DrainSound(t, u)
  PROVE  /\ drain[t][u] \in Drain /\ drain[t][u].items \in Seq(Entry)
         /\ \A k \in Copied(t, u) : k \in Keys /\ owner[k] = u
<1> DEFINE s == drain[t][u].items
<1>1. drain[t][u] \in Drain /\ s \in Seq(Entry)
  BY DEF TabsTyped, Drain
<1>2. \A i \in DOMAIN s : s[i] \in Entry
  BY <1>1, ElementOfSeq, LenProperties
<1>3. \A i \in DOMAIN s : s[i].key \in Keys /\ owner[s[i].key] = u
  BY <1>2 DEF Entry, DrainSound
<1>4. QED
  BY <1>1, <1>3 DEF Copied

(***************************************************************************)
(* Every step but those of the user and of the queue's deletion leaves the *)
(* history alone; what it adds to what the device knows comes from what    *)
(* the device knew, and what it adds to the ledger was under way.          *)
(***************************************************************************)
Known(k) ==
  \/ k \in DOMAIN queue \/ Recorded(k)
  \/ \E o \in orphans : o.key = k
  \/ \E t \in Tabs : form[t].key = k \/ \E u \in Users : k \in Copied(t, u)

LEMMA ForgottenIsUnknown ==
  ASSUME NEW k PROVE Forgotten(k) <=> ~Known(k)
BY DEF Forgotten, Known, Copied

\* What a step may add to the ledger and to the requests under way, on behalf of v.
SendsFor(K, v) ==
  /\ ledger \subseteq ledger' /\ ledger' \subseteq Users \X Keys
  /\ orphans' \subseteq [as: Users, key: Keys]
  /\ \A r \in ledger' \ ledger : r[2] \in K /\ SentAs(r[1], v)
  /\ \A o \in orphans' \ orphans : o.key \in K /\ SentAs(o.as, v)

LEMMA NothingComesBack ==
  ASSUME QuietIsForgotten, quiet' = quiet, \A k \in Keys : Known(k)' => Known(k), quiet \subseteq Keys
  PROVE  QuietIsForgotten'
BY ForgottenIsUnknown DEF QuietIsForgotten, Forgotten, Known, Copied

LEMMA NothingIsLost ==
  ASSUME NoCaptureLost, ledger \subseteq ledger', undone \subseteq undone', discarded \subseteq discarded',
         \A k \in accepted' \ accepted : k \in DOMAIN queue' \/ Recorded(k)',
         \A k \in accepted : k \in DOMAIN queue =>
            k \in DOMAIN queue' \/ Recorded(k)' \/ k \in undone' \/ k \in discarded'
  PROVE  NoCaptureLost'
BY DEF NoCaptureLost, Recorded

(***************************************************************************)
(* One step of a replay: its record becomes X.                             *)
(***************************************************************************)
LEMMA ReplayStep ==
  ASSUME IInv, NEW t \in Tabs, NEW u \in Users, NEW X \in Drain, drain' = [drain EXCEPT ![t][u] = X],
         UNCHANGED <<sessions, online, cookie, remembered, deleting, tab, verify, leaving, form,
                     history>>,
         hold' \subseteq Users, conn' \in [Tabs -> SUBSET Users], event' \in [Tabs -> BOOLEAN],
         faults' \in 0..MaxFaults,
         X.at = "await" <=> X.post # NoPost,
         X.at = "await" => X.items # <<>> /\ Head(X.items).attempts < MaxAttempts
                           /\ SentAs(X.post.as, u),
         X.at # "off" => Sheltered(u),
         \A i \in DOMAIN X.items : X.items[i].key \in Copied(t, u) \cup Queued(u),
         X.post.res = "ok" => <<X.post.as, Head(X.items).key>> \in ledger',
         SendsFor(Copied(t, u), u),
         DOMAIN queue' \subseteq DOMAIN queue \cup Copied(t, u),
         \A k \in DOMAIN queue' : queue'[k] \in 0..MaxAttempts,
         \A k \in DOMAIN queue \ DOMAIN queue' : Recorded(k)'
  PROVE  IInv'
<1>1. /\ StoresTyped /\ TabsTyped /\ OwnersSound /\ QuietIsForgotten /\ NoCaptureLost
      /\ \A s \in Tabs : FormSound(s) /\ \A v \in Users : DrainSound(s, v)
      /\ OkIsRecorded /\ ActsAsSelf
  BY DEF IInv, Shapes
<1>2. /\ drain' \in [Tabs -> [Users -> Drain]] /\ drain'[t][u] = X
      /\ \A s \in Tabs, v \in Users : s # t \/ v # u => drain'[s][v] = drain[s][v]
  BY <1>1 DEF TabsTyped
<1>3. \A k \in Copied(t, u) : k \in Keys /\ owner[k] = u
  BY <1>1, CopiesTyped
<1>4. UNCHANGED <<owner, accepted, undone, quiet, discarded, exposed>>
  BY DEF history
<1>5. StoresTyped'
  BY <1>1, <1>3, <1>4 DEF StoresTyped, SendsFor
<1>6. TabsTyped'
  BY <1>1, <1>2 DEF TabsTyped
<1>7. OwnersSound'
  <2>1. \A k \in DOMAIN queue' : owner'[k] # None
    BY <1>1, <1>3, <1>4, NoneAssumption DEF OwnersSound
  <2>2. QED
    BY <1>1, <1>4, <2>1 DEF OwnersSound
<1>8. \A s \in Tabs : FormSound(s)'
  BY <1>1, <1>4 DEF FormSound
<1>9. ASSUME NEW s \in Tabs, NEW v \in Users PROVE DrainSound(s, v)'
  <2>1. CASE s = t /\ v = u
    <3>1. \A i \in DOMAIN X.items : owner[X.items[i].key] = u
      BY <1>3 DEF Queued
    <3>2. QED
      BY <1>2, <1>4, <2>1, <3>1 DEF DrainSound
  <2>2. CASE s # t \/ v # u
    BY <1>1, <1>2, <1>4, <2>2 DEF DrainSound
  <2>3. QED
    BY <2>1, <2>2
<1>10. OkIsRecorded'
  BY <1>1, <1>2 DEF OkIsRecorded, SendsFor
<1>11. NoCaptureLost'
  BY <1>1, <1>4, NothingIsLost DEF SendsFor
<1>12. ASSUME NEW k \in Keys, Known(k)' PROVE Known(k)
  <2>1. \A s \in Tabs, v \in Users : k \in Copied(s, v)' => k \in Copied(s, v) \/ k \in DOMAIN queue
    BY <1>2 DEF Copied, Queued
  <2>2. k \in Copied(t, u) => Known(k)
    BY DEF Known
  <2>3. Recorded(k)' => Recorded(k) \/ k \in Copied(t, u)
    BY DEF Recorded, SendsFor
  <2>4. (\E o \in orphans' : o.key = k) => (\E o \in orphans : o.key = k) \/ k \in Copied(t, u)
    BY DEF SendsFor
  <2>5. QED
    BY <1>12, <2>1, <2>2, <2>3, <2>4 DEF Known
<1>13. QuietIsForgotten'
  BY <1>1, <1>4, <1>12, NothingComesBack DEF StoresTyped
<1>14. \A v : /\ Sheltered(v) => Sheltered(v)'
              /\ \A as : SentAs(as, v) => SentAs(as, v)'
  BY <1>4 DEF Sheltered, SentAs
<1>15. ActsAsSelf'
  <2>1. remembered' \in Users => Sheltered(remembered)'
    BY <1>1, <1>14 DEF ActsAsSelf
  <2>2. ASSUME NEW s \in Tabs
        PROVE  /\ tab'[s].user \in Users => Sheltered(tab[s].user)'
               /\ verify'[s].res \in Users /\ ~verify'[s].stale => Sheltered(verify[s].res)'
               /\ form'[s].at = "post" => SentAs(form[s].post.as, owner[form[s].key])'
    BY <1>1, <1>4, <1>14 DEF ActsAsSelf
  <2>3. ASSUME NEW s \in Tabs, NEW v \in Users
        PROVE  /\ drain'[s][v].at # "off" => Sheltered(v)'
               /\ drain'[s][v].at = "await" => SentAs(drain[s][v].post.as, v)'
    <3>1. CASE s = t /\ v = u
      BY <1>2, <1>14, <3>1
    <3>2. CASE s # t \/ v # u
      BY <1>1, <1>2, <1>14, <3>2 DEF ActsAsSelf
    <3>3. QED
      BY <3>1, <3>2
  <2>4. \A o \in orphans' : SentAs(o.as, owner[o.key])'
    BY <1>1, <1>3, <1>4, <1>14 DEF ActsAsSelf, SendsFor
  <2>5. CrossAccountOnlyIfExposed'
    <3>1. ASSUME NEW r \in ledger', r[1] # owner[r[2]] PROVE owner[r[2]] \in exposed
      <4>1. CASE r \in ledger
        BY <1>1, <3>1, <4>1 DEF ActsAsSelf, CrossAccountOnlyIfExposed
      <4>2. CASE r \notin ledger
        <5>1. owner[r[2]] = u /\ r[1] \in Users /\ SentAs(r[1], u)
          BY <1>3, <4>2 DEF SendsFor
        <5>2. QED
          BY <3>1, <5>1, NoneAssumption DEF SentAs
      <4>3. QED
        BY <4>1, <4>2
    <3>2. QED
      BY <1>4, <3>1 DEF CrossAccountOnlyIfExposed
  <2>6. QED
    BY <2>1, <2>2, <2>3, <2>4, <2>5, <1>4 DEF ActsAsSelf
<1>16. QED
  BY <1>5, <1>6, <1>7, <1>8, <1>9, <1>10, <1>11, <1>13, <1>15 DEF IInv, Shapes

(***************************************************************************)
(* The steps of a replay.                                                  *)
(***************************************************************************)
\* What a replay knows before it moves.
LEMMA BeforeReplay ==
  ASSUME IInv, NEW t \in Tabs, NEW u \in Users
  PROVE  /\ drain[t][u] \in Drain /\ DrainSound(t, u) /\ drain[t][u].items \in Seq(Entry)
         /\ StoresTyped /\ TabsTyped /\ OkIsRecorded /\ ActsAsSelf
         /\ \A k \in Copied(t, u) : k \in Keys /\ owner[k] = u
         /\ drain[t][u].at # "off" => Sheltered(u)
         /\ drain[t][u].at = "await" => SentAs(drain[t][u].post.as, u)
         /\ drain[t][u].at = "await" =>
              LET item == Head(drain[t][u].items)
              IN  /\ item \in Entry /\ item.key \in Copied(t, u) /\ item.attempts < MaxAttempts
                  /\ drain[t][u].items # <<>>
         /\ drain[t][u].post \in Posts
<1>1. StoresTyped /\ TabsTyped /\ DrainSound(t, u) /\ OkIsRecorded /\ ActsAsSelf
  BY DEF IInv, Shapes
<1>2. /\ drain[t][u] \in Drain /\ drain[t][u].items \in Seq(Entry)
      /\ \A k \in Copied(t, u) : k \in Keys /\ owner[k] = u
  BY <1>1, CopiesTyped
<1>3. drain[t][u].items # <<>> => Head(drain[t][u].items) \in Entry
                                 /\ Head(drain[t][u].items).key \in Copied(t, u)
  BY <1>2, CopyTyped DEF Copied
<1>4. drain[t][u].post \in Posts
  BY <1>2 DEF Drain
<1>5. QED
  BY <1>1, <1>2, <1>3, <1>4 DEF DrainSound, ActsAsSelf

\* A step that sends nothing and changes no queue.
LEMMA NothingSent ==
  ASSUME StoresTyped, UNCHANGED <<ledger, orphans>>, NEW K, NEW v
  PROVE  SendsFor(K, v)
BY DEF SendsFor, StoresTyped

\* The head of the copy is done with.
LEMMA NextItemSound ==
  ASSUME IInv, NEW t \in Tabs, NEW u \in Users, drain[t][u].items # <<>>
  PROVE  LET X == [drain[t][u] EXCEPT !.at = "loop", !.items = Tail(@), !.post = NoPost]
         IN  /\ X \in Drain /\ X.at = "loop" /\ X.post = NoPost
             /\ \A i \in DOMAIN X.items : X.items[i].key \in Copied(t, u)
             /\ NextItem(t, u) = [drain EXCEPT ![t][u] = X]
<1> DEFINE d == drain[t][u]
           X == [d EXCEPT !.at = "loop", !.items = Tail(@), !.post = NoPost]
<1>1. d \in Drain /\ d.items \in Seq(Entry)
  BY BeforeReplay
<1>2. Tail(d.items) \in Seq(Entry)
      /\ \A i \in DOMAIN Tail(d.items) : i + 1 \in DOMAIN d.items /\ Tail(d.items)[i] = d.items[i + 1]
  BY <1>1, CopyTyped
<1>3. X \in Drain /\ X.at = "loop" /\ X.post = NoPost /\ X.items = Tail(d.items)
  BY <1>1, <1>2, Constants DEF Drain
<1>4. \A i \in DOMAIN X.items : X.items[i].key \in Copied(t, u)
  BY <1>2, <1>3 DEF Copied
<1>5. NextItem(t, u) = [drain EXCEPT ![t][u] = X]
  BY DEF NextItem
<1>6. QED
  BY <1>3, <1>4, <1>5

\* What the server does with a request.
LEMMA MishapTyped ==
  ASSUME StoresTyped, NEW kind, Mishap(kind)
  PROVE  faults' \in 0..MaxFaults
<1>1. faults \in 0..MaxFaults /\ MaxFaults \in Nat /\ faults < MaxFaults /\ faults' = faults + 1
  BY Bounds DEF Mishap, StoresTyped
<1>2. QED
  BY <1>1

LEMMA ServeTyped ==
  ASSUME StoresTyped, NEW as, NEW k, NEW res, Serve(as, k, res)
  PROVE  /\ faults' \in 0..MaxFaults
         /\ ledger' = ledger \/ (ledger' = ledger \cup {<<as, k>>} /\ as \in sessions)
         /\ res = "ok" => <<as, k>> \in ledger'
<1>1. faults' = faults \/ Mishap("reject")
  BY DEF Serve
<1>2. faults' \in 0..MaxFaults
  BY <1>1, MishapTyped DEF StoresTyped
<1>3. /\ ledger' = ledger \/ (ledger' = ledger \cup {<<as, k>>} /\ as \in sessions)
      /\ res = "ok" => <<as, k>> \in ledger'
  BY DEF Serve
<1>4. QED
  BY <1>2, <1>3

LEMMA ServeDrainSound ==
  ASSUME IInv, NEW t \in Tabs, NEW u \in Users, ServeDrain(t, u)
  PROVE  IInv'
<1> DEFINE d == drain[t][u]
           k == Head(d.items).key
<1>1. /\ d \in Drain /\ DrainSound(t, u) /\ d.post \in Posts /\ d.post.res = "flight"
      /\ StoresTyped /\ TabsTyped /\ OkIsRecorded
  BY BeforeReplay DEF ServeDrain
<1>2. d.at = "await" /\ d.post \in [as: Users \cup {None}, res: Results]
  BY <1>1, PostTyped, Constants DEF DrainSound
<1>3. k \in Copied(t, u) /\ k \in Keys /\ SentAs(d.post.as, u) /\ Sheltered(u)
  BY <1>2, BeforeReplay
<1>4. PICK res \in Results : Serve(d.post.as, k, res) /\ drain' = [drain EXCEPT ![t][u].post.res = res]
  BY DEF ServeDrain
<1> DEFINE X == [d EXCEPT !.post.res = res]
<1>5. drain' = [drain EXCEPT ![t][u] = X]
  BY <1>4
<1>6. /\ X \in Drain /\ X.at = "await" /\ X.items = d.items
      /\ X.post = [as |-> d.post.as, res |-> res] /\ X.post # NoPost
  BY <1>1, <1>2 DEF Drain, Posts, NoPost, Results
<1>7. /\ UNCHANGED orphans /\ faults' \in 0..MaxFaults
      /\ ledger' = ledger \/ (ledger' = ledger \cup {<<d.post.as, k>>} /\ d.post.as \in sessions)
      /\ res = "ok" => <<d.post.as, k>> \in ledger'
  BY <1>1, <1>4, ServeTyped DEF ServeDrain
<1>8. SendsFor(Copied(t, u), u)
  BY <1>1, <1>3, <1>7 DEF SendsFor, StoresTyped
<1>9. \A i \in DOMAIN X.items : X.items[i].key \in Copied(t, u)
  BY <1>6 DEF Copied
<1>10. UNCHANGED <<sessions, shared, tab, conn, event, verify, leaving, form, history>>
  BY DEF ServeDrain
<1>11. UNCHANGED <<online, cookie, remembered, hold, queue, deleting>>
  BY <1>10 DEF shared
<1>12. /\ hold' \subseteq Users /\ conn' \in [Tabs -> SUBSET Users] /\ event' \in [Tabs -> BOOLEAN]
       /\ \A j \in DOMAIN queue' : queue'[j] \in 0..MaxAttempts
  BY <1>1, <1>10, <1>11 DEF StoresTyped, TabsTyped
<1>13. X.at = "await" => X.items # <<>> /\ Head(X.items).attempts < MaxAttempts /\ SentAs(X.post.as, u)
  BY <1>1, <1>2, <1>3, <1>6 DEF DrainSound
<1>14. X.post.res = "ok" => <<X.post.as, Head(X.items).key>> \in ledger'
  BY <1>6, <1>7
<1> HIDE DEF X
<1>15. QED
  BY <1>3, <1>5, <1>6, <1>7, <1>8, <1>9, <1>10, <1>11, <1>12, <1>13, <1>14, ReplayStep

\* A replay that reads its queue, ends, skips, or stops knows nothing new and sends nothing.
LEMMA QuietReplayStep ==
  ASSUME IInv, NEW t \in Tabs, NEW u \in Users, NEW X \in Drain, drain' = [drain EXCEPT ![t][u] = X],
         UNCHANGED <<server, online, cookie, remembered, queue, deleting, tab, verify, leaving,
                     form, orphans, history, faults>>,
         hold' \subseteq Users, conn' \in [Tabs -> SUBSET Users], event' \in [Tabs -> BOOLEAN],
         X.at \in {"off", "load", "loop"}, X.post = NoPost,
         X.at # "off" => Sheltered(u),
         \A i \in DOMAIN X.items : X.items[i].key \in Copied(t, u) \cup Queued(u)
  PROVE  IInv'
<1>1. StoresTyped
  BY BeforeReplay
<1>2. UNCHANGED <<sessions, ledger>>
  BY DEF server
<1>3. SendsFor(Copied(t, u), u)
  BY <1>1, <1>2, NothingSent
<1>4. X.post.res # "ok" /\ X.at # "await"
  BY Constants
<1>5. /\ DOMAIN queue' \subseteq DOMAIN queue \cup Copied(t, u)
      /\ \A k \in DOMAIN queue' : queue'[k] \in 0..MaxAttempts
      /\ \A k \in DOMAIN queue \ DOMAIN queue' : Recorded(k)'
      /\ faults' \in 0..MaxFaults
  BY <1>1 DEF StoresTyped
<1>6. QED
  BY <1>2, <1>3, <1>4, <1>5, ReplayStep

LEMMA LoadQueueSound ==
  ASSUME IInv, NEW t \in Tabs, NEW u \in Users, LoadQueue(t, u)
  PROVE  IInv'
<1> DEFINE d == drain[t][u]
<1>1. d \in Drain /\ DrainSound(t, u) /\ StoresTyped /\ TabsTyped /\ d.at = "load" /\ Sheltered(u)
  BY BeforeReplay DEF LoadQueue
<1>2. PICK items \in [1..Cardinality(Queued(u)) -> Entry] :
        /\ {items[i].key : i \in DOMAIN items} = Queued(u)
        /\ drain' = [drain EXCEPT ![t][u].at = "loop", ![t][u].items = items]
  BY DEF LoadQueue
<1> DEFINE X == [d EXCEPT !.at = "loop", !.items = items]
<1>3. drain' = [drain EXCEPT ![t][u] = X]
  BY <1>2
<1>4. Cardinality(Queued(u)) \in Nat
  <2>1. Queued(u) \in SUBSET Keys
    BY <1>1 DEF StoresTyped, Queued
  <2>2. IsFiniteSet(Keys)
    BY BoundsAssumption, FS_Interval DEF Keys
  <2>3. QED
    BY <2>1, <2>2, FS_Subset, FS_CardinalityType
<1>5. items \in Seq(Entry)
  BY <1>4, SeqDef, Zenon
<1>6. X \in Drain /\ X.at = "loop" /\ X.post = NoPost /\ X.items = items
  <2>1. d.post = NoPost
    BY <1>1 DEF DrainSound
  <2>2. QED
    BY <1>1, <1>5, <2>1 DEF Drain
<1>7. \A i \in DOMAIN X.items : X.items[i].key \in Queued(u)
  BY <1>2, <1>6
<1>8. hold' \subseteq Users /\ conn' \in [Tabs -> SUBSET Users] /\ event' \in [Tabs -> BOOLEAN]
  BY <1>1 DEF LoadQueue, Open, StoresTyped, TabsTyped, shared
<1>9. UNCHANGED <<server, online, cookie, remembered, queue, deleting, tab, verify, leaving,
                  form, orphans, history, faults>>
  BY DEF LoadQueue, shared
<1> HIDE DEF X
<1>10. QED
  BY <1>1, <1>3, <1>6, <1>7, <1>8, <1>9, QuietReplayStep

LEMMA FinishedSound ==
  ASSUME NEW t \in Tabs, NEW u \in Users
  PROVE  LET X == Finished(t, u)
         IN  /\ X \in Drain /\ X.at \in {"off", "load"} /\ X.post = NoPost /\ X.items = <<>>
BY Constants DEF Finished, NoDrain, Drain

LEMMA EndDrainSound ==
  ASSUME IInv, NEW t \in Tabs, NEW u \in Users, EndDrain(t, u)
  PROVE  IInv'
<1>1. StoresTyped /\ TabsTyped /\ Sheltered(u)
  BY BeforeReplay DEF EndDrain
<1>2. /\ Finished(t, u) \in Drain /\ Finished(t, u).at \in {"off", "load", "loop"}
      /\ Finished(t, u).post = NoPost
      /\ \A i \in DOMAIN Finished(t, u).items : Finished(t, u).items[i].key \in Copied(t, u) \cup Queued(u)
  BY FinishedSound
<1>3. /\ drain' = [drain EXCEPT ![t][u] = Finished(t, u)]
      /\ UNCHANGED <<server, online, cookie, remembered, hold, queue, deleting, tab, conn, event,
                     verify, leaving, form, orphans, history, faults>>
  BY DEF EndDrain, shared
<1>4. hold' \subseteq Users /\ conn' \in [Tabs -> SUBSET Users] /\ event' \in [Tabs -> BOOLEAN]
  BY <1>1, <1>3 DEF StoresTyped, TabsTyped
<1>5. QED
  BY <1>1, <1>2, <1>3, <1>4, QuietReplayStep

LEMMA SkipPoisonSound ==
  ASSUME IInv, NEW t \in Tabs, NEW u \in Users, SkipPoison(t, u)
  PROVE  IInv'
<1> DEFINE d == drain[t][u]
           X == [d EXCEPT !.at = "loop", !.items = Tail(@), !.post = NoPost]
<1>1. d \in Drain /\ DrainSound(t, u) /\ StoresTyped /\ TabsTyped /\ Sheltered(u)
      /\ d.at = "loop" /\ d.items # <<>>
  BY BeforeReplay DEF SkipPoison
<1>2. X \in Drain /\ X.at = "loop" /\ X.post = NoPost
      /\ \A i \in DOMAIN X.items : X.items[i].key \in Copied(t, u)
  BY <1>1, NextItemSound
<1>3. drain' = [drain EXCEPT ![t][u] = X]
  <2>1. d.post = NoPost
    BY <1>1 DEF DrainSound
  <2>2. [d EXCEPT !.items = Tail(@)] = X
    BY <1>1, <2>1 DEF Drain
  <2>3. drain' = [drain EXCEPT ![t][u] = [d EXCEPT !.items = Tail(@)]]
    BY DEF SkipPoison
  <2>4. QED
    BY <2>2, <2>3
<1>4. UNCHANGED <<server, online, cookie, remembered, hold, queue, deleting, tab, conn, event,
                  verify, leaving, form, orphans, history, faults>>
  BY DEF SkipPoison, shared
<1>5. hold' \subseteq Users /\ conn' \in [Tabs -> SUBSET Users] /\ event' \in [Tabs -> BOOLEAN]
  BY <1>1, <1>4 DEF StoresTyped, TabsTyped
<1> HIDE DEF X
<1>6. QED
  BY <1>1, <1>2, <1>3, <1>4, <1>5, QuietReplayStep

LEMMA SendDrainSound ==
  ASSUME IInv, NEW t \in Tabs, NEW u \in Users, SendDrain(t, u)
  PROVE  IInv'
<1> DEFINE d == drain[t][u]
           X == [d EXCEPT !.at = "await", !.post = [as |-> cookie, res |-> "flight"]]
<1>1. /\ d \in Drain /\ DrainSound(t, u) /\ StoresTyped /\ TabsTyped /\ Sheltered(u)
      /\ d.at = "loop" /\ d.items # <<>> /\ Head(d.items).attempts < MaxAttempts
  BY BeforeReplay DEF SendDrain
<1>2. /\ drain' = [drain EXCEPT ![t][u].at = "await", ![t][u].post = [as |-> cookie, res |-> "flight"]]
      /\ UNCHANGED <<server, online, cookie, remembered, hold, queue, deleting, tab, conn, event,
                     verify, leaving, form, orphans, history, faults>>
  BY DEF SendDrain, shared
<1>3. drain' = [drain EXCEPT ![t][u] = X]
  BY <1>2
<1>4. /\ X \in Drain /\ X.at = "await" /\ X.items = d.items
      /\ X.post = [as |-> cookie, res |-> "flight"] /\ X.post # NoPost
  BY <1>1 DEF Drain, Posts, NoPost, Results, StoresTyped
<1>5. SentAs(X.post.as, u) /\ X.post.res # "ok"
  BY <1>1, <1>4 DEF Sheltered, SentAs
<1>6. \A i \in DOMAIN X.items : X.items[i].key \in Copied(t, u)
  BY <1>4 DEF Copied
<1>7. SendsFor(Copied(t, u), u) /\ sessions' = sessions
  BY <1>1, <1>2, NothingSent DEF server
<1>8. /\ hold' \subseteq Users /\ conn' \in [Tabs -> SUBSET Users] /\ event' \in [Tabs -> BOOLEAN]
      /\ \A k \in DOMAIN queue' : queue'[k] \in 0..MaxAttempts /\ faults' \in 0..MaxFaults
      /\ faults' \in 0..MaxFaults
  BY <1>1, <1>2 DEF StoresTyped, TabsTyped
<1> HIDE DEF X
<1>9. QED
  BY <1>1, <1>2, <1>3, <1>4, <1>5, <1>6, <1>7, <1>8, ReplayStep

LEMMA DrainDeniedSound ==
  ASSUME IInv, NEW t \in Tabs, NEW u \in Users, DrainDenied(t, u)
  PROVE  IInv'
<1>1. StoresTyped /\ TabsTyped
  BY BeforeReplay
<1>2. /\ drain' = [drain EXCEPT ![t][u] = NoDrain] /\ hold' = Held(u)
      /\ UNCHANGED <<server, online, cookie, remembered, queue, deleting, tab, conn, event,
                     verify, leaving, form, orphans, history, faults>>
  BY DEF DrainDenied
<1>3. hold' \subseteq Users /\ conn' \in [Tabs -> SUBSET Users] /\ event' \in [Tabs -> BOOLEAN]
  BY <1>1, <1>2 DEF StoresTyped, TabsTyped, Held
<1>4. /\ NoDrain \in Drain /\ NoDrain.at \in {"off", "load", "loop"} /\ NoDrain.post = NoPost
      /\ NoDrain.at # "off" => Sheltered(u)
      /\ \A i \in DOMAIN NoDrain.items : NoDrain.items[i].key \in Copied(t, u) \cup Queued(u)
  BY Constants
<1>5. QED
  BY <1>2, <1>3, <1>4, QuietReplayStep

LEMMA DrainOkSound ==
  ASSUME IInv, NEW t \in Tabs, NEW u \in Users, DrainOk(t, u)
  PROVE  IInv'
<1> DEFINE d == drain[t][u]
           X == [d EXCEPT !.at = "loop", !.items = Tail(@), !.post = NoPost]
           k == Head(d.items).key
<1>1. /\ d \in Drain /\ DrainSound(t, u) /\ StoresTyped /\ TabsTyped /\ d.post \in Posts
      /\ d.post.res = "ok" /\ OkIsRecorded
  BY BeforeReplay DEF DrainOk
<1>2. d.at = "await"
  BY <1>1, Constants DEF DrainSound
<1>3. d.items # <<>> /\ Sheltered(u) /\ k \in Copied(t, u)
  BY <1>2, BeforeReplay
<1>4. <<d.post.as, k>> \in ledger
  BY <1>1 DEF OkIsRecorded
<1>5. /\ X \in Drain /\ X.at = "loop" /\ X.post = NoPost
      /\ \A i \in DOMAIN X.items : X.items[i].key \in Copied(t, u)
      /\ NextItem(t, u) = [drain EXCEPT ![t][u] = X]
  BY <1>3, NextItemSound
<1>6. /\ drain' = NextItem(t, u) /\ queue' = Without(queue, {k}) /\ Open(t, u)
      /\ UNCHANGED <<server, online, cookie, remembered, hold, deleting, tab, event, verify,
                     leaving, form, orphans, history, faults>>
  BY DEF DrainOk
<1>7. /\ hold' \subseteq Users /\ conn' \in [Tabs -> SUBSET Users] /\ event' \in [Tabs -> BOOLEAN]
      /\ faults' \in 0..MaxFaults
  BY <1>1, <1>6 DEF StoresTyped, TabsTyped, Open
<1>8. /\ SendsFor(Copied(t, u), u) /\ sessions' = sessions /\ ledger' = ledger
  BY <1>1, <1>6, NothingSent DEF server
<1>9. /\ DOMAIN queue' = DOMAIN queue \ {k}
      /\ \A j \in DOMAIN queue' : queue'[j] \in 0..MaxAttempts
  BY <1>1, <1>6 DEF Without, StoresTyped
<1>10. \A j : j = k => Recorded(j)'
  <2>1. d.post.as \in Users /\ <<d.post.as, k>> \in ledger'
    BY <1>1, <1>4, <1>8 DEF StoresTyped
  <2>2. QED
    BY <2>1 DEF Recorded
<1>11. X.post.res # "ok" /\ X.at # "await"
  BY <1>5, Constants
<1>12. /\ DOMAIN queue' \subseteq DOMAIN queue \cup Copied(t, u)
       /\ \A j \in DOMAIN queue \ DOMAIN queue' : Recorded(j)'
  BY <1>9, <1>10
<1>13. drain' = [drain EXCEPT ![t][u] = X]
  BY <1>5, <1>6
<1> HIDE DEF X
<1>14. QED
  BY <1>3, <1>5, <1>6, <1>7, <1>8, <1>9, <1>11, <1>12, <1>13, ReplayStep

LEMMA DrainRejectedSound ==
  ASSUME IInv, NEW t \in Tabs, NEW u \in Users, DrainRejected(t, u)
  PROVE  IInv'
<1> DEFINE d == drain[t][u]
           X == [d EXCEPT !.at = "loop", !.items = Tail(@), !.post = NoPost]
           item == Head(d.items)
<1>1. /\ d \in Drain /\ DrainSound(t, u) /\ StoresTyped /\ TabsTyped /\ d.post \in Posts
      /\ d.post.res = "rejected"
  BY BeforeReplay DEF DrainRejected
<1>2. d.at = "await"
  BY <1>1, Constants DEF DrainSound
<1>3. /\ d.items # <<>> /\ Sheltered(u) /\ item.key \in Copied(t, u) /\ item \in Entry
      /\ item.attempts < MaxAttempts
  BY <1>2, BeforeReplay
<1>4. /\ X \in Drain /\ X.at = "loop" /\ X.post = NoPost
      /\ \A i \in DOMAIN X.items : X.items[i].key \in Copied(t, u)
      /\ NextItem(t, u) = [drain EXCEPT ![t][u] = X]
  BY <1>3, NextItemSound
<1>5. /\ drain' = NextItem(t, u) /\ queue' = With(queue, item.key, item.attempts + 1) /\ Open(t, u)
      /\ UNCHANGED <<server, online, cookie, remembered, hold, deleting, tab, event, verify,
                     leaving, form, orphans, history, faults>>
  BY DEF DrainRejected
<1>6. /\ hold' \subseteq Users /\ conn' \in [Tabs -> SUBSET Users] /\ event' \in [Tabs -> BOOLEAN]
      /\ faults' \in 0..MaxFaults
  BY <1>1, <1>5 DEF StoresTyped, TabsTyped, Open
<1>7. /\ SendsFor(Copied(t, u), u) /\ sessions' = sessions
  BY <1>1, <1>5, NothingSent DEF server
<1>8. item.attempts + 1 \in 0..MaxAttempts
  <2>1. item.attempts \in 0..MaxAttempts
    BY <1>3 DEF Entry
  <2>2. QED
    BY <1>3, <2>1, Bounds
<1>9. /\ DOMAIN queue' = DOMAIN queue \cup {item.key}
      /\ \A j \in DOMAIN queue' : queue'[j] \in 0..MaxAttempts
  BY <1>1, <1>5, <1>8 DEF With, StoresTyped
<1>10. X.post.res # "ok" /\ X.at # "await"
  BY <1>4, Constants
<1>11. drain' = [drain EXCEPT ![t][u] = X]
  BY <1>4, <1>5
<1>12. /\ DOMAIN queue' \subseteq DOMAIN queue \cup Copied(t, u)
       /\ \A j \in DOMAIN queue \ DOMAIN queue' : Recorded(j)'
  BY <1>3, <1>9
<1> HIDE DEF X
<1>13. QED
  BY <1>3, <1>4, <1>5, <1>6, <1>7, <1>9, <1>10, <1>11, <1>12, ReplayStep

\* What an abandoned request leaves travelling.
LEMMA AbandonedTyped ==
  ASSUME NEW p \in Posts, NEW k \in Keys \cup {0}, p.res = "flight" => k \in Keys
  PROVE  \A o \in Abandoned(p, k) : o \in [as: Users, key: Keys] /\ o.as = p.as /\ o.key = k
                                  /\ p.res = "flight"
BY PostTyped DEF Abandoned

LEMMA DrainLostSound ==
  ASSUME IInv, NEW t \in Tabs, NEW u \in Users, DrainLost(t, u)
  PROVE  IInv'
<1> DEFINE d == drain[t][u]
           k == Head(d.items).key
<1>1. /\ d \in Drain /\ StoresTyped /\ TabsTyped /\ d.post \in Posts /\ d.at = "await"
  BY BeforeReplay DEF DrainLost
<1>2. Sheltered(u) /\ k \in Copied(t, u) /\ SentAs(d.post.as, u) /\ k \in Keys
  BY <1>1, BeforeReplay
<1>3. /\ drain' = [drain EXCEPT ![t][u] = Finished(t, u)]
      /\ orphans' = orphans \cup Abandoned(d.post, k) /\ Mishap("lost")
      /\ UNCHANGED <<server, online, cookie, remembered, hold, queue, deleting, tab, conn, event,
                     verify, leaving, form, history>>
  BY DEF DrainLost, shared
<1>4. /\ Finished(t, u) \in Drain /\ Finished(t, u).at # "await" /\ Finished(t, u).post = NoPost
      /\ Finished(t, u).post.res # "ok"
      /\ \A i \in DOMAIN Finished(t, u).items : Finished(t, u).items[i].key \in Copied(t, u) \cup Queued(u)
  BY FinishedSound, Constants
<1>5. \A o \in Abandoned(d.post, k) : o \in [as: Users, key: Keys] /\ o.as = d.post.as /\ o.key = k
  BY <1>1, <1>2, AbandonedTyped
<1>6. SendsFor(Copied(t, u), u) /\ sessions' = sessions
  BY <1>1, <1>2, <1>3, <1>5 DEF SendsFor, StoresTyped, server
<1>7. /\ hold' \subseteq Users /\ conn' \in [Tabs -> SUBSET Users] /\ event' \in [Tabs -> BOOLEAN]
      /\ \A j \in DOMAIN queue' : queue'[j] \in 0..MaxAttempts
  BY <1>1, <1>3 DEF StoresTyped, TabsTyped
<1>8. faults' \in 0..MaxFaults
  BY <1>1, <1>3, MishapTyped
<1>9. QED
  BY <1>2, <1>3, <1>4, <1>6, <1>7, <1>8, ReplayStep

LEMMA HandleEventSound ==
  ASSUME IInv, NEW t \in Tabs, HandleEvent(t)
  PROVE  IInv'
<1> DEFINE u == tab[t].user
<1>1. StoresTyped /\ TabsTyped /\ ActsAsSelf
  BY DEF IInv, Shapes
<1>2. u \in Users
  BY <1>1 DEF HandleEvent, TabsTyped, Tab
<1>3. Sheltered(u)
  BY <1>1, <1>2 DEF ActsAsSelf
<1>4. /\ drain' = [drain EXCEPT ![t][u] = Drained(t, u)]
      /\ event' = [event EXCEPT ![t] = FALSE]
      /\ UNCHANGED <<server, online, cookie, remembered, hold, queue, deleting, tab, conn, verify,
                     leaving, form, orphans, history, faults>>
  BY DEF HandleEvent, shared
<1>5. hold' \subseteq Users /\ conn' \in [Tabs -> SUBSET Users] /\ event' \in [Tabs -> BOOLEAN]
  BY <1>1, <1>4 DEF StoresTyped, TabsTyped
<1>6. CASE ~online \/ u \in hold \/ drain[t][u].at # "off"
  <2> DEFINE X == Drained(t, u)
  <2>1. /\ X \in Drain /\ X.at = drain[t][u].at /\ X.post = drain[t][u].post
        /\ X.items = drain[t][u].items
    <3>1. drain[t][u] \in Drain
      BY <1>2, BeforeReplay
    <3>2. X \in {drain[t][u], [drain[t][u] EXCEPT !.rerun = TRUE]}
      BY <1>6 DEF Drained
    <3>3. QED
      BY <3>1, <3>2 DEF Drain
  <2>2. /\ DrainSound(t, u) /\ OkIsRecorded
        /\ drain[t][u].at = "await" => SentAs(drain[t][u].post.as, u)
    BY <1>2, BeforeReplay
  <2>3. SendsFor(Copied(t, u), u) /\ sessions' = sessions /\ ledger' = ledger
    BY <1>1, <1>4, NothingSent DEF server
  <2>4. /\ X.at = "await" <=> X.post # NoPost
        /\ X.at = "await" => X.items # <<>> /\ Head(X.items).attempts < MaxAttempts
                             /\ SentAs(X.post.as, u)
        /\ \A i \in DOMAIN X.items : X.items[i].key \in Copied(t, u)
        /\ X.post.res = "ok" => <<X.post.as, Head(X.items).key>> \in ledger'
    BY <1>2, <2>1, <2>2, <2>3 DEF DrainSound, OkIsRecorded, Copied
  <2>5. faults' \in 0..MaxFaults /\ \A k \in DOMAIN queue' : queue'[k] \in 0..MaxAttempts
    BY <1>1, <1>4 DEF StoresTyped
  <2> HIDE DEF X
  <2>6. QED
    BY <1>2, <1>3, <1>4, <1>5, <2>1, <2>3, <2>4, <2>5, ReplayStep DEF X
<1>7. CASE ~(~online \/ u \in hold \/ drain[t][u].at # "off")
  <2>1. Drained(t, u) = [NoDrain EXCEPT !.at = "load"]
    BY <1>7 DEF Drained
  <2>2. /\ Drained(t, u) \in Drain /\ Drained(t, u).at = "load" /\ Drained(t, u).post = NoPost
        /\ Drained(t, u).items = <<>>
    BY <2>1, Constants DEF NoDrain, Drain
  <2>3. \A i \in DOMAIN Drained(t, u).items :
           Drained(t, u).items[i].key \in Copied(t, u) \cup Queued(u)
    BY <2>2
  <2>4. QED
    BY <1>2, <1>3, <1>4, <1>5, <2>2, <2>3, QuietReplayStep
<1>8. QED
  BY <1>6, <1>7

(***************************************************************************)
(* One step of an open screen: its record becomes F.                       *)
(***************************************************************************)
\* What an open screen knows.
LEMMA BeforeForm ==
  ASSUME IInv, NEW t \in Tabs, form[t].at # "off"
  PROVE  /\ form[t] \in Form /\ form[t].post \in Posts /\ FormSound(t)
         /\ form[t].key \in Keys /\ tab[t].user \in Users /\ owner[form[t].key] = tab[t].user
         /\ StoresTyped /\ TabsTyped /\ OkIsRecorded /\ ActsAsSelf /\ Sheltered(tab[t].user)
         /\ form[t].at = "post" => SentAs(form[t].post.as, tab[t].user)
<1>1. StoresTyped /\ TabsTyped /\ FormSound(t) /\ OkIsRecorded /\ ActsAsSelf
  BY DEF IInv, Shapes
<1>2. form[t] \in Form /\ tab[t] \in Tab
  BY <1>1 DEF TabsTyped
<1>3. /\ form[t].post \in Posts /\ form[t].key \in Keys /\ tab[t].user \in Users
      /\ owner[form[t].key] = tab[t].user
  BY <1>1, <1>2 DEF Form, Tab, FormSound
<1>4. /\ Sheltered(tab[t].user)
      /\ form[t].at = "post" => SentAs(form[t].post.as, tab[t].user)
  BY <1>1, <1>3 DEF ActsAsSelf
<1>5. QED
  BY <1>1, <1>2, <1>3, <1>4

LEMMA FormStep ==
  ASSUME IInv, NEW t \in Tabs, form[t].at # "off", NEW F \in Form, form' = [form EXCEPT ![t] = F],
         UNCHANGED <<sessions, online, cookie, remembered, hold, deleting, tab, event, verify, leaving,
                     drain, owner, undone, quiet, discarded, exposed>>,
         conn' \in [Tabs -> SUBSET Users], faults' \in 0..MaxFaults,
         F.at = "post" <=> F.post # NoPost,
         F.at = "off" <=> F.key = 0,
         F.at # "off" => F.key = form[t].key,
         F.at = "post" => SentAs(F.post.as, tab[t].user),
         F.post.res = "ok" => <<F.post.as, F.key>> \in ledger',
         SendsFor({form[t].key}, tab[t].user),
         DOMAIN queue \subseteq DOMAIN queue', DOMAIN queue' \subseteq DOMAIN queue \cup {form[t].key},
         \A k \in DOMAIN queue' : queue'[k] \in 0..MaxAttempts,
         accepted' \subseteq accepted \cup {form[t].key},
         \A k \in accepted' \ accepted : k \in DOMAIN queue' \/ Recorded(k)'
  PROVE  IInv'
<1> DEFINE c == form[t].key
           u == tab[t].user
<1>1. /\ StoresTyped /\ TabsTyped /\ OwnersSound /\ QuietIsForgotten /\ NoCaptureLost
      /\ \A s \in Tabs : FormSound(s) /\ \A v \in Users : DrainSound(s, v)
      /\ OkIsRecorded /\ ActsAsSelf
  BY DEF IInv, Shapes
<1>2. /\ form' \in [Tabs -> Form] /\ form'[t] = F
      /\ \A s \in Tabs : s # t => form'[s] = form[s]
  BY <1>1 DEF TabsTyped
<1>3. c \in Keys /\ u \in Users /\ owner[c] = u
  BY BeforeForm
<1>4. ledger \subseteq ledger' /\ ledger' \subseteq Users \X Keys
      /\ orphans' \subseteq [as: Users, key: Keys]
  BY DEF SendsFor
<1>5. StoresTyped'
  BY <1>1, <1>3, <1>4 DEF StoresTyped
<1>6. TabsTyped'
  BY <1>1, <1>2 DEF TabsTyped
<1>7. OwnersSound'
  <2>1. \A k \in DOMAIN queue' \cup accepted' \cup quiet' : owner'[k] # None
    BY <1>1, <1>3, NoneAssumption DEF OwnersSound
  <2>2. QED
    BY <1>1, <2>1 DEF OwnersSound
<1>8. ASSUME NEW s \in Tabs PROVE FormSound(s)'
  <2>1. CASE s = t
    BY <1>2, <1>3, <2>1, NoneAssumption DEF FormSound
  <2>2. CASE s # t
    BY <1>1, <1>2, <2>2 DEF FormSound
  <2>3. QED
    BY <2>1, <2>2
<1>9. \A s \in Tabs, v \in Users : DrainSound(s, v)'
  BY <1>1 DEF DrainSound
<1>10. OkIsRecorded'
  BY <1>1, <1>2, <1>4 DEF OkIsRecorded
<1>11. NoCaptureLost'
  BY <1>1, <1>4, NothingIsLost
<1>12. ASSUME NEW k \in Keys, Known(k)' PROVE Known(k)
  <2>1. Known(c)
    BY DEF Known
  <2>2. Recorded(k)' => Recorded(k) \/ k = c
    BY DEF Recorded, SendsFor
  <2>3. (\E o \in orphans' : o.key = k) => (\E o \in orphans : o.key = k) \/ k = c
    BY DEF SendsFor
  <2>4. \A s \in Tabs : form'[s].key = k => form[s].key = k \/ k = c
    <3>1. F.key = k => k = c
      BY <1>12 DEF Keys
    <3>2. QED
      BY <1>2, <3>1
  <2>5. \A s \in Tabs, v \in Users : k \in Copied(s, v)' <=> k \in Copied(s, v)
    BY DEF Copied
  <2>6. QED
    BY <1>12, <2>1, <2>2, <2>3, <2>4, <2>5 DEF Known
<1>13. QuietIsForgotten'
  BY <1>1, <1>12, NothingComesBack DEF StoresTyped
<1>14. \A v : /\ Sheltered(v) => Sheltered(v)'
              /\ \A as : SentAs(as, v) => SentAs(as, v)'
  BY DEF Sheltered, SentAs
<1>15. ActsAsSelf'
  <2>1. remembered' \in Users => Sheltered(remembered)'
    BY <1>1, <1>14 DEF ActsAsSelf
  <2>2. ASSUME NEW s \in Tabs
        PROVE  /\ tab'[s].user \in Users => Sheltered(tab[s].user)'
               /\ verify'[s].res \in Users /\ ~verify'[s].stale => Sheltered(verify[s].res)'
               /\ form'[s].at = "post" => SentAs(form[s].post.as, owner[form[s].key])'
               /\ \A v \in Users :
                    /\ drain'[s][v].at # "off" => Sheltered(v)'
                    /\ drain'[s][v].at = "await" => SentAs(drain[s][v].post.as, v)'
    <3>1. form'[s].at = "post" => SentAs(form'[s].post.as, owner[form'[s].key])
      <4>1. CASE s = t
        <5>1. form'[s].at = "post" => form'[s].key = c /\ SentAs(form'[s].post.as, u)
          BY <1>2, <4>1
        <5>2. QED
          BY <1>3, <5>1
      <4>2. CASE s # t
        BY <1>1, <1>2, <4>2 DEF ActsAsSelf
      <4>3. QED
        BY <4>1, <4>2
    <3>2. QED
      BY <1>1, <1>14, <3>1 DEF ActsAsSelf
  <2>3. \A o \in orphans' : SentAs(o.as, owner[o.key])'
    BY <1>1, <1>3, <1>14 DEF ActsAsSelf, SendsFor
  <2>4. CrossAccountOnlyIfExposed'
    <3>1. ASSUME NEW r \in ledger', r[1] # owner[r[2]] PROVE owner[r[2]] \in exposed
      <4>1. CASE r \in ledger
        BY <1>1, <3>1, <4>1 DEF ActsAsSelf, CrossAccountOnlyIfExposed
      <4>2. CASE r \notin ledger
        <5>1. owner[r[2]] = u /\ r[1] \in Users /\ SentAs(r[1], u)
          BY <1>3, <4>2 DEF SendsFor
        <5>2. QED
          BY <3>1, <5>1, NoneAssumption DEF SentAs
      <4>3. QED
        BY <4>1, <4>2
    <3>2. QED
      BY <3>1 DEF CrossAccountOnlyIfExposed
  <2>5. QED
    BY <2>1, <2>2, <2>3, <2>4 DEF ActsAsSelf
<1>16. QED
  BY <1>5, <1>6, <1>7, <1>8, <1>9, <1>10, <1>11, <1>13, <1>15 DEF IInv, Shapes

LEMMA ServeFormSound ==
  ASSUME IInv, NEW t \in Tabs, ServeForm(t)
  PROVE  IInv'
<1> DEFINE f == form[t]
<1>1. TabsTyped /\ FormSound(t) /\ f.post.res = "flight"
  BY DEF IInv, Shapes, ServeForm
<1>2. f.post \in Posts /\ f.at # "off" /\ f.at = "post"
  <2>1. f.post \in Posts
    BY <1>1 DEF TabsTyped, Form
  <2>2. QED
    BY <1>1, <2>1, Constants DEF FormSound
<1>3. /\ f \in Form /\ f.key \in Keys /\ SentAs(f.post.as, tab[t].user) /\ StoresTyped
      /\ f.post \in [as: Users \cup {None}, res: Results]
  BY <1>1, <1>2, BeforeForm, PostTyped, Constants
<1>4. PICK res \in Results : Serve(f.post.as, f.key, res) /\ form' = [form EXCEPT ![t].post.res = res]
  BY DEF ServeForm
<1> DEFINE F == [f EXCEPT !.post.res = res]
<1>5. form' = [form EXCEPT ![t] = F]
  BY <1>4
<1>6. /\ F \in Form /\ F.at = "post" /\ F.key = f.key
      /\ F.post = [as |-> f.post.as, res |-> res] /\ F.post # NoPost
  BY <1>2, <1>3 DEF Form, Posts, NoPost, Results
<1>7. /\ UNCHANGED orphans /\ faults' \in 0..MaxFaults
      /\ ledger' = ledger \/ (ledger' = ledger \cup {<<f.post.as, f.key>>} /\ f.post.as \in sessions)
      /\ res = "ok" => <<f.post.as, f.key>> \in ledger'
  BY <1>3, <1>4, ServeTyped DEF ServeForm
<1>8. SendsFor({form[t].key}, tab[t].user)
  BY <1>3, <1>7 DEF SendsFor, StoresTyped
<1>9. UNCHANGED <<sessions, online, cookie, remembered, hold, queue, deleting, tab, conn, event, verify,
                  leaving, drain, owner, accepted, undone, quiet, discarded, exposed>>
  BY DEF ServeForm, shared, history
<1>10. conn' \in [Tabs -> SUBSET Users] /\ \A k \in DOMAIN queue' : queue'[k] \in 0..MaxAttempts
  BY <1>1, <1>3, <1>9 DEF TabsTyped, StoresTyped
<1>11. /\ F.at = "post" <=> F.post # NoPost
       /\ F.at = "off" <=> F.key = 0
       /\ F.at = "post" => SentAs(F.post.as, tab[t].user)
       /\ F.post.res = "ok" => <<F.post.as, F.key>> \in ledger'
  BY <1>3, <1>6, <1>7 DEF Keys
<1> HIDE DEF F
<1>12. QED
  BY <1>2, <1>5, <1>6, <1>7, <1>8, <1>9, <1>10, <1>11, FormStep

\* A screen that sends, or fails, keeps its capture and tells the user nothing.
LEMMA QuietFormStep ==
  ASSUME IInv, NEW t \in Tabs, form[t].at # "off", NEW F \in Form, form' = [form EXCEPT ![t] = F],
         UNCHANGED <<server, shared, tab, conn, event, verify, leaving, drain, history>>,
         faults' \in 0..MaxFaults,
         F.at # "off", F.key = form[t].key, F.post.res # "ok",
         F.at = "post" <=> F.post # NoPost,
         F.at = "post" => SentAs(F.post.as, tab[t].user),
         SendsFor({form[t].key}, tab[t].user)
  PROVE  IInv'
<1>1. UNCHANGED <<sessions, ledger, online, cookie, remembered, hold, queue, deleting, tab, conn, event,
                  verify, leaving, drain, owner, accepted, undone, quiet, discarded, exposed>>
  BY DEF server, shared, history
<1>2. StoresTyped /\ TabsTyped /\ form[t].key \in Keys
  BY BeforeForm
<1>3. conn' \in [Tabs -> SUBSET Users] /\ \A k \in DOMAIN queue' : queue'[k] \in 0..MaxAttempts
  BY <1>1, <1>2 DEF StoresTyped, TabsTyped
<1>4. F.at = "off" <=> F.key = 0
  BY <1>2 DEF Keys
<1>5. QED
  BY <1>1, <1>3, <1>4, FormStep

LEMMA SubmitSound ==
  ASSUME IInv, NEW t \in Tabs, Submit(t)
  PROVE  IInv'
<1> DEFINE f == form[t]
           F == [f EXCEPT !.at = IF online THEN "post" ELSE "enqueue",
                          !.post = IF online THEN [as |-> cookie, res |-> "flight"] ELSE NoPost]
<1>1. f.at = "open" /\ f.at # "off"
  BY DEF Submit
<1>2. f \in Form /\ StoresTyped /\ TabsTyped /\ Sheltered(tab[t].user)
  BY <1>1, BeforeForm
<1>3. form' = [form EXCEPT ![t] = F]
      /\ UNCHANGED <<server, shared, tab, conn, event, verify, leaving, drain, orphans, history, faults>>
  BY DEF Submit
<1>4. [as |-> cookie, res |-> "flight"] \in Posts /\ [as |-> cookie, res |-> "flight"] # NoPost
  BY <1>2 DEF Posts, NoPost, Results, StoresTyped
<1>5. /\ F \in Form /\ F.at # "off" /\ F.key = form[t].key
      /\ online => F.at = "post" /\ F.post = [as |-> cookie, res |-> "flight"]
      /\ ~online => F.at = "enqueue" /\ F.post = NoPost
  BY <1>2, <1>4, Constants DEF Form
<1>6. /\ F.at = "post" <=> F.post # NoPost
      /\ F.at = "post" => SentAs(F.post.as, tab[t].user)
      /\ F.post.res # "ok"
  BY <1>2, <1>4, <1>5, Constants DEF Sheltered, SentAs
<1>7. SendsFor({form[t].key}, tab[t].user) /\ faults' \in 0..MaxFaults
  <2>1. UNCHANGED <<ledger, orphans, faults>>
    BY <1>3 DEF server
  <2>2. QED
    BY <1>2, <2>1, NothingSent DEF StoresTyped
<1> HIDE DEF F
<1>8. QED
  BY <1>1, <1>3, <1>5, <1>6, <1>7, QuietFormStep

LEMMA FormFailedSound ==
  ASSUME IInv, NEW t \in Tabs, FormFailed(t)
  PROVE  IInv'
<1> DEFINE f == form[t]
           F == [f EXCEPT !.at = "open", !.post = NoPost]
<1>1. f.at = "post" /\ f.at # "off"
  BY DEF FormFailed
<1>2. /\ f \in Form /\ StoresTyped /\ f.post \in Posts /\ f.key \in Keys
      /\ SentAs(f.post.as, tab[t].user)
  BY <1>1, BeforeForm
<1>3. /\ form' = [form EXCEPT ![t] = F] /\ orphans' = orphans \cup Abandoned(f.post, f.key)
      /\ UNCHANGED <<server, shared, tab, conn, event, verify, leaving, drain, history>>
      /\ faults' = faults \/ Mishap("lost")
  BY DEF FormFailed
<1>4. F \in Form /\ F.at = "open" /\ F.key = form[t].key /\ F.post = NoPost
  BY <1>2, Constants DEF Form
<1>5. F.at # "off" /\ F.post.res # "ok" /\ F.at # "post"
  BY <1>4, Constants
<1>6. \A o \in Abandoned(f.post, f.key) : o \in [as: Users, key: Keys] /\ o.as = f.post.as /\ o.key = f.key
  BY <1>2, AbandonedTyped
<1>7. SendsFor({form[t].key}, tab[t].user)
  BY <1>2, <1>3, <1>6 DEF SendsFor, StoresTyped, server
<1>8. faults' \in 0..MaxFaults
  BY <1>2, <1>3, MishapTyped DEF StoresTyped
<1> HIDE DEF F
<1>9. QED
  BY <1>1, <1>3, <1>4, <1>5, <1>7, <1>8, QuietFormStep

\* A screen that is done with a capture queued it, or was told it is recorded.
LEMMA FormDone ==
  ASSUME IInv, NEW t \in Tabs, form[t].at # "off", form' = [form EXCEPT ![t] = NoForm],
         UNCHANGED <<server, online, cookie, remembered, hold, deleting, tab, event, verify, leaving,
                     drain, orphans, owner, undone, quiet, discarded, exposed, faults>>,
         conn' \in [Tabs -> SUBSET Users],
         DOMAIN queue \subseteq DOMAIN queue', DOMAIN queue' \subseteq DOMAIN queue \cup {form[t].key},
         \A k \in DOMAIN queue' : queue'[k] \in 0..MaxAttempts,
         accepted' = accepted \cup {form[t].key},
         \A k : k = form[t].key => k \in DOMAIN queue' \/ Recorded(k)'
  PROVE  IInv'
<1>1. StoresTyped
  BY BeforeForm
<1>2. UNCHANGED <<sessions, ledger>>
  BY DEF server
<1>3. SendsFor({form[t].key}, tab[t].user) /\ faults' \in 0..MaxFaults
  BY <1>1, <1>2, NothingSent DEF StoresTyped
<1>4. /\ NoForm \in Form /\ NoForm.at = "off" /\ NoForm.key = 0 /\ NoForm.post = NoPost
      /\ NoForm.post.res # "ok"
  BY Constants
<1>5. /\ accepted' \subseteq accepted \cup {form[t].key}
      /\ \A k \in accepted' \ accepted : k \in DOMAIN queue' \/ Recorded(k)'
  OBVIOUS
<1>6. QED
  BY <1>2, <1>3, <1>4, <1>5, FormStep

LEMMA EnqueueSound ==
  ASSUME IInv, NEW t \in Tabs, Enqueue(t)
  PROVE  IInv'
<1> DEFINE c == form[t].key
<1>1. form[t].at # "off"
  BY DEF Enqueue
<1>2. StoresTyped /\ TabsTyped /\ c \in Keys /\ owner[c] \in Users
  BY <1>1, BeforeForm
<1>3. /\ queue' = With(queue, c, 0) /\ Open(t, owner[c]) /\ accepted' = accepted \cup {c}
      /\ form' = [form EXCEPT ![t] = NoForm]
      /\ UNCHANGED <<server, online, cookie, remembered, hold, deleting, tab, event, verify, leaving,
                     drain, orphans, owner, undone, quiet, discarded, exposed, faults>>
  BY DEF Enqueue
<1>4. conn' \in [Tabs -> SUBSET Users]
  BY <1>2, <1>3 DEF Open, TabsTyped
<1>5. /\ DOMAIN queue' = DOMAIN queue \cup {c}
      /\ \A k \in DOMAIN queue' : queue'[k] \in 0..MaxAttempts
  BY <1>2, <1>3, Bounds DEF With, StoresTyped
<1>6. QED
  BY <1>1, <1>3, <1>4, <1>5, FormDone

LEMMA FormOkSound ==
  ASSUME IInv, NEW t \in Tabs, FormOk(t)
  PROVE  IInv'
<1> DEFINE f == form[t]
<1>1. StoresTyped /\ TabsTyped /\ OkIsRecorded /\ FormSound(t) /\ f.post.res = "ok"
  BY DEF IInv, Shapes, FormOk
<1>2. f.at # "off"
  BY <1>1, Constants DEF FormSound
<1>3. f.post \in Posts /\ <<f.post.as, f.key>> \in ledger /\ f.post.as \in Users
  BY <1>1, <1>2, BeforeForm DEF OkIsRecorded, StoresTyped
<1>4. /\ accepted' = accepted \cup {f.key} /\ form' = [form EXCEPT ![t] = NoForm]
      /\ UNCHANGED <<server, online, cookie, remembered, hold, queue, deleting, tab, conn, event, verify,
                     leaving, drain, orphans, owner, undone, quiet, discarded, exposed, faults>>
  BY DEF FormOk, shared
<1>5. \A k : k = f.key => Recorded(k)'
  BY <1>3, <1>4 DEF Recorded, server
<1>6. conn' \in [Tabs -> SUBSET Users] /\ \A k \in DOMAIN queue' : queue'[k] \in 0..MaxAttempts
  BY <1>1, <1>4 DEF StoresTyped, TabsTyped
<1>7. QED
  BY <1>2, <1>4, <1>5, <1>6, FormDone

(***************************************************************************)
(* A new capture has a key nobody knows.                                   *)
(***************************************************************************)
LEMMA NextKeyIsFresh ==
  ASSUME OwnersSound, NextKey \in Keys
  PROVE  /\ owner[NextKey] = None
         /\ \E n \in 0..MaxCaptures : \A k \in Keys : owner[k] # None \/ k = NextKey <=> k <= n
<1>1. PICK n \in 0..MaxCaptures : \A k \in Keys : owner[k] # None <=> k <= n
  BY DEF OwnersSound
<1>2. {k \in Keys : owner[k] # None} = 1..n
  BY <1>1, Bounds DEF Keys
<1>3. Cardinality(1..n) = n
  BY <1>1, Bounds, FS_Interval
<1>4. NextKey = n + 1
  BY <1>2, <1>3 DEF NextKey
<1>5. n + 1 \in 0..MaxCaptures
  BY <1>1, <1>4, Bounds DEF Keys
<1>6. \A k \in Keys : owner[k] # None \/ k = NextKey <=> k <= n + 1
  BY <1>1, <1>4, Bounds DEF Keys
<1>7. ~(NextKey <= n)
  BY <1>1, <1>4, Bounds
<1>8. QED
  BY <1>1, <1>5, <1>6, <1>7

LEMMA CaptureSound ==
  ASSUME IInv, NEW t \in Tabs, Capture(t)
  PROVE  IInv'
<1> DEFINE c == NextKey
           u == tab[t].user
           F == [NoForm EXCEPT !.at = "open", !.key = c]
<1>1. /\ StoresTyped /\ TabsTyped /\ OwnersSound /\ QuietIsForgotten /\ NoCaptureLost
      /\ \A s \in Tabs : FormSound(s) /\ \A v \in Users : DrainSound(s, v)
      /\ OkIsRecorded /\ ActsAsSelf
  BY DEF IInv, Shapes
<1>2. /\ u \in Users /\ c \in Keys /\ owner[c] = None /\ form[t].at = "off"
      /\ \E n \in 0..MaxCaptures : \A k \in Keys : owner[k] # None \/ k = c <=> k <= n
  BY <1>1, NextKeyIsFresh DEF Capture, TabsTyped, Tab
<1>3. /\ owner' = [owner EXCEPT ![c] = u] /\ form' = [form EXCEPT ![t] = F]
      /\ UNCHANGED <<sessions, ledger, online, cookie, remembered, hold, queue, deleting, tab, conn, event,
                     verify, leaving, drain, orphans, accepted, undone, quiet, discarded, exposed, faults>>
  BY DEF Capture, server, shared
<1> HIDE DEF c
<1>4. F \in Form /\ F.at = "open" /\ F.key = c /\ F.post = NoPost
  BY <1>2, Constants DEF Form, NoForm
<1>5. /\ form' \in [Tabs -> Form] /\ form'[t] = F
      /\ \A s \in Tabs : s # t => form'[s] = form[s]
  BY <1>1, <1>3, <1>4 DEF TabsTyped
<1>6. /\ owner' \in [Keys -> Users \cup {None}] /\ owner'[c] = u
      /\ \A k \in Keys : owner[k] # None => owner'[k] = owner[k]
      /\ \A k \in Keys : k # c => owner'[k] = owner[k]
  BY <1>1, <1>2, <1>3 DEF StoresTyped
<1> HIDE DEF F
<1>7. StoresTyped' /\ TabsTyped'
  BY <1>1, <1>3, <1>5, <1>6 DEF StoresTyped, TabsTyped
<1>8. OwnersSound'
  <2>1. \A k \in Keys : owner'[k] # None <=> owner[k] # None \/ k = c
    BY <1>2, <1>6, NoneAssumption
  <2>2. \E n \in 0..MaxCaptures : \A k \in Keys : owner'[k] # None <=> k <= n
    BY <1>2, <2>1
  <2>3. \A k \in DOMAIN queue \cup accepted \cup quiet : k \in Keys /\ owner[k] # None
    BY <1>1 DEF OwnersSound, StoresTyped
  <2>4. QED
    BY <1>3, <1>6, <2>2, <2>3 DEF OwnersSound
<1>9. ASSUME NEW s \in Tabs PROVE FormSound(s)'
  <2>1. CASE s = t
    BY <1>2, <1>3, <1>4, <1>5, <1>6, <2>1, NoneAssumption DEF FormSound, Keys
  <2>2. CASE s # t
    <3>1. form[s] \in Form
      BY <1>1 DEF TabsTyped
    <3>2. form[s].at # "off" => form[s].key \in Keys /\ owner[form[s].key] # None
      BY <1>1, <3>1 DEF FormSound, Form
    <3>3. QED
      BY <1>1, <1>3, <1>5, <1>6, <2>2, <3>2 DEF FormSound
  <2>3. QED
    BY <2>1, <2>2
<1>10. ASSUME NEW s \in Tabs, NEW v \in Users PROVE DrainSound(s, v)'
  <2>1. \A i \in DOMAIN drain[s][v].items :
          drain[s][v].items[i].key \in Keys /\ owner[drain[s][v].items[i].key] = v
    BY <1>1, CopiesTyped DEF Copied
  <2>2. \A i \in DOMAIN drain[s][v].items : owner'[drain[s][v].items[i].key] = v
    BY <1>6, <2>1, NoneAssumption
  <2>3. QED
    BY <1>1, <1>3, <2>2 DEF DrainSound
<1>11. OkIsRecorded'
  BY <1>1, <1>3, <1>4, <1>5, Constants DEF OkIsRecorded
<1>12. NoCaptureLost'
  BY <1>1, <1>3 DEF NoCaptureLost, Recorded
<1>13. QuietIsForgotten'
  <2>1. ASSUME NEW k \in quiet PROVE Forgotten(k)'
    <3>1. k # c /\ Forgotten(k)
      BY <1>1, <1>2 DEF OwnersSound, QuietIsForgotten
    <3>2. \A s \in Tabs : form'[s].key # k
      BY <1>4, <1>5, <3>1 DEF Forgotten
    <3>3. QED
      BY <1>3, <3>1, <3>2 DEF Forgotten, Recorded
  <2>2. QED
    BY <1>3, <2>1 DEF QuietIsForgotten
<1>14. \A v \in Users : Sheltered(v) => Sheltered(v)'
  BY <1>3 DEF Sheltered
<1>15. ASSUME NEW as \in Users, NEW k \in Keys, SentAs(as, owner[k])
       PROVE  SentAs(as, owner[k])'
  <2>1. owner[k] # None
    BY <1>1, <1>15, NoneAssumption DEF SentAs, StoresTyped
  <2>2. owner'[k] = owner[k]
    BY <1>6, <2>1
  <2>3. exposed' = exposed
    BY <1>3
  <2>4. QED
    BY <1>15, <2>2, <2>3 DEF SentAs
<1>16. ActsAsSelf'
  <2>1. remembered' \in Users => Sheltered(remembered)'
    BY <1>1, <1>3, <1>14 DEF ActsAsSelf
  <2>2. ASSUME NEW s \in Tabs
        PROVE  /\ tab'[s].user \in Users => Sheltered(tab[s].user)'
               /\ verify'[s].res \in Users /\ ~verify'[s].stale => Sheltered(verify[s].res)'
               /\ \A v \in Users :
                    /\ drain'[s][v].at # "off" => Sheltered(v)'
                    /\ drain'[s][v].at = "await" => SentAs(drain[s][v].post.as, v)'
    BY <1>1, <1>3, <1>14 DEF ActsAsSelf, SentAs
  <2>3. ASSUME NEW s \in Tabs, form'[s].at = "post"
        PROVE  SentAs(form[s].post.as, owner[form[s].key])'
    <3>1. s # t
      BY <1>4, <1>5, <2>3
    <3>2. form'[s] = form[s] /\ form[s].at = "post" /\ SentAs(form[s].post.as, owner[form[s].key])
      BY <1>1, <1>5, <2>3, <3>1 DEF ActsAsSelf
    <3>3. form[s].key \in Keys /\ owner[form[s].key] \in Users
      BY <3>2, BeforeForm
    <3>4. owner'[form[s].key] = owner[form[s].key]
      BY <1>6, <3>3, NoneAssumption
    <3>5. QED
      BY <1>3, <3>2, <3>4 DEF SentAs
  <2>4. \A o \in orphans' : SentAs(o.as, owner[o.key])'
    <3>1. \A o \in orphans : o.as \in Users /\ o.key \in Keys /\ SentAs(o.as, owner[o.key])
      BY <1>1 DEF ActsAsSelf, StoresTyped
    <3>2. QED
      BY <1>3, <1>15, <3>1, NoneAssumption
  <2>5. CrossAccountOnlyIfExposed'
    <3>1. ASSUME NEW r \in ledger, r[1] # owner'[r[2]] PROVE owner'[r[2]] \in exposed
      <4>1. r[1] \in Users /\ r[2] \in Keys
        BY <1>1 DEF StoresTyped
      <4>2. r[1] # owner[r[2]] => owner[r[2]] \in exposed
        BY <1>1 DEF ActsAsSelf, CrossAccountOnlyIfExposed
      <4>3. owner[r[2]] # None
        BY <1>1, <4>1, <4>2, NoneAssumption DEF StoresTyped
      <4>4. QED
        BY <1>6, <3>1, <4>1, <4>2, <4>3
    <3>2. QED
      BY <1>3, <3>1 DEF CrossAccountOnlyIfExposed
  <2>6. QED
    BY <2>1, <2>2, <2>3, <2>4, <2>5 DEF ActsAsSelf
<1>17. QED
  BY <1>7, <1>8, <1>9, <1>10, <1>11, <1>12, <1>13, <1>16 DEF IInv, Shapes

(***************************************************************************)
(* Captures taken back, one by one or with their queue.                    *)
(***************************************************************************)
LEMMA TakeBackStep ==
  ASSUME IInv, NEW K \in SUBSET DOMAIN queue, queue' = Without(queue, K),
         UNCHANGED <<server, online, cookie, remembered, hold, tab, event, verify, leaving, form, drain,
                     orphans, owner, accepted, exposed>>,
         deleting' \subseteq Users, conn' \in [Tabs -> SUBSET Users], faults' \in 0..MaxFaults,
         undone \subseteq undone', undone' \subseteq Keys,
         discarded \subseteq discarded', discarded' \subseteq Keys,
         K \subseteq undone' \cup discarded',
         quiet' = quiet \cup {k \in K : Unsent(k)}
  PROVE  IInv'
<1>1. /\ StoresTyped /\ TabsTyped /\ OwnersSound /\ QuietIsForgotten /\ NoCaptureLost
      /\ \A s \in Tabs : FormSound(s) /\ \A v \in Users : DrainSound(s, v)
      /\ OkIsRecorded /\ ActsAsSelf
  BY DEF IInv, Shapes
<1>2. /\ UNCHANGED <<sessions, ledger>>
      /\ DOMAIN queue' = DOMAIN queue \ K /\ \A k \in DOMAIN queue' : queue'[k] = queue[k]
  BY DEF server, Without
<1>3. StoresTyped' /\ TabsTyped'
  BY <1>1, <1>2 DEF StoresTyped, TabsTyped
<1>4. OwnersSound'
  <2>1. \A k \in DOMAIN queue' \cup accepted' \cup quiet' : owner[k] # None
    BY <1>1, <1>2 DEF OwnersSound
  <2>2. QED
    BY <1>1, <2>1 DEF OwnersSound
<1>5. \A s \in Tabs : FormSound(s)' /\ \A v \in Users : DrainSound(s, v)'
  BY <1>1 DEF FormSound, DrainSound
<1>6. OkIsRecorded' /\ ActsAsSelf'
  BY <1>1, <1>2 DEF OkIsRecorded, ActsAsSelf, Sheltered, SentAs, CrossAccountOnlyIfExposed
<1>7. NoCaptureLost'
  BY <1>1, <1>2, NothingIsLost
<1>8. ASSUME NEW k \in K, Unsent(k) PROVE Forgotten(k)'
  <2>1. /\ ~Recorded(k) /\ \A o \in orphans : o.key # k
        /\ \A s \in Tabs : form[s].key # k
    BY <1>8 DEF Unsent
  <2>2. ASSUME NEW s \in Tabs, NEW v \in Users, NEW i \in DOMAIN drain[s][v].items
        PROVE  drain[s][v].items[i].key # k
    <3>1. owner[drain[s][v].items[i].key] = v
      BY <1>1 DEF DrainSound
    <3>2. QED
      BY <1>8, <3>1 DEF Unsent
  <2>3. QED
    BY <1>2, <2>1, <2>2 DEF Forgotten, Recorded
<1>9. \A k \in quiet : Forgotten(k) => Forgotten(k)'
  BY <1>2 DEF Forgotten, Recorded
<1>10. QuietIsForgotten'
  BY <1>1, <1>8, <1>9 DEF QuietIsForgotten
<1>11. QED
  BY <1>3, <1>4, <1>5, <1>6, <1>7, <1>10 DEF IInv, Shapes

LEMMA UndoSound ==
  ASSUME IInv, NEW t \in Tabs, NEW k \in Keys, Undo(t, k)
  PROVE  IInv'
<1>1. StoresTyped /\ TabsTyped
  BY DEF IInv, Shapes
<1>2. /\ Mishap("undo") /\ tab[t].user # None /\ owner[k] = tab[t].user /\ k \in DOMAIN queue
      /\ Open(t, owner[k]) /\ queue' = Without(queue, {k}) /\ undone' = undone \cup {k}
      /\ quiet' = IF Unsent(k) THEN quiet \cup {k} ELSE quiet
      /\ UNCHANGED <<server, online, cookie, remembered, hold, deleting, tab, event, verify, leaving,
                     form, drain, orphans, owner, accepted, discarded, exposed>>
  BY DEF Undo
<1>3. quiet' = quiet \cup {j \in {k} : Unsent(j)}
  BY <1>2
<1>4. conn' \in [Tabs -> SUBSET Users] /\ faults' \in 0..MaxFaults
  <2>1. tab[t] \in Tab /\ owner[k] \in Users
    BY <1>1, <1>2 DEF TabsTyped, Tab
  <2>2. QED
    BY <1>1, <1>2, <2>1, MishapTyped DEF TabsTyped, Open
<1>5. /\ deleting' \subseteq Users /\ undone \subseteq undone' /\ undone' \subseteq Keys
      /\ discarded \subseteq discarded' /\ discarded' \subseteq Keys
  BY <1>1, <1>2 DEF StoresTyped
<1>6. {k} \in SUBSET DOMAIN queue /\ {k} \subseteq undone' \cup discarded'
  BY <1>2
<1>7. QED
  BY <1>2, <1>3, <1>4, <1>5, <1>6, TakeBackStep

LEMMA DeleteQueueSound ==
  ASSUME IInv, NEW u \in Users, DeleteQueue(u)
  PROVE  IInv'
<1>1. StoresTyped /\ TabsTyped
  BY DEF IInv, Shapes
<1>2. /\ deleting' = deleting \ {u} /\ queue' = Without(queue, Queued(u))
      /\ discarded' = discarded \cup Queued(u)
      /\ quiet' = quiet \cup {k \in Queued(u) : Unsent(k)}
      /\ UNCHANGED <<server, online, cookie, remembered, hold, tab, conn, event, verify, leaving, form,
                     drain, orphans, owner, accepted, undone, exposed, faults>>
  BY DEF DeleteQueue
<1>3. Queued(u) \in SUBSET DOMAIN queue /\ Queued(u) \subseteq Keys
  BY <1>1 DEF Queued, StoresTyped
<1>4. /\ deleting' \subseteq Users /\ conn' \in [Tabs -> SUBSET Users] /\ faults' \in 0..MaxFaults
      /\ undone \subseteq undone' /\ undone' \subseteq Keys
      /\ discarded \subseteq discarded' /\ discarded' \subseteq Keys
      /\ Queued(u) \subseteq undone' \cup discarded'
  BY <1>1, <1>2, <1>3 DEF StoresTyped, TabsTyped
<1> HIDE DEF DeleteQueue
<1>5. QED
  BY <1>2, <1>3, <1>4, TakeBackStep

(***************************************************************************)
(* Steps of the tabs' identity, of the network and of the server: screens  *)
(* and replays are left alone or dropped, and nothing is captured.         *)
(***************************************************************************)
\* A request under way in a tab, which the tab may abandon.
InTab(o) ==
  \/ \E s \in Tabs : form[s].at = "post" /\ o.as = form[s].post.as /\ o.key = form[s].key
  \/ \E s \in Tabs, v \in Users :
        drain[s][v].at = "await" /\ o.as = drain[s][v].post.as /\ o.key = Head(drain[s][v].items).key

LEMMA WorldStep ==
  ASSUME IInv,
         UNCHANGED <<queue, owner, accepted, undone, quiet, discarded>>,
         sessions' \subseteq Users, online' \in BOOLEAN, cookie' \in Users \cup {None},
         remembered' \in Users \cup {None}, hold' \subseteq Users, deleting' \subseteq Users,
         conn' \in [Tabs -> SUBSET Users], event' \in [Tabs -> BOOLEAN], verify' \in [Tabs -> Verify],
         leaving' \in [Tabs -> Leaving], faults' \in 0..MaxFaults, tab' \in [Tabs -> Tab],
         form' \in [Tabs -> Form], drain' \in [Tabs -> [Users -> Drain]],
         \A s \in Tabs : form'[s] = NoForm \/ (form'[s] = form[s] /\ tab'[s].user = tab[s].user),
         \A s \in Tabs, v \in Users : drain'[s][v] \in {drain[s][v], NoDrain},
         ledger \subseteq ledger', \A r \in ledger' \ ledger : \E o \in orphans : r = <<o.as, o.key>>,
         orphans' \subseteq [as: Users, key: Keys], \A o \in orphans' \ orphans : InTab(o),
         exposed \subseteq exposed', exposed' \subseteq Users,
         \A v \in Users : remembered' = v => Sheltered(v)',
         \A s \in Tabs, v \in Users : tab'[s].user = v => Sheltered(v)',
         \A s \in Tabs, v \in Users : verify'[s].res = v /\ ~verify'[s].stale => Sheltered(v)',
         \A s \in Tabs, v \in Users : drain'[s][v].at # "off" => Sheltered(v)'
  PROVE  IInv'
<1>1. /\ StoresTyped /\ TabsTyped /\ OwnersSound /\ QuietIsForgotten /\ NoCaptureLost
      /\ \A s \in Tabs : FormSound(s) /\ \A v \in Users : DrainSound(s, v)
      /\ OkIsRecorded /\ ActsAsSelf
  BY DEF IInv, Shapes
<1>2. ledger' \subseteq Users \X Keys
  BY <1>1 DEF StoresTyped
<1>3. StoresTyped' /\ TabsTyped'
  BY <1>1, <1>2 DEF StoresTyped, TabsTyped
<1>4. OwnersSound'
  BY <1>1 DEF OwnersSound
<1>5. ASSUME NEW s \in Tabs PROVE FormSound(s)'
  <2>1. CASE form'[s] = NoForm
    BY <2>1, Constants DEF FormSound
  <2>2. CASE form'[s] = form[s] /\ tab'[s].user = tab[s].user
    BY <1>1, <2>2 DEF FormSound
  <2>3. QED
    BY <2>1, <2>2
<1>6. ASSUME NEW s \in Tabs, NEW v \in Users PROVE DrainSound(s, v)'
  <2>1. CASE drain'[s][v] = NoDrain
    BY <2>1, Constants DEF DrainSound
  <2>2. CASE drain'[s][v] = drain[s][v]
    BY <1>1, <2>2 DEF DrainSound
  <2>3. QED
    BY <2>1, <2>2
<1>7. OkIsRecorded'
  BY <1>1, Constants DEF OkIsRecorded
<1>8. NoCaptureLost'
  BY <1>1, NothingIsLost
<1>9. \A o : InTab(o) => Known(o.key)
  <2>1. \A s \in Tabs, v \in Users :
           drain[s][v].at = "await" => Head(drain[s][v].items).key \in Copied(s, v)
    BY BeforeReplay
  <2>2. QED
    BY <2>1 DEF InTab, Known
<1>10. ASSUME NEW k \in Keys, Known(k)' PROVE Known(k)
  <2>1. Recorded(k)' => Known(k)
    <3>1. ASSUME NEW v \in Users, <<v, k>> \in ledger' PROVE Known(k)
      <4>1. CASE <<v, k>> \in ledger
        BY <4>1 DEF Known, Recorded
      <4>2. CASE <<v, k>> \notin ledger
        <5>1. PICK o \in orphans : <<v, k>> = <<o.as, o.key>>
          BY <3>1, <4>2
        <5>2. QED
          BY <5>1 DEF Known
      <4>3. QED
        BY <4>1, <4>2
    <3>2. QED
      BY <3>1 DEF Recorded
  <2>2. (\E o \in orphans' : o.key = k) => Known(k)
    <3>1. ASSUME NEW o \in orphans', o.key = k PROVE Known(k)
      BY <1>9, <3>1 DEF Known
    <3>2. QED
      BY <3>1
  <2>3. \A s \in Tabs : form'[s].key = k => form[s].key = k
    BY <1>10, Constants DEF Keys
  <2>4. \A s \in Tabs, v \in Users : k \in Copied(s, v)' => k \in Copied(s, v)
    BY Constants DEF Copied
  <2>5. QED
    BY <1>10, <2>1, <2>2, <2>3, <2>4 DEF Known
<1>11. QuietIsForgotten'
  BY <1>1, <1>10, NothingComesBack DEF StoresTyped
<1>12. \A as, v : SentAs(as, v) => SentAs(as, v)'
  BY DEF SentAs
<1>13. \A o : InTab(o) => SentAs(o.as, owner[o.key])
  <2>1. \A s \in Tabs : form[s].at = "post" => SentAs(form[s].post.as, owner[form[s].key])
    BY <1>1 DEF ActsAsSelf
  <2>2. \A s \in Tabs, v \in Users :
           drain[s][v].at = "await" => /\ SentAs(drain[s][v].post.as, v)
                                       /\ owner[Head(drain[s][v].items).key] = v
    BY BeforeReplay
  <2>3. QED
    BY <2>1, <2>2 DEF InTab
<1>14. ActsAsSelf'
  <2>1. remembered' \in Users => Sheltered(remembered)'
    OBVIOUS
  <2>2. ASSUME NEW s \in Tabs
        PROVE  /\ tab'[s].user \in Users => Sheltered(tab[s].user)'
               /\ verify'[s].res \in Users /\ ~verify'[s].stale => Sheltered(verify[s].res)'
    OBVIOUS
  <2>3. ASSUME NEW s \in Tabs, form'[s].at = "post"
        PROVE  SentAs(form[s].post.as, owner[form[s].key])'
    BY <1>1, <1>12, <2>3, Constants DEF ActsAsSelf
  <2>4. ASSUME NEW s \in Tabs, NEW v \in Users, drain'[s][v].at = "await"
        PROVE  SentAs(drain[s][v].post.as, v)'
    BY <1>1, <1>12, <2>4, Constants DEF ActsAsSelf
  <2>5. \A o \in orphans' : SentAs(o.as, owner[o.key])'
    BY <1>1, <1>12, <1>13 DEF ActsAsSelf
  <2>6. CrossAccountOnlyIfExposed'
    <3>1. ASSUME NEW r \in ledger', r[1] # owner[r[2]] PROVE owner[r[2]] \in exposed'
      <4>1. CASE r \in ledger
        BY <1>1, <3>1, <4>1 DEF ActsAsSelf, CrossAccountOnlyIfExposed
      <4>2. CASE r \notin ledger
        <5>1. PICK o \in orphans : r = <<o.as, o.key>>
          BY <4>2
        <5>2. SentAs(o.as, owner[o.key]) /\ o.as \in Users
          BY <1>1 DEF ActsAsSelf, StoresTyped
        <5>3. QED
          BY <3>1, <5>1, <5>2, NoneAssumption DEF SentAs
      <4>3. QED
        BY <4>1, <4>2
    <3>2. QED
      BY <3>1 DEF CrossAccountOnlyIfExposed
  <2>7. QED
    BY <2>1, <2>2, <2>3, <2>4, <2>5, <2>6 DEF ActsAsSelf
<1>15. QED
  BY <1>3, <1>4, <1>5, <1>6, <1>7, <1>8, <1>11, <1>14 DEF IInv, Shapes

\* Steps that leave the tabs alone.
LEMMA ServeOrphanSound ==
  ASSUME IInv, ServeOrphan
  PROVE  IInv'
<1>1. StoresTyped /\ TabsTyped /\ ActsAsSelf
  BY DEF IInv, Shapes
<1>2. PICK o \in orphans : /\ (\E res \in Results : Serve(o.as, o.key, res)) \/ UNCHANGED <<ledger, faults>>
                           /\ orphans' = orphans \ {o}
  BY DEF ServeOrphan
<1>3. UNCHANGED <<sessions, online, cookie, remembered, hold, queue, deleting, tab, conn, event, verify,
                  leaving, form, drain, owner, accepted, undone, quiet, discarded, exposed>>
  BY DEF ServeOrphan, shared, history
<1>4. /\ ledger \subseteq ledger' /\ \A r \in ledger' \ ledger : r = <<o.as, o.key>>
      /\ faults' \in 0..MaxFaults
  <2>1. CASE UNCHANGED <<ledger, faults>>
    BY <1>1, <2>1 DEF StoresTyped
  <2>2. CASE \E res \in Results : Serve(o.as, o.key, res)
    BY <1>1, <2>2, ServeTyped
  <2>3. QED
    BY <1>2, <2>1, <2>2
<1>5. /\ sessions' \subseteq Users /\ online' \in BOOLEAN /\ cookie' \in Users \cup {None}
      /\ remembered' \in Users \cup {None} /\ hold' \subseteq Users /\ deleting' \subseteq Users
      /\ orphans' \subseteq [as: Users, key: Keys] /\ orphans' \ orphans = {}
      /\ exposed \subseteq exposed' /\ exposed' \subseteq Users
  BY <1>1, <1>2, <1>3 DEF StoresTyped
<1>6. /\ conn' \in [Tabs -> SUBSET Users] /\ event' \in [Tabs -> BOOLEAN] /\ verify' \in [Tabs -> Verify]
      /\ leaving' \in [Tabs -> Leaving] /\ tab' \in [Tabs -> Tab] /\ form' \in [Tabs -> Form]
      /\ drain' \in [Tabs -> [Users -> Drain]]
  BY <1>1, <1>3 DEF TabsTyped
<1>7. \A v : Sheltered(v) => Sheltered(v)'
  BY <1>3 DEF Sheltered
<1>8. /\ \A v \in Users : remembered' = v => Sheltered(v)'
      /\ \A s \in Tabs, v \in Users : tab'[s].user = v => Sheltered(v)'
      /\ \A s \in Tabs, v \in Users : verify'[s].res = v /\ ~verify'[s].stale => Sheltered(v)'
      /\ \A s \in Tabs, v \in Users : drain'[s][v].at # "off" => Sheltered(v)'
  BY <1>1, <1>3, <1>7 DEF ActsAsSelf
<1>9. QED
  BY <1>3, <1>4, <1>5, <1>6, <1>8, WorldStep

\* What the tabs hold is unchanged; the cookie may be given up.
LEMMA WeatherStep ==
  ASSUME IInv, UNCHANGED <<ledger, remembered, queue, tab, verify, form, drain, orphans, history>>,
         sessions' \subseteq Users, online' \in BOOLEAN, cookie' \in {cookie, None}, hold' \subseteq Users,
         deleting' \subseteq Users, conn' \in [Tabs -> SUBSET Users], event' \in [Tabs -> BOOLEAN],
         leaving' \in [Tabs -> Leaving], faults' \in 0..MaxFaults
  PROVE  IInv'
<1>1. StoresTyped /\ TabsTyped /\ ActsAsSelf
  BY DEF IInv, Shapes
<1>2. UNCHANGED <<owner, accepted, undone, quiet, discarded, exposed>>
  BY DEF history
<1>3. /\ cookie' \in Users \cup {None} /\ remembered' \in Users \cup {None}
      /\ orphans' \subseteq [as: Users, key: Keys] /\ orphans' \ orphans = {}
      /\ ledger \subseteq ledger' /\ ledger' \ ledger = {}
      /\ exposed \subseteq exposed' /\ exposed' \subseteq Users
  BY <1>1, <1>2 DEF StoresTyped
<1>4. /\ verify' \in [Tabs -> Verify] /\ tab' \in [Tabs -> Tab] /\ form' \in [Tabs -> Form]
      /\ drain' \in [Tabs -> [Users -> Drain]]
  BY <1>1 DEF TabsTyped
<1>5. \A v : Sheltered(v) => Sheltered(v)'
  BY <1>2 DEF Sheltered
<1>6. /\ \A v \in Users : remembered' = v => Sheltered(v)'
      /\ \A s \in Tabs, v \in Users : tab'[s].user = v => Sheltered(v)'
      /\ \A s \in Tabs, v \in Users : verify'[s].res = v /\ ~verify'[s].stale => Sheltered(v)'
      /\ \A s \in Tabs, v \in Users : drain'[s][v].at # "off" => Sheltered(v)'
  BY <1>1, <1>5 DEF ActsAsSelf
<1>7. QED
  BY <1>2, <1>3, <1>4, <1>6, WorldStep

LEMMA GoOnlineSound ==
  ASSUME IInv, GoOnline
  PROVE  IInv'
<1>1. StoresTyped /\ TabsTyped
  BY DEF IInv, Shapes
<1>2. /\ online' = TRUE /\ event' = [t \in Tabs |-> tab[t].user # None]
      /\ UNCHANGED <<sessions, ledger, cookie, remembered, hold, queue, deleting, tab, conn, verify, leaving,
                     form, drain, orphans, history, faults>>
  BY DEF GoOnline, server
<1>3. QED
  BY <1>1, <1>2, WeatherStep DEF StoresTyped, TabsTyped

LEMMA GoOfflineSound ==
  ASSUME IInv, GoOffline
  PROVE  IInv'
<1>1. StoresTyped /\ TabsTyped
  BY DEF IInv, Shapes
<1>2. /\ online' = FALSE /\ Mishap("offline")
      /\ UNCHANGED <<sessions, ledger, cookie, remembered, hold, queue, deleting, tab, conn, event, verify,
                     leaving, form, drain, orphans, history>>
  BY DEF GoOffline, server
<1>3. faults' \in 0..MaxFaults
  BY <1>1, <1>2, MishapTyped
<1>4. QED
  BY <1>1, <1>2, <1>3, WeatherStep DEF StoresTyped, TabsTyped

LEMMA ExpireSound ==
  ASSUME IInv, NEW u \in Users, Expire(u)
  PROVE  IInv'
<1>1. StoresTyped /\ TabsTyped
  BY DEF IInv, Shapes
<1>2. /\ sessions' = sessions \ {u} /\ Mishap("expire")
      /\ UNCHANGED <<ledger, online, cookie, remembered, hold, queue, deleting, tab, conn, event, verify,
                     leaving, form, drain, orphans, history>>
  BY DEF Expire, shared
<1>3. faults' \in 0..MaxFaults
  BY <1>1, <1>2, MishapTyped
<1>4. QED
  BY <1>1, <1>2, <1>3, WeatherStep DEF StoresTyped, TabsTyped

LEMMA LogoutPostSound ==
  ASSUME IInv, NEW t \in Tabs, LogoutPost(t)
  PROVE  IInv'
<1>1. StoresTyped /\ TabsTyped
  BY DEF IInv, Shapes
<1>2. /\ sessions' \subseteq sessions /\ cookie' \in {cookie, None} /\ Mishap("logout")
      /\ tab[t].user # None
      /\ leaving' = [leaving EXCEPT ![t] = [at |-> "purge", uid |-> tab[t].user]]
      /\ UNCHANGED <<ledger, online, remembered, hold, queue, deleting, tab, conn, event, verify,
                     form, drain, orphans, history>>
  BY DEF LogoutPost
<1>3. faults' \in 0..MaxFaults
  BY <1>1, <1>2, MishapTyped
<1>4. leaving' \in [Tabs -> Leaving]
  BY <1>1, <1>2 DEF TabsTyped, Tab, Leaving
<1>5. QED
  BY <1>1, <1>2, <1>3, <1>4, WeatherStep DEF StoresTyped, TabsTyped

LEMMA LogoutPurgeSound ==
  ASSUME IInv, NEW t \in Tabs, LogoutPurge(t)
  PROVE  IInv'
<1>1. StoresTyped /\ TabsTyped
  BY DEF IInv, Shapes
<1> DEFINE u == leaving[t].uid
<1>2. /\ conn' = [conn EXCEPT ![t] = @ \ {u}] /\ deleting' = deleting \cup {u}
      /\ leaving' = [leaving EXCEPT ![t].at = "leave"] /\ leaving[t].at = "purge"
      /\ UNCHANGED <<sessions, ledger, online, cookie, remembered, hold, queue, tab, event, verify, form,
                     drain, orphans, history, faults>>
  BY DEF LogoutPurge, server
<1>3. leaving' \in [Tabs -> Leaving] /\ conn' \in [Tabs -> SUBSET Users]
  BY <1>1, <1>2 DEF TabsTyped, Leaving, Staying
<1>4. u \in Users
  BY <1>1, <1>2 DEF TabsTyped, Leaving, Staying
<1>5. deleting' \subseteq Users
  BY <1>1, <1>2, <1>4 DEF StoresTyped
<1>6. QED
  BY <1>1, <1>2, <1>3, <1>5, WeatherStep DEF StoresTyped, TabsTyped

\* The tab's request, abandoned with its screen.
LEMMA ScreenDropped ==
  ASSUME IInv, NEW t \in Tabs
  PROVE  \A o \in Abandoned(form[t].post, form[t].key) : o \in [as: Users, key: Keys] /\ InTab(o)
<1>1. /\ form[t] \in Form /\ FormSound(t)
  BY DEF IInv, Shapes, TabsTyped
<1>2. /\ form[t].post \in Posts /\ form[t].key \in Keys \cup {0}
      /\ form[t].post.res = "flight" => form[t].at = "post" /\ form[t].key \in Keys
  BY <1>1, Constants DEF Form, FormSound
<1>3. \A o \in Abandoned(form[t].post, form[t].key) :
        o \in [as: Users, key: Keys] /\ o.as = form[t].post.as /\ o.key = form[t].key /\ form[t].at = "post"
  BY <1>2, AbandonedTyped
<1>4. QED
  BY <1>3 DEF InTab

\* Tab t shows w from now on; it has retired, or received, an answer V about who it is.
LEMMA ShowStep ==
  ASSUME IInv, NEW t \in Tabs, NEW w \in Users \cup {None}, NEW b \in BOOLEAN, Show(t, w, b),
         NEW V \in Verify, verify' = [verify EXCEPT ![t] = V],
         UNCHANGED <<ledger, online, queue, deleting, conn, drain, owner, accepted, undone, quiet,
                     discarded, faults>>,
         sessions' \subseteq Users, cookie' \in Users \cup {None}, remembered' \in Users \cup {None},
         hold' \subseteq Users, leaving' \in [Tabs -> Leaving],
         exposed \subseteq exposed', exposed' \subseteq Users,
         \A v \in Users : remembered' = v => Sheltered(v)',
         \A v \in Users : w = v => Sheltered(v)',
         \A v \in Users : V.res = v /\ ~V.stale => Sheltered(v)',
         \A v \in Users : StillKnown(t, v) /\ Sheltered(v) => Sheltered(v)'
  PROVE  IInv'
<1>1. StoresTyped /\ TabsTyped /\ ActsAsSelf
  BY DEF IInv, Shapes
<1>2. /\ tab' = [tab EXCEPT ![t] = [user |-> w, unverified |-> b]]
      /\ event' \in [Tabs -> BOOLEAN]
  <2>1. event' = [event EXCEPT ![t] = IF tab[t] = [user |-> w, unverified |-> b] THEN @ ELSE w # None]
        /\ tab' = [tab EXCEPT ![t] = [user |-> w, unverified |-> b]]
    BY DEF Show
  <2>2. QED
    BY <1>1, <2>1 DEF TabsTyped
<1>3. /\ tab' \in [Tabs -> Tab] /\ tab'[t].user = w
      /\ \A s \in Tabs : s # t => tab'[s] = tab[s]
  BY <1>1, <1>2 DEF TabsTyped, Tab
<1>4. /\ verify' \in [Tabs -> Verify] /\ verify'[t] = V
      /\ \A s \in Tabs : s # t => verify'[s] = verify[s]
  BY <1>1 DEF TabsTyped
<1>5. /\ form' \in [Tabs -> Form] /\ \A s \in Tabs : s # t => form'[s] = form[s]
      /\ form'[t] = NoForm \/ (form'[t] = form[t] /\ tab[t].user = w)
      /\ orphans \subseteq orphans' /\ orphans' \subseteq orphans \cup Abandoned(form[t].post, form[t].key)
  <2>1. CASE tab[t].user = w
    <3>1. UNCHANGED <<form, orphans>>
      BY <2>1 DEF Show
    <3>2. QED
      BY <1>1, <2>1, <3>1 DEF TabsTyped
  <2>2. CASE tab[t].user # w
    <3>1. /\ form' = [form EXCEPT ![t] = NoForm]
          /\ orphans' = orphans \cup Abandoned(form[t].post, form[t].key)
      BY <2>2 DEF Show
    <3>2. QED
      BY <1>1, <3>1, Constants DEF TabsTyped
  <2>3. QED
    BY <2>1, <2>2
<1>6. orphans' \subseteq [as: Users, key: Keys] /\ \A o \in orphans' \ orphans : InTab(o)
  BY <1>1, <1>5, ScreenDropped DEF StoresTyped
<1>7. \A s \in Tabs : form'[s] = NoForm \/ (form'[s] = form[s] /\ tab'[s].user = tab[s].user)
  BY <1>3, <1>5
<1>8. \A s \in Tabs, v \in Users : tab'[s].user = v => Sheltered(v)'
  <2>1. SUFFICES ASSUME NEW s \in Tabs, NEW v \in Users, tab'[s].user = v, s # t PROVE Sheltered(v)'
    BY <1>3
  <2>2. tab[s].user = v /\ Sheltered(v)
    BY <1>1, <1>3, <2>1 DEF ActsAsSelf
  <2>3. StillKnown(t, v)
    BY <2>1, <2>2 DEF StillKnown
  <2>4. QED
    BY <2>2, <2>3
<1>9. \A s \in Tabs, v \in Users : verify'[s].res = v /\ ~verify'[s].stale => Sheltered(v)'
  <2>1. SUFFICES ASSUME NEW s \in Tabs, NEW v \in Users, verify'[s].res = v, ~verify'[s].stale, s # t
                 PROVE  Sheltered(v)'
    BY <1>4
  <2>2. verify[s].res = v /\ Sheltered(v)
    BY <1>1, <1>4, <2>1 DEF ActsAsSelf
  <2>3. StillKnown(t, v)
    BY <2>1, <2>2 DEF StillKnown
  <2>4. QED
    BY <2>2, <2>3
<1>10. \A s \in Tabs, v \in Users : drain'[s][v].at # "off" => Sheltered(v)'
  <2>1. SUFFICES ASSUME NEW s \in Tabs, NEW v \in Users, drain[s][v].at # "off" PROVE Sheltered(v)'
    OBVIOUS
  <2>2. Sheltered(v)
    BY <1>1, <2>1 DEF ActsAsSelf
  <2>3. StillKnown(t, v)
    BY <2>1 DEF StillKnown
  <2>4. QED
    BY <2>2, <2>3
<1>11. /\ online' \in BOOLEAN /\ deleting' \subseteq Users /\ faults' \in 0..MaxFaults
       /\ conn' \in [Tabs -> SUBSET Users] /\ drain' \in [Tabs -> [Users -> Drain]]
       /\ ledger \subseteq ledger' /\ ledger' \ ledger = {}
       /\ \A s \in Tabs, v \in Users : drain'[s][v] \in {drain[s][v], NoDrain}
  BY <1>1 DEF StoresTyped, TabsTyped
<1>12. QED
  BY <1>2, <1>3, <1>4, <1>5, <1>6, <1>7, <1>8, <1>9, <1>10, <1>11, WorldStep

\* An answer about who a tab is has one of the shapes the client knows.
LEMMA MeTyped ==
  ASSUME StoresTyped
  PROVE  [res |-> Me, stale |-> FALSE] \in Verify /\ \A v \in Users : Me = v => cookie = v
BY AnswersAssumption DEF Me, Verify, StoresTyped

LEMMA VerifyUserSound ==
  ASSUME IInv, NEW t \in Tabs, VerifyUser(t)
  PROVE  IInv'
<1> DEFINE u == verify[t].res
<1>1. StoresTyped /\ TabsTyped /\ ActsAsSelf
  BY DEF IInv, Shapes
<1>2. /\ u \in Users /\ ~verify[t].stale /\ hold' = Held(remembered) \ {u} /\ remembered' = u
      /\ Show(t, u, FALSE) /\ verify' = [verify EXCEPT ![t] = NoVerify]
      /\ UNCHANGED <<sessions, ledger, online, cookie, queue, deleting, conn, leaving, drain, owner, accepted,
                     undone, quiet, discarded, exposed, faults>>
  BY DEF VerifyUser, Remember, EndVerify, server, history
<1>3. \A v : Sheltered(v) => Sheltered(v)'
  BY <1>2 DEF Sheltered
<1>4. \A v \in Users : u = v => Sheltered(v)'
  BY <1>1, <1>2, <1>3 DEF ActsAsSelf
<1>5. \A v \in Users : NoVerify.res # v
  BY AnswersAssumption DEF NoVerify
<1>6. /\ sessions' \subseteq Users /\ cookie' \in Users \cup {None} /\ remembered' \in Users \cup {None}
      /\ hold' \subseteq Users /\ leaving' \in [Tabs -> Leaving] /\ exposed' \subseteq Users
  BY <1>1, <1>2 DEF StoresTyped, TabsTyped, Held
<1> HIDE DEF u
<1>7. QED
  BY <1>2, <1>3, <1>4, <1>5, <1>6, Constants, ShowStep

LEMMA VerifyDeniedSound ==
  ASSUME IInv, NEW t \in Tabs, VerifyDenied(t)
  PROVE  IInv'
<1>1. StoresTyped /\ TabsTyped
  BY DEF IInv, Shapes
<1>2. /\ hold' = Held(remembered) /\ remembered' = None
      /\ Show(t, None, FALSE) /\ verify' = [verify EXCEPT ![t] = NoVerify]
      /\ UNCHANGED <<sessions, ledger, online, cookie, queue, deleting, conn, leaving, drain, owner, accepted,
                     undone, quiet, discarded, exposed, faults>>
  BY DEF VerifyDenied, Remember, EndVerify, server, history
<1>3. \A v : Sheltered(v) => Sheltered(v)'
  BY <1>2 DEF Sheltered
<1>4. \A v \in Users : NoVerify.res # v /\ None # v
  BY AnswersAssumption, NoneAssumption DEF NoVerify
<1>5. /\ sessions' \subseteq Users /\ cookie' \in Users \cup {None} /\ remembered' \in Users \cup {None}
      /\ hold' \subseteq Users /\ leaving' \in [Tabs -> Leaving] /\ exposed' \subseteq Users
  BY <1>1, <1>2 DEF StoresTyped, TabsTyped, Held
<1>6. QED
  BY <1>2, <1>3, <1>4, <1>5, Constants, ShowStep

LEMMA VerifyLostSound ==
  ASSUME IInv, NEW t \in Tabs, VerifyLost(t)
  PROVE  IInv'
<1>1. StoresTyped /\ TabsTyped /\ ActsAsSelf
  BY DEF IInv, Shapes
<1>2. /\ Show(t, remembered, remembered # None) /\ verify' = [verify EXCEPT ![t] = NoVerify]
      /\ UNCHANGED <<sessions, ledger, online, cookie, remembered, hold, queue, deleting, conn, leaving, drain,
                     owner, accepted, undone, quiet, discarded, exposed, faults>>
  BY DEF VerifyLost, EndVerify, server, shared, history
<1>3. \A v : Sheltered(v) => Sheltered(v)'
  BY <1>2 DEF Sheltered
<1>4. \A v \in Users : remembered = v => Sheltered(v)'
  BY <1>1, <1>3 DEF ActsAsSelf
<1>5. \A v \in Users : NoVerify.res # v
  BY AnswersAssumption DEF NoVerify
<1>6. /\ sessions' \subseteq Users /\ cookie' \in Users \cup {None} /\ remembered' \in Users \cup {None}
      /\ remembered \in Users \cup {None} /\ (remembered # None) \in BOOLEAN
      /\ hold' \subseteq Users /\ leaving' \in [Tabs -> Leaving] /\ exposed' \subseteq Users
  BY <1>1, <1>2 DEF StoresTyped, TabsTyped
<1>7. \A v \in Users : remembered' = v => Sheltered(v)'
  BY <1>2, <1>4
<1>8. QED
  BY <1>2, <1>3, <1>4, <1>5, <1>6, <1>7, Constants, ShowStep

LEMMA LogoutLeaveSound ==
  ASSUME IInv, NEW t \in Tabs, LogoutLeave(t)
  PROVE  IInv'
<1> DEFINE V == [verify[t] EXCEPT !.stale = (verify[t] # NoVerify)]
<1>1. StoresTyped /\ TabsTyped /\ ActsAsSelf
  BY DEF IInv, Shapes
<1>2. /\ hold' \subseteq hold /\ remembered' = None /\ Show(t, None, FALSE)
      /\ verify' = [verify EXCEPT ![t].stale = (verify[t] # NoVerify)]
      /\ leaving' = [leaving EXCEPT ![t] = Staying]
      /\ UNCHANGED <<sessions, ledger, online, cookie, queue, deleting, conn, drain, owner, accepted,
                     undone, quiet, discarded, exposed, faults>>
  BY DEF LogoutLeave, Remember, Retire, server, history
<1>3. verify' = [verify EXCEPT ![t] = V]
  BY <1>2
<1>4. verify[t] \in Verify
  BY <1>1 DEF TabsTyped
<1>5. V \in Verify /\ V.res = verify[t].res /\ V.stale = (verify[t] # NoVerify)
  BY <1>4 DEF Verify
<1>6. \A v \in Users : V.res = v => V.stale
  <2>1. \A v \in Users : verify[t].res = v => verify[t] # NoVerify
    BY AnswersAssumption DEF NoVerify
  <2>2. QED
    BY <1>5, <2>1, Zenon
<1> HIDE DEF V
<1>7. \A v : Sheltered(v) => Sheltered(v)'
  BY <1>2 DEF Sheltered
<1>8. /\ sessions' \subseteq Users /\ cookie' \in Users \cup {None} /\ remembered' \in Users \cup {None}
      /\ hold' \subseteq Users /\ leaving' \in [Tabs -> Leaving] /\ exposed' \subseteq Users
  BY <1>1, <1>2, Constants DEF StoresTyped, TabsTyped
<1>9. \A v \in Users : None # v /\ remembered' # v
  BY <1>2, NoneAssumption
<1>10. /\ \A v \in Users : remembered' = v => Sheltered(v)'
       /\ \A v \in Users : None = v => Sheltered(v)'
       /\ \A v \in Users : V.res = v /\ ~V.stale => Sheltered(v)'
       /\ \A v \in Users : StillKnown(t, v) /\ Sheltered(v) => Sheltered(v)'
  BY <1>6, <1>7, <1>9
<1>11. /\ Show(t, None, FALSE) /\ None \in Users \cup {None} /\ FALSE \in BOOLEAN
       /\ UNCHANGED <<ledger, online, queue, deleting, conn, drain, owner, accepted, undone, quiet,
                      discarded, exposed, faults>>
  BY <1>2
<1>12. QED
  BY <1>3, <1>5, <1>8, <1>10, <1>11, ShowStep

LEMMA LoginSound ==
  ASSUME IInv, NEW t \in Tabs, NEW u \in Users, Login(t, u)
  PROVE  IInv'
<1> DEFINE V == [verify[t] EXCEPT !.stale = (verify[t] # NoVerify)]
<1>1. StoresTyped /\ TabsTyped /\ ActsAsSelf
  BY DEF IInv, Shapes
<1>2. /\ sessions' = sessions \cup {u} /\ cookie' = u /\ remembered' = u /\ hold' = hold \ {u}
      /\ Show(t, u, FALSE) /\ verify' = [verify EXCEPT ![t].stale = (verify[t] # NoVerify)]
      /\ exposed' = exposed \cup {v \in Users \ {u} : StillKnown(t, v)}
      /\ UNCHANGED <<ledger, online, queue, deleting, conn, leaving, drain, owner, accepted,
                     undone, quiet, discarded, faults>>
  BY DEF Login, Remember, Retire
<1>3. verify' = [verify EXCEPT ![t] = V]
  BY <1>2
<1>4. verify[t] \in Verify
  BY <1>1 DEF TabsTyped
<1>5. V \in Verify /\ V.res = verify[t].res /\ V.stale = (verify[t] # NoVerify)
  BY <1>4 DEF Verify
<1>6. \A v \in Users : V.res = v => V.stale
  <2>1. \A v \in Users : verify[t].res = v => verify[t] # NoVerify
    BY AnswersAssumption DEF NoVerify
  <2>2. QED
    BY <1>5, <2>1, Zenon
<1> HIDE DEF V
<1>7. \A v \in Users : StillKnown(t, v) => Sheltered(v)'
  <2>1. SUFFICES ASSUME NEW v \in Users, StillKnown(t, v) PROVE v \in exposed' \/ cookie' \in {v, None}
    BY DEF Sheltered
  <2>2. QED
    BY <1>2, <2>1
<1>8. \A v \in Users : u = v => Sheltered(v)'
  BY <1>2 DEF Sheltered
<1>9. /\ sessions' \subseteq Users /\ cookie' \in Users \cup {None} /\ remembered' \in Users \cup {None}
      /\ hold' \subseteq Users /\ leaving' \in [Tabs -> Leaving]
      /\ exposed \subseteq exposed' /\ exposed' \subseteq Users
  BY <1>1, <1>2 DEF StoresTyped, TabsTyped
<1>10. QED
  BY <1>2, <1>3, <1>5, <1>6, <1>7, <1>8, <1>9, ShowStep

LEMMA ReverifySound ==
  ASSUME IInv, NEW t \in Tabs, Reverify(t)
  PROVE  IInv'
<1> DEFINE V == [res |-> Me, stale |-> FALSE]
<1>1. StoresTyped /\ TabsTyped /\ ActsAsSelf
  BY DEF IInv, Shapes
<1>2. /\ verify' = [verify EXCEPT ![t] = V] /\ event' = [event EXCEPT ![t] = FALSE]
      /\ UNCHANGED <<sessions, ledger, online, cookie, remembered, hold, queue, deleting, tab, conn, leaving,
                     form, drain, orphans, owner, accepted, undone, quiet, discarded, exposed, faults>>
  BY DEF Reverify, AskMe, server, shared, history
<1>3. V \in Verify /\ \A v \in Users : V.res = v => cookie = v
  BY <1>1, MeTyped
<1> HIDE DEF V
<1>4. /\ verify' \in [Tabs -> Verify] /\ verify'[t] = V
      /\ \A s \in Tabs : s # t => verify'[s] = verify[s]
  BY <1>1, <1>2, <1>3 DEF TabsTyped
<1>5. \A v : (Sheltered(v) => Sheltered(v)') /\ (cookie = v => Sheltered(v)')
  BY <1>2 DEF Sheltered
<1>6. /\ \A v \in Users : remembered' = v => Sheltered(v)'
      /\ \A s \in Tabs, v \in Users : tab'[s].user = v => Sheltered(v)'
      /\ \A s \in Tabs, v \in Users : drain'[s][v].at # "off" => Sheltered(v)'
  BY <1>1, <1>2, <1>5 DEF ActsAsSelf
<1>7. \A s \in Tabs, v \in Users : verify'[s].res = v /\ ~verify'[s].stale => Sheltered(v)'
  <2>1. SUFFICES ASSUME NEW s \in Tabs, NEW v \in Users, verify'[s].res = v, ~verify'[s].stale
                 PROVE  Sheltered(v)'
    OBVIOUS
  <2>2. CASE s = t
    BY <1>3, <1>4, <1>5, <2>1, <2>2
  <2>3. CASE s # t
    BY <1>1, <1>4, <1>5, <2>1, <2>3 DEF ActsAsSelf
  <2>4. QED
    BY <2>2, <2>3
<1>8. /\ sessions' \subseteq Users /\ online' \in BOOLEAN /\ cookie' \in Users \cup {None}
      /\ remembered' \in Users \cup {None} /\ hold' \subseteq Users /\ deleting' \subseteq Users
      /\ orphans' \subseteq [as: Users, key: Keys] /\ orphans' \ orphans = {}
      /\ exposed \subseteq exposed' /\ exposed' \subseteq Users /\ faults' \in 0..MaxFaults
  BY <1>1, <1>2 DEF StoresTyped
<1>9. /\ conn' \in [Tabs -> SUBSET Users] /\ event' \in [Tabs -> BOOLEAN]
      /\ leaving' \in [Tabs -> Leaving] /\ tab' \in [Tabs -> Tab] /\ form' \in [Tabs -> Form]
      /\ drain' \in [Tabs -> [Users -> Drain]]
  BY <1>1, <1>2 DEF TabsTyped
<1>10. QED
  BY <1>2, <1>4, <1>6, <1>7, <1>8, <1>9, WorldStep

LEMMA VerifyStaleSound ==
  ASSUME IInv, NEW t \in Tabs, VerifyStale(t)
  PROVE  IInv'
<1>1. StoresTyped /\ TabsTyped /\ ActsAsSelf
  BY DEF IInv, Shapes
<1>2. /\ verify' = [verify EXCEPT ![t] = NoVerify]
      /\ UNCHANGED <<sessions, ledger, online, cookie, remembered, hold, queue, deleting, tab, conn, event,
                     leaving, form, drain, orphans, owner, accepted, undone, quiet, discarded, exposed, faults>>
  BY DEF VerifyStale, EndVerify, server, shared, history
<1>3. /\ verify' \in [Tabs -> Verify]
      /\ \A s \in Tabs : verify'[s] = verify[s] \/ verify'[s] = NoVerify
  BY <1>1, <1>2, Constants DEF TabsTyped
<1>4. \A v \in Users : NoVerify.res # v
  BY AnswersAssumption DEF NoVerify
<1>5. \A v : Sheltered(v) => Sheltered(v)'
  BY <1>2 DEF Sheltered
<1>6. /\ \A v \in Users : remembered' = v => Sheltered(v)'
      /\ \A s \in Tabs, v \in Users : tab'[s].user = v => Sheltered(v)'
      /\ \A s \in Tabs, v \in Users : drain'[s][v].at # "off" => Sheltered(v)'
      /\ \A s \in Tabs, v \in Users : verify'[s].res = v /\ ~verify'[s].stale => Sheltered(v)'
  BY <1>1, <1>2, <1>3, <1>4, <1>5 DEF ActsAsSelf
<1>7. /\ sessions' \subseteq Users /\ online' \in BOOLEAN /\ cookie' \in Users \cup {None}
      /\ remembered' \in Users \cup {None} /\ hold' \subseteq Users /\ deleting' \subseteq Users
      /\ orphans' \subseteq [as: Users, key: Keys] /\ orphans' \ orphans = {}
      /\ exposed \subseteq exposed' /\ exposed' \subseteq Users /\ faults' \in 0..MaxFaults
  BY <1>1, <1>2 DEF StoresTyped
<1>8. /\ conn' \in [Tabs -> SUBSET Users] /\ event' \in [Tabs -> BOOLEAN]
      /\ leaving' \in [Tabs -> Leaving] /\ tab' \in [Tabs -> Tab] /\ form' \in [Tabs -> Form]
      /\ drain' \in [Tabs -> [Users -> Drain]]
  BY <1>1, <1>2 DEF TabsTyped
<1>9. QED
  BY <1>2, <1>3, <1>6, <1>7, <1>8, WorldStep

LEMMA ReloadSound ==
  ASSUME IInv, NEW t \in Tabs, Reload(t)
  PROVE  IInv'
<1> DEFINE V == [res |-> Me, stale |-> FALSE]
           Replays == {v \in Users : drain[t][v].at = "await"}
           Dropped(u) == Abandoned(drain[t][u].post, Head(drain[t][u].items).key)
<1>1. StoresTyped /\ TabsTyped /\ ActsAsSelf
  BY DEF IInv, Shapes
<1>2. /\ verify' = [verify EXCEPT ![t] = V] /\ event' = [event EXCEPT ![t] = FALSE]
      /\ tab' = [tab EXCEPT ![t] = Nobody] /\ conn' = [conn EXCEPT ![t] = {}]
      /\ leaving' = [leaving EXCEPT ![t] = Staying] /\ form' = [form EXCEPT ![t] = NoForm]
      /\ drain' = [drain EXCEPT ![t] = [u \in Users |-> NoDrain]]
      /\ orphans' = orphans \cup Abandoned(form[t].post, form[t].key)
                      \cup UNION {Dropped(u) : u \in Replays}
      /\ UNCHANGED <<sessions, ledger, online, cookie, remembered, hold, queue, deleting,
                     owner, accepted, undone, quiet, discarded, exposed>>
      /\ Mishap("reload")
  BY DEF Reload, AskMe, server, shared, history
<1>3. V \in Verify /\ \A v \in Users : V.res = v => cookie = v
  BY <1>1, MeTyped
<1>4. ASSUME NEW u \in Replays PROVE \A o \in Dropped(u) : o \in [as: Users, key: Keys] /\ InTab(o)
  <2>1. /\ drain[t][u].at = "await" /\ drain[t][u].post \in Posts
        /\ Head(drain[t][u].items).key \in Keys
    BY BeforeReplay
  <2>2. \A o \in Dropped(u) : /\ o \in [as: Users, key: Keys]
                              /\ o.as = drain[t][u].post.as /\ o.key = Head(drain[t][u].items).key
    BY <2>1, AbandonedTyped
  <2>3. QED
    BY <2>1, <2>2 DEF InTab
<1> HIDE DEF V, Dropped, Replays
<1>5. orphans' \subseteq [as: Users, key: Keys] /\ \A o \in orphans' \ orphans : InTab(o)
  <2>1. \A o \in orphans' \ orphans : o \in [as: Users, key: Keys] /\ InTab(o)
    BY <1>2, <1>4, ScreenDropped
  <2>2. QED
    BY <1>1, <2>1 DEF StoresTyped
<1>6. /\ verify' \in [Tabs -> Verify] /\ verify'[t] = V
      /\ \A s \in Tabs : s # t => verify'[s] = verify[s]
  BY <1>1, <1>2, <1>3 DEF TabsTyped
<1>7. /\ tab' \in [Tabs -> Tab] /\ tab'[t].user = None
      /\ \A s \in Tabs : s # t => tab'[s] = tab[s]
  BY <1>1, <1>2, Constants DEF TabsTyped, Nobody
<1>8. /\ form' \in [Tabs -> Form] /\ form'[t] = NoForm
      /\ \A s \in Tabs : s # t => form'[s] = form[s]
  BY <1>1, <1>2, Constants DEF TabsTyped
<1>9. /\ drain' \in [Tabs -> [Users -> Drain]] /\ \A v \in Users : drain'[t][v] = NoDrain
      /\ \A s \in Tabs, v \in Users : s # t => drain'[s][v] = drain[s][v]
  BY <1>1, <1>2, Constants DEF TabsTyped
<1>10. \A v : (Sheltered(v) => Sheltered(v)') /\ (cookie = v => Sheltered(v)')
  BY <1>2 DEF Sheltered
<1>11. /\ \A v \in Users : remembered' = v => Sheltered(v)'
       /\ \A s \in Tabs, v \in Users : tab'[s].user = v => Sheltered(v)'
       /\ \A s \in Tabs, v \in Users : drain'[s][v].at # "off" => Sheltered(v)'
  BY <1>1, <1>2, <1>7, <1>9, <1>10, NoneAssumption, Constants DEF ActsAsSelf
<1>12. \A s \in Tabs, v \in Users : verify'[s].res = v /\ ~verify'[s].stale => Sheltered(v)'
  <2>1. SUFFICES ASSUME NEW s \in Tabs, NEW v \in Users, verify'[s].res = v, ~verify'[s].stale
                 PROVE  Sheltered(v)'
    OBVIOUS
  <2>2. CASE s = t
    BY <1>3, <1>6, <1>10, <2>1, <2>2
  <2>3. CASE s # t
    BY <1>1, <1>6, <1>10, <2>1, <2>3 DEF ActsAsSelf
  <2>4. QED
    BY <2>2, <2>3
<1>13. /\ sessions' \subseteq Users /\ online' \in BOOLEAN /\ cookie' \in Users \cup {None}
       /\ remembered' \in Users \cup {None} /\ hold' \subseteq Users /\ deleting' \subseteq Users
       /\ exposed \subseteq exposed' /\ exposed' \subseteq Users
       /\ ledger \subseteq ledger' /\ ledger' \ ledger = {}
  BY <1>1, <1>2 DEF StoresTyped
<1>14. faults' \in 0..MaxFaults
  BY <1>1, <1>2, MishapTyped
<1>15. /\ conn' \in [Tabs -> SUBSET Users] /\ event' \in [Tabs -> BOOLEAN] /\ leaving' \in [Tabs -> Leaving]
  BY <1>1, <1>2, Constants DEF TabsTyped
<1>16. /\ \A s \in Tabs : form'[s] = NoForm \/ (form'[s] = form[s] /\ tab'[s].user = tab[s].user)
       /\ \A s \in Tabs, v \in Users : drain'[s][v] \in {drain[s][v], NoDrain}
  BY <1>7, <1>8, <1>9
<1>17. UNCHANGED <<queue, owner, accepted, undone, quiet, discarded>>
  BY <1>2
<1>18. QED
  BY <1>5, <1>6, <1>7, <1>8, <1>9, <1>11, <1>12, <1>13, <1>14, <1>15, <1>16, <1>17, WorldStep

(***************************************************************************)
(* The specification.                                                      *)
(***************************************************************************)
LEMMA InitSound == Init => IInv
<1> SUFFICES ASSUME Init PROVE IInv
  OBVIOUS
<1>1. /\ sessions = {} /\ ledger = {} /\ online = TRUE /\ cookie = None /\ remembered = None /\ hold = {}
      /\ DOMAIN queue = {} /\ deleting = {} /\ orphans = {} /\ faults = 0
      /\ owner = [k \in Keys |-> None]
      /\ accepted = {} /\ undone = {} /\ quiet = {} /\ discarded = {} /\ exposed = {}
  BY DEF Init, Without
<1>2. StoresTyped
  BY <1>1, Bounds DEF StoresTyped
<1>3. /\ TabsTyped
      /\ \A t \in Tabs : tab[t] = Nobody /\ verify[t] = NoVerify /\ form[t] = NoForm
      /\ \A t \in Tabs, u \in Users : drain[t][u] = NoDrain
  BY Constants DEF Init, TabsTyped
<1>4. OwnersSound
  <2>1. 0 \in 0..MaxCaptures /\ \A k \in Keys : owner[k] # None <=> k <= 0
    BY <1>1, Bounds DEF Keys
  <2>2. QED
    BY <1>1, <2>1 DEF OwnersSound
<1>5. \A t \in Tabs : FormSound(t) /\ \A u \in Users : DrainSound(t, u)
  BY <1>3, Constants DEF FormSound, DrainSound
<1>6. OkIsRecorded /\ NoCaptureLost /\ QuietIsForgotten
  BY <1>1, <1>3, Constants DEF OkIsRecorded, NoCaptureLost, QuietIsForgotten
<1>7. ActsAsSelf
  BY <1>1, <1>3, Constants, NoneAssumption, AnswersAssumption
     DEF ActsAsSelf, CrossAccountOnlyIfExposed, Nobody, NoVerify
<1>8. QED
  BY <1>2, <1>3, <1>4, <1>5, <1>6, <1>7 DEF IInv, Shapes

LEMMA StutterSound == IInv /\ UNCHANGED vars => IInv'
<1> SUFFICES ASSUME IInv, UNCHANGED vars PROVE IInv'
  OBVIOUS
<1>1. /\ UNCHANGED <<sessions, ledger, online, cookie, remembered, hold, queue, deleting>>
      /\ UNCHANGED <<tab, conn, event, verify, leaving, form, drain, orphans, faults, history>>
  BY DEF vars, server, shared
<1>2. StoresTyped /\ TabsTyped
  BY DEF IInv, Shapes
<1>3. QED
  BY <1>1, <1>2, WeatherStep DEF StoresTyped, TabsTyped

LEMMA StepSound == IInv /\ [Next]_vars => IInv'
<1> SUFFICES ASSUME IInv, [Next]_vars PROVE IInv'
  OBVIOUS
<1>1. ASSUME NEW t \in Tabs, QuickAdd(t) PROVE IInv'
  <2>1. CASE Capture(t)
    BY <2>1, CaptureSound
  <2>2. CASE Submit(t)
    BY <2>2, SubmitSound
  <2>3. CASE Enqueue(t)
    BY <2>3, EnqueueSound
  <2>4. CASE FormOk(t)
    BY <2>4, FormOkSound
  <2>5. CASE FormFailed(t)
    BY <2>5, FormFailedSound
  <2>6. CASE \E k \in Keys : Undo(t, k)
    BY <2>6, UndoSound
  <2>7. QED
    BY <1>1, <2>1, <2>2, <2>3, <2>4, <2>5, <2>6 DEF QuickAdd
<1>2. ASSUME NEW t \in Tabs, Identity(t) PROVE IInv'
  <2>1. CASE HandleEvent(t)
    BY <2>1, HandleEventSound
  <2>2. CASE Reverify(t)
    BY <2>2, ReverifySound
  <2>3. CASE VerifyUser(t)
    BY <2>3, VerifyUserSound
  <2>4. CASE VerifyDenied(t)
    BY <2>4, VerifyDeniedSound
  <2>5. CASE VerifyLost(t)
    BY <2>5, VerifyLostSound
  <2>6. CASE VerifyStale(t)
    BY <2>6, VerifyStaleSound
  <2>7. CASE \E u \in Users : Login(t, u)
    BY <2>7, LoginSound
  <2>8. CASE LogoutPost(t)
    BY <2>8, LogoutPostSound
  <2>9. CASE LogoutPurge(t)
    BY <2>9, LogoutPurgeSound
  <2>10. CASE LogoutLeave(t)
    BY <2>10, LogoutLeaveSound
  <2>11. CASE Reload(t)
    BY <2>11, ReloadSound
  <2>12. QED
    BY <1>2, <2>1, <2>2, <2>3, <2>4, <2>5, <2>6, <2>7, <2>8, <2>9, <2>10, <2>11 DEF Identity
<1>3. ASSUME NEW t \in Tabs, NEW u \in Users, Replay(t, u) PROVE IInv'
  BY <1>3, LoadQueueSound, EndDrainSound, SkipPoisonSound, SendDrainSound, DrainOkSound,
     DrainDeniedSound, DrainRejectedSound, DrainLostSound DEF Replay
<1>4. ASSUME NEW t \in Tabs, ServeForm(t) PROVE IInv'
  BY <1>4, ServeFormSound
<1>5. ASSUME NEW t \in Tabs, NEW u \in Users, ServeDrain(t, u) PROVE IInv'
  BY <1>5, ServeDrainSound
<1>6. CASE ServeOrphan \/ GoOnline \/ GoOffline
  BY <1>6, ServeOrphanSound, GoOnlineSound, GoOfflineSound
<1>7. CASE \E u \in Users : Expire(u) \/ DeleteQueue(u)
  BY <1>7, ExpireSound, DeleteQueueSound
<1>8. CASE UNCHANGED vars
  BY <1>8, StutterSound
<1>9. QED
  BY <1>1, <1>2, <1>3, <1>4, <1>5, <1>6, <1>7, <1>8 DEF Next

LEMMA Invariance == Spec => []IInv
<1>1. QED
  BY InitSound, StepSound, PTL DEF Spec

\* Every variable keeps its type, for any number of tabs and users: a queued
\* row never carries more attempts than the poison cap (offline-queue.ts
\* MAX_ATTEMPTS), and a request under way has a screen or a replay awaiting it.
THEOREM TypeCorrect == Spec => []TypeOK
BY Invariance, IInvTyped, PTL

\* offline-queue.ts enqueue, drainQueue and bumpAttempts: a capture the user was
\* told is saved or queued is in the queue or in the ledger until the user takes
\* it back or a sign-out deletes the queue, whatever answers are lost or refused
\* and however often tabs reload, sign out or replay the same queue at once.
THEOREM CapturesAreKept == Spec => []NoCaptureLost
<1>1. IInv => NoCaptureLost
  BY DEF IInv
<1>2. QED
  BY <1>1, Invariance, PTL

\* offline-queue.ts removeQueued and purgeQueue: a capture taken back, or deleted
\* with its queue, before any screen, request or replay knew of it is never recorded.
THEOREM TakenBackIsGone == Spec => []TakenBackStaysBack
<1>1. IInv => TakenBackStaysBack
  BY DEF IInv, QuietIsForgotten, Forgotten, TakenBackStaysBack
<1>2. QED
  BY <1>1, Invariance, PTL

\* useAuth.tsx holds, epochs and per-user queues: a capture is recorded under another
\* account only if someone signed in on this device while another tab, an answer
\* in flight to one, or a replay still acted for the capture's owner.
THEOREM AccountsDoNotMix == Spec => []CrossAccountOnlyIfExposed
<1>1. IInv => CrossAccountOnlyIfExposed
  BY DEF IInv, ActsAsSelf
<1>2. QED
  BY <1>1, Invariance, PTL
=============================================================================
