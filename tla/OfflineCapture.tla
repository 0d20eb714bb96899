--------------------------- MODULE OfflineCapture ---------------------------
(***************************************************************************)
(* Capturing expenses on one device: browser tabs that share a cookie jar, *)
(* localStorage and one IndexedDB queue per user, and talk to the server   *)
(* over a network that may drop a request, or its answer, or deliver it    *)
(* after the client gave up.                                               *)
(*                                                                         *)
(* A capture is its client_key; keys are numbered in the order captures    *)
(* are made, which is the order a drain replays them in.  The server is    *)
(* what the Ledger module shows it to be: it records a (user, key) once    *)
(* and answers every retry of it with success.                             *)
(***************************************************************************)
EXTENDS Naturals, Sequences, FiniteSets

CONSTANTS
  Tabs, Users,
  MaxCaptures,   \* bound on the captures made
  MaxAttempts,   \* MAX_ATTEMPTS, the poison cap
  MaxFaults,     \* bound on the mishaps of one behaviour
  Kinds,         \* the mishaps that may happen in this instance
  None

ASSUME BoundsAssumption == {MaxCaptures, MaxAttempts, MaxFaults} \subseteq Nat
ASSUME NoneAssumption == None \notin Users
\* the answers to GET auth/me that name no user
ASSUME AnswersAssumption == Users \cap {"none", "lost", "denied"} = {}

VARIABLES
  \* the server
  sessions,    \* users whose session on this device the server still honours
  ledger,      \* rows recorded: <<user, key>>
  \* shared by the tabs
  online,      \* navigator.onLine
  cookie,      \* whose session cookie the browser presents
  remembered,  \* the last confirmed user, in localStorage
  hold,        \* users whose queue is held for sign-in, in localStorage
  queue,       \* queued captures: key -> attempts
  deleting,    \* queues whose deletion waits for connections to close
  \* per tab
  tab,         \* the user shown, and whether only remembered (unverified)
  conn,        \* the queues the tab holds a connection to
  event,       \* an 'online' or sign-in event the tab has not handled yet
  verify,      \* answer to GET auth/me not yet applied
  leaving,     \* how far a logout has got
  form,        \* the capture being submitted
  drain,       \* the replay in progress, per user
  orphans,     \* requests still travelling after their client gave up
  faults,      \* mishaps so far
  \* history
  owner,       \* who made each capture
  accepted,    \* captures the user was told are saved or queued
  undone,      \* queued captures taken back, and
  quiet,       \*   those of them no request or replay knew of at that time
  discarded,   \* captures deleted with a queue
  exposed      \* users of whom a tab knew when another one signed in

server == <<sessions, ledger>>
shared == <<online, cookie, remembered, hold, queue, deleting>>
history == <<owner, accepted, undone, quiet, discarded, exposed>>
vars == <<server, shared, tab, conn, event, verify, leaving, form, drain, orphans, faults, history>>

Keys == 1..MaxCaptures
Entry == [key: Keys, attempts: 0..MaxAttempts]
Results == {"flight", "ok", "denied", "rejected"}
NoPost == [as |-> None, res |-> "none"]
Posts == [as: Users \cup {None}, res: Results] \cup {NoPost}
NoDrain == [at |-> "off", items |-> <<>>, post |-> NoPost, rerun |-> FALSE]
NoForm == [at |-> "off", key |-> 0, post |-> NoPost]
NoVerify == [res |-> "none", stale |-> FALSE]
Staying == [at |-> "no", uid |-> None]
Nobody == [user |-> None, unverified |-> FALSE]

NextKey == Cardinality({k \in Keys : owner[k] # None}) + 1
\* mutant: one queue for the device instead of one per user
QueuedAnyone(u) == DOMAIN queue

Queued(u) == {k \in DOMAIN queue : owner[k] = u}
Recorded(k) == \E u \in Users : <<u, k>> \in ledger

\* openDB: a cached connection, or a new one unless a deletion is pending
CanOpen(t, u) == u \in conn[t] \/ u \notin deleting
Open(t, u) == conn' = [conn EXCEPT ![t] = @ \cup {u}]

Without(f, ks) == [k \in DOMAIN f \ ks |-> f[k]]
With(f, k, n) == [j \in DOMAIN f \cup {k} |-> IF j = k THEN n ELSE f[j]]

\* the two hints localStorage keeps: whose captures wait for a sign-in, and
\* who was confirmed here last
Held(v) == IF v = None THEN hold ELSE hold \cup {v}
Remember(u) == remembered' = u

Mishap(kind) == kind \in Kinds /\ faults < MaxFaults /\ faults' = faults + 1

Init ==
  /\ sessions = {} /\ ledger = {}
  /\ online = TRUE /\ cookie = None /\ remembered = None /\ hold = {}
  /\ queue = Without([k \in Keys |-> 0], Keys) /\ deleting = {}
  /\ tab = [t \in Tabs |-> Nobody]
  /\ conn = [t \in Tabs |-> {}]
  /\ event = [t \in Tabs |-> FALSE]
  /\ verify = [t \in Tabs |-> NoVerify]
  /\ leaving = [t \in Tabs |-> Staying]
  /\ form = [t \in Tabs |-> NoForm]
  /\ drain = [t \in Tabs |-> [u \in Users |-> NoDrain]]
  /\ orphans = {} /\ faults = 0
  /\ owner = [k \in Keys |-> None]
  /\ accepted = {} /\ undone = {} /\ quiet = {} /\ discarded = {} /\ exposed = {}

(***************************************************************************)
(* The server, seen from one request: no session, 401; otherwise the       *)
(* capture is recorded, or refused with another status (or a 5xx).         *)
(***************************************************************************)
Serve(as, k, res) ==
  \/ as \notin sessions /\ res = "denied" /\ UNCHANGED <<ledger, faults>>
  \/ as \in sessions /\ res = "ok" /\ ledger' = ledger \cup {<<as, k>>} /\ UNCHANGED faults
  \/ as \in sessions /\ res = "rejected" /\ Mishap("reject") /\ UNCHANGED ledger

ServeDrain(t, u) ==
  /\ drain[t][u].post.res = "flight"
  /\ \E res \in Results :
       /\ Serve(drain[t][u].post.as, Head(drain[t][u].items).key, res)
       /\ drain' = [drain EXCEPT ![t][u].post.res = res]
  /\ UNCHANGED <<sessions, shared, tab, conn, event, verify, leaving, form, orphans, history>>

ServeForm(t) ==
  /\ form[t].post.res = "flight"
  /\ \E res \in Results :
       /\ Serve(form[t].post.as, form[t].key, res)
       /\ form' = [form EXCEPT ![t].post.res = res]
  /\ UNCHANGED <<sessions, shared, tab, conn, event, verify, leaving, drain, orphans, history>>

\* a request the client timed out on may still arrive, or never
ServeOrphan ==
  /\ \E o \in orphans :
       /\ (\E res \in Results : Serve(o.as, o.key, res)) \/ UNCHANGED <<ledger, faults>>
       /\ orphans' = orphans \ {o}
  /\ UNCHANGED <<sessions, shared, tab, conn, event, verify, leaving, form, drain, history>>

\* (one that can change nothing any more is not kept)
Abandoned(post, k) ==
  IF post.res = "flight" /\ post.as # None /\ <<post.as, k>> \notin ledger
  THEN {[as |-> post.as, key |-> k]} ELSE {}

(***************************************************************************)
(* drainQueue.                                                             *)
(***************************************************************************)
\* the guards at its top, read once per run
Drained(t, u) ==
  IF ~online \/ u \in hold THEN drain[t][u]
  ELSE IF drain[t][u].at # "off" THEN [drain[t][u] EXCEPT !.rerun = TRUE]
  ELSE [NoDrain EXCEPT !.at = "load"]

\* getAllQueued: the loop runs over this copy, attempts included
LoadQueue(t, u) ==
  /\ drain[t][u].at = "load" /\ CanOpen(t, u) /\ Open(t, u)
  /\ \E items \in [1..Cardinality(Queued(u)) -> Entry] :
       /\ {items[i].key : i \in DOMAIN items} = Queued(u)
       /\ \A i \in DOMAIN items : items[i].attempts = queue[items[i].key]
       /\ \A i, j \in DOMAIN items : i < j => items[i].key < items[j].key
       /\ drain' = [drain EXCEPT ![t][u].at = "loop", ![t][u].items = items]
  /\ UNCHANGED <<server, shared, tab, event, verify, leaving, form, orphans, history, faults>>

\* finally: and once more if another trigger came meanwhile
Finished(t, u) ==
  IF drain[t][u].rerun /\ online /\ u \notin hold THEN [NoDrain EXCEPT !.at = "load"] ELSE NoDrain

EndDrain(t, u) ==
  /\ drain[t][u].at = "loop" /\ (drain[t][u].items = <<>> \/ ~online)
  /\ drain' = [drain EXCEPT ![t][u] = Finished(t, u)]
  /\ UNCHANGED <<server, shared, tab, conn, event, verify, leaving, form, orphans, history, faults>>

\* a row that failed MAX_ATTEMPTS times stays queued and is skipped
SkipPoison(t, u) ==
  LET d == drain[t][u] IN
  /\ d.at = "loop" /\ online /\ d.items # <<>> /\ Head(d.items).attempts >= MaxAttempts
  /\ drain' = [drain EXCEPT ![t][u].items = Tail(@)]
  /\ UNCHANGED <<server, shared, tab, conn, event, verify, leaving, form, orphans, history, faults>>

\* mutant: a poisoned row is sent again
SendDrainPoisoned(t, u) ==
  LET d == drain[t][u] IN
  /\ d.at = "loop" /\ online /\ d.items # <<>>
  /\ drain' = [drain EXCEPT ![t][u].at = "await", ![t][u].post = [as |-> cookie, res |-> "flight"]]
  /\ UNCHANGED <<server, shared, tab, conn, event, verify, leaving, form, orphans, history, faults>>

\* the browser attaches whatever cookie it now holds
SendDrain(t, u) ==
  LET d == drain[t][u] IN
  /\ d.at = "loop" /\ online /\ d.items # <<>> /\ Head(d.items).attempts < MaxAttempts
  /\ drain' = [drain EXCEPT ![t][u].at = "await", ![t][u].post = [as |-> cookie, res |-> "flight"]]
  /\ UNCHANGED <<server, shared, tab, conn, event, verify, leaving, form, orphans, history, faults>>

NextItem(t, u) ==
  [drain EXCEPT ![t][u].at = "loop", ![t][u].items = Tail(@), ![t][u].post = NoPost]

DrainOk(t, u) ==
  /\ drain[t][u].post.res = "ok" /\ CanOpen(t, u) /\ Open(t, u)
  /\ queue' = Without(queue, {Head(drain[t][u].items).key})
  /\ drain' = NextItem(t, u)
  /\ UNCHANGED <<server, online, cookie, remembered, hold, deleting, tab, event, verify, leaving,
                 form, orphans, history, faults>>

DrainDenied(t, u) ==
  /\ drain[t][u].post.res = "denied"
  /\ hold' = Held(u)
  /\ drain' = [drain EXCEPT ![t][u] = NoDrain]
  /\ UNCHANGED <<server, online, cookie, remembered, queue, deleting, tab, conn, event, verify,
                 leaving, form, orphans, history, faults>>

\* mutant: a row that reaches the cap is dropped instead of kept
DrainRejectedDrops(t, u) ==
  LET item == Head(drain[t][u].items) IN
  /\ drain[t][u].post.res = "rejected" /\ CanOpen(t, u) /\ Open(t, u)
  /\ queue' = IF item.attempts + 1 = MaxAttempts THEN Without(queue, {item.key})
              ELSE With(queue, item.key, item.attempts + 1)
  /\ drain' = NextItem(t, u)
  /\ UNCHANGED <<server, online, cookie, remembered, hold, deleting, tab, event, verify, leaving,
                 form, orphans, history, faults>>

\* bumpAttempts puts the loop's own copy back, whether or not it is still queued
DrainRejected(t, u) ==
  LET item == Head(drain[t][u].items) IN
  /\ drain[t][u].post.res = "rejected" /\ CanOpen(t, u) /\ Open(t, u)
  /\ queue' = With(queue, item.key, item.attempts + 1)
  /\ drain' = NextItem(t, u)
  /\ UNCHANGED <<server, online, cookie, remembered, hold, deleting, tab, event, verify, leaving,
                 form, orphans, history, faults>>

\* no answer came: the rest of the queue waits for the next trigger
DrainLost(t, u) ==
  LET d == drain[t][u] IN
  /\ d.at = "await" /\ Mishap("lost")
  /\ orphans' = orphans \cup Abandoned(d.post, Head(d.items).key)
  /\ drain' = [drain EXCEPT ![t][u] = Finished(t, u)]
  /\ UNCHANGED <<server, shared, tab, conn, event, verify, leaving, form, history>>

(***************************************************************************)
(* Quick add: one key per submit; offline it is queued, online it is       *)
(* posted, and a failed post leaves the form open for a retry of the same  *)
(* payload, by either path.                                                *)
(***************************************************************************)
Capture(t) ==
  /\ tab[t].user # None /\ leaving[t] = Staying /\ form[t].at = "off" /\ NextKey \in Keys
  /\ owner' = [owner EXCEPT ![NextKey] = tab[t].user]
  /\ form' = [form EXCEPT ![t] = [NoForm EXCEPT !.at = "open", !.key = NextKey]]
  /\ UNCHANGED <<server, shared, tab, conn, event, verify, leaving, drain, orphans,
                 accepted, undone, quiet, discarded, exposed, faults>>

Submit(t) ==
  /\ form[t].at = "open"
  /\ form' = [form EXCEPT ![t].at = IF online THEN "post" ELSE "enqueue",
                          ![t].post = IF online THEN [as |-> cookie, res |-> "flight"] ELSE NoPost]
  /\ UNCHANGED <<server, shared, tab, conn, event, verify, leaving, drain, orphans, history, faults>>

Enqueue(t) ==
  LET k == form[t].key IN
  /\ form[t].at = "enqueue" /\ CanOpen(t, owner[k]) /\ Open(t, owner[k])
  /\ queue' = With(queue, k, 0)
  /\ accepted' = accepted \cup {k}
  /\ form' = [form EXCEPT ![t] = NoForm]
  /\ UNCHANGED <<server, online, cookie, remembered, hold, deleting, tab, event, verify, leaving,
                 drain, orphans, owner, undone, quiet, discarded, exposed, faults>>

FormOk(t) ==
  /\ form[t].post.res = "ok"
  /\ accepted' = accepted \cup {form[t].key}
  /\ form' = [form EXCEPT ![t] = NoForm]
  /\ UNCHANGED <<server, shared, tab, conn, event, verify, leaving, drain, orphans,
                 owner, undone, quiet, discarded, exposed, faults>>

\* refused, or unanswered: the screen keeps the payload
FormFailed(t) ==
  /\ form[t].at = "post"
  /\ IF form[t].post.res \in {"denied", "rejected"} THEN UNCHANGED faults ELSE Mishap("lost")
  /\ orphans' = orphans \cup Abandoned(form[t].post, form[t].key)
  /\ form' = [form EXCEPT ![t].at = "open", ![t].post = NoPost]
  /\ UNCHANGED <<server, shared, tab, conn, event, verify, leaving, drain, history>>

\* no screen, request or replay's copy on this device holds capture k any more
Unsent(k) ==
  /\ ~Recorded(k)
  /\ \A o \in orphans : o.key # k
  /\ \A s \in Tabs :
       /\ form[s].key # k
       /\ \A i \in DOMAIN drain[s][owner[k]].items : drain[s][owner[k]].items[i].key # k

\* mutant: an undo leaves a queue held for sign-in alone
UndoUnlessHeld(t, k) ==
  /\ Mishap("undo") /\ tab[t].user # None /\ owner[k] = tab[t].user
  /\ k \in DOMAIN queue /\ CanOpen(t, owner[k]) /\ Open(t, owner[k])
  /\ queue' = IF owner[k] \in hold THEN queue ELSE Without(queue, {k})
  /\ undone' = undone \cup {k}
  /\ quiet' = IF Unsent(k) THEN quiet \cup {k} ELSE quiet
  /\ UNCHANGED <<server, online, cookie, remembered, hold, deleting, tab, event, verify, leaving,
                 form, drain, orphans, owner, accepted, discarded, exposed>>

\* undo of a queued capture, until it syncs
Undo(t, k) ==
  /\ Mishap("undo") /\ tab[t].user # None /\ owner[k] = tab[t].user
  /\ k \in DOMAIN queue /\ CanOpen(t, owner[k]) /\ Open(t, owner[k])
  /\ queue' = Without(queue, {k})
  /\ undone' = undone \cup {k}
  /\ quiet' = IF Unsent(k) THEN quiet \cup {k} ELSE quiet
  /\ UNCHANGED <<server, online, cookie, remembered, hold, deleting, tab, event, verify, leaving,
                 form, drain, orphans, owner, accepted, discarded, exposed>>

(***************************************************************************)
(* Triggers: an 'online' event reaches every tab; a tab that confirmed its *)
(* user replays that user's queue, one that only remembers asks who it is. *)
(***************************************************************************)
GoOnline ==
  /\ ~online
  /\ online' = TRUE
  /\ event' = [t \in Tabs |-> tab[t].user # None]
  /\ UNCHANGED <<server, cookie, remembered, hold, queue, deleting, tab, conn, verify, leaving,
                 form, drain, orphans, history, faults>>

GoOffline ==
  /\ Mishap("offline") /\ online
  /\ online' = FALSE
  /\ UNCHANGED <<server, cookie, remembered, hold, queue, deleting, tab, conn, event, verify,
                 leaving, form, drain, orphans, history>>

HandleEvent(t) ==
  LET u == tab[t].user IN
  /\ event[t] /\ u # None /\ ~tab[t].unverified
  /\ event' = [event EXCEPT ![t] = FALSE]
  /\ drain' = [drain EXCEPT ![t][u] = Drained(t, u)]
  /\ UNCHANGED <<server, shared, tab, conn, verify, leaving, form, orphans, history, faults>>

\* what GET auth/me answers now, if anything; the tab applies it later
Me == IF ~online THEN "lost" ELSE IF cookie \in sessions THEN cookie ELSE "denied"
AskMe(t) == verify' = [verify EXCEPT ![t] = [res |-> Me, stale |-> FALSE]]

\* while unverified: on 'online' and whenever the tab becomes visible again
Reverify(t) ==
  /\ tab[t].user # None /\ tab[t].unverified /\ verify[t] = NoVerify
  /\ AskMe(t)
  /\ event' = [event EXCEPT ![t] = FALSE]
  /\ UNCHANGED <<server, shared, tab, conn, leaving, form, drain, orphans, history, faults>>

\* the tab shows u; a screen that belonged to someone else goes with them, and
\* becoming confirmed is what starts a replay
Show(t, u, unverified) ==
  LET now == [user |-> u, unverified |-> unverified] IN
  /\ tab' = [tab EXCEPT ![t] = now]
  /\ event' = [event EXCEPT ![t] = IF tab[t] = now THEN @ ELSE u # None]
  /\ IF tab[t].user = u THEN UNCHANGED <<form, orphans>>
     ELSE /\ form' = [form EXCEPT ![t] = NoForm]
          /\ orphans' = orphans \cup Abandoned(form[t].post, form[t].key)

EndVerify(t) == verify' = [verify EXCEPT ![t] = NoVerify]

\* the server knows the cookie's user; someone else remembered here gets a hold
VerifyUser(t) ==
  LET u == verify[t].res IN
  /\ u \in Users /\ ~verify[t].stale
  /\ hold' = Held(remembered) \ {u}
  /\ Remember(u)
  /\ Show(t, u, FALSE)
  /\ EndVerify(t)
  /\ UNCHANGED <<server, online, cookie, queue, deleting, conn, leaving, drain, history, faults>>

VerifyDenied(t) ==
  /\ verify[t].res = "denied" /\ ~verify[t].stale
  /\ hold' = Held(remembered)
  /\ Remember(None)
  /\ Show(t, None, FALSE)
  /\ EndVerify(t)
  /\ UNCHANGED <<server, online, cookie, queue, deleting, conn, leaving, drain, history, faults>>

\* no answer is not a sign-out: fall back to whoever was confirmed last
VerifyLost(t) ==
  /\ verify[t].res = "lost" /\ ~verify[t].stale
  /\ Show(t, remembered, remembered # None)
  /\ EndVerify(t)
  /\ UNCHANGED <<server, shared, conn, leaving, drain, history, faults>>

\* the tab changed identity since it asked
VerifyStale(t) ==
  /\ verify[t].stale
  /\ EndVerify(t)
  /\ UNCHANGED <<server, shared, tab, conn, event, leaving, form, drain, orphans, history, faults>>

(***************************************************************************)
(* Signing in and out, and sessions the server stops honouring.            *)
(***************************************************************************)
\* sessionEpoch: an auth/me still in flight now answers about a past identity
Retire(t) == verify' = [verify EXCEPT ![t].stale = (verify[t] # NoVerify)]

\* this device may still replay or post for v when t signs in as someone else
StillKnown(t, v) ==
  \E s \in Tabs :
    \/ drain[s][v].at # "off"
    \/ s # t /\ (tab[s].user = v \/ verify[s].res = v)

Login(t, u) ==
  /\ tab[t].user = None /\ online
  /\ sessions' = sessions \cup {u}
  /\ cookie' = u
  /\ Remember(u)
  /\ hold' = hold \ {u}
  /\ Show(t, u, FALSE)
  /\ Retire(t)
  /\ exposed' = exposed \cup {v \in Users \ {u} : StillKnown(t, v)}
  /\ UNCHANGED <<ledger, online, queue, deleting, conn, leaving, drain,
                 owner, accepted, undone, quiet, discarded, faults>>

Expire(u) ==
  /\ Mishap("expire") /\ u \in sessions
  /\ sessions' = sessions \ {u}
  /\ UNCHANGED <<ledger, shared, tab, conn, event, verify, leaving, form, drain, orphans, history>>

\* POST auth/logout, best effort
LogoutPost(t) ==
  /\ Mishap("logout") /\ tab[t].user # None /\ leaving[t] = Staying
  /\ \/ online /\ sessions' = sessions \ {cookie} /\ cookie' = None
     \/ UNCHANGED <<sessions, cookie>>
  /\ leaving' = [leaving EXCEPT ![t] = [at |-> "purge", uid |-> tab[t].user]]
  /\ UNCHANGED <<ledger, online, remembered, hold, queue, deleting, tab, conn, event, verify,
                 form, drain, orphans, history>>

\* purgeQueue closes this tab's connection and asks for the deletion
LogoutPurge(t) ==
  LET u == leaving[t].uid IN
  /\ leaving[t].at = "purge"
  /\ conn' = [conn EXCEPT ![t] = @ \ {u}]
  /\ deleting' = deleting \cup {u}
  /\ leaving' = [leaving EXCEPT ![t].at = "leave"]
  /\ UNCHANGED <<server, online, cookie, remembered, hold, queue, tab, event, verify, form, drain,
                 orphans, history, faults>>

\* done, or blocked by another tab's connection: the sign-out goes on either way
LogoutLeave(t) ==
  LET u == leaving[t].uid IN
  /\ leaving[t].at = "leave"
  /\ u \in deleting => \E s \in Tabs : u \in conn[s]
  /\ hold' = hold \ {u}
  /\ Retire(t)
  /\ Remember(None)
  /\ Show(t, None, FALSE)
  /\ leaving' = [leaving EXCEPT ![t] = Staying]
  /\ UNCHANGED <<server, online, cookie, queue, deleting, conn, drain, history, faults>>

\* the browser carries out a deletion once nobody is connected
DeleteQueue(u) ==
  /\ u \in deleting /\ \A t \in Tabs : u \notin conn[t]
  /\ deleting' = deleting \ {u}
  /\ queue' = Without(queue, Queued(u))
  /\ discarded' = discarded \cup Queued(u)
  /\ quiet' = quiet \cup {k \in Queued(u) : Unsent(k)}
  /\ UNCHANGED <<server, online, cookie, remembered, hold, tab, conn, event, verify, leaving, form,
                 drain, orphans, owner, accepted, undone, exposed, faults>>

\* close or reload: everything the tab held in memory is gone, and it asks anew
Reload(t) ==
  /\ Mishap("reload")
  /\ AskMe(t)
  /\ tab' = [tab EXCEPT ![t] = Nobody]
  /\ conn' = [conn EXCEPT ![t] = {}]
  /\ event' = [event EXCEPT ![t] = FALSE]
  /\ leaving' = [leaving EXCEPT ![t] = Staying]
  /\ orphans' = orphans \cup Abandoned(form[t].post, form[t].key)
                  \cup UNION {Abandoned(drain[t][u].post, Head(drain[t][u].items).key) :
                                u \in {v \in Users : drain[t][v].at = "await"}}
  /\ form' = [form EXCEPT ![t] = NoForm]
  /\ drain' = [drain EXCEPT ![t] = [u \in Users |-> NoDrain]]
  /\ UNCHANGED <<server, shared, history>>

Replay(t, u) ==
  \/ LoadQueue(t, u) \/ EndDrain(t, u) \/ SkipPoison(t, u) \/ SendDrain(t, u)
  \/ DrainOk(t, u) \/ DrainDenied(t, u) \/ DrainRejected(t, u) \/ DrainLost(t, u)

QuickAdd(t) ==
  \/ Capture(t) \/ Submit(t) \/ Enqueue(t) \/ FormOk(t) \/ FormFailed(t)
  \/ \E k \in Keys : Undo(t, k)

Identity(t) ==
  \/ HandleEvent(t) \/ Reverify(t) \/ VerifyUser(t) \/ VerifyDenied(t) \/ VerifyLost(t)
  \/ VerifyStale(t) \/ (\E u \in Users : Login(t, u))
  \/ LogoutPost(t) \/ LogoutPurge(t) \/ LogoutLeave(t) \/ Reload(t)

Next ==
  \/ \E t \in Tabs : QuickAdd(t) \/ Identity(t) \/ ServeForm(t)
  \/ \E t \in Tabs, u \in Users : Replay(t, u) \/ ServeDrain(t, u)
  \/ ServeOrphan \/ GoOnline \/ GoOffline
  \/ \E u \in Users : Expire(u) \/ DeleteQueue(u)

Spec == Init /\ [][Next]_vars

(***************************************************************************)
(* Correctness.                                                            *)
(***************************************************************************)
\* Every variable has its type: in particular a queued row never carries more
\* attempts than the poison cap, and an open request belongs to a screen or replay.
TypeOK ==
  /\ sessions \subseteq Users /\ ledger \subseteq Users \X Keys
  /\ online \in BOOLEAN /\ cookie \in Users \cup {None} /\ remembered \in Users \cup {None}
  /\ hold \subseteq Users /\ deleting \subseteq Users
  /\ DOMAIN queue \subseteq Keys /\ \A k \in DOMAIN queue : queue[k] \in 0..MaxAttempts
  /\ tab \in [Tabs -> [user: Users \cup {None}, unverified: BOOLEAN]]
  /\ conn \in [Tabs -> SUBSET Users] /\ event \in [Tabs -> BOOLEAN]
  /\ \A t \in Tabs :
       /\ verify[t].res \in Users \cup {"none", "lost", "denied"} /\ verify[t].stale \in BOOLEAN
       /\ leaving[t].at \in {"no", "purge", "leave"} /\ leaving[t].uid \in Users \cup {None}
       /\ form[t].at \in {"off", "open", "post", "enqueue"} /\ form[t].post \in Posts
       /\ (form[t].at = "post") = (form[t].post # NoPost)
       /\ (form[t].at = "off") = (form[t].key = 0)
       /\ \A u \in Users :
            /\ drain[t][u].at \in {"off", "load", "loop", "await"} /\ drain[t][u].post \in Posts
            /\ (drain[t][u].at = "await") = (drain[t][u].post # NoPost)
            /\ drain[t][u].items \in Seq(Entry)
  /\ owner \in [Keys -> Users \cup {None}]
  /\ accepted \cup undone \cup quiet \cup discarded \subseteq Keys
  /\ exposed \subseteq Users /\ faults \in 0..MaxFaults

\* offline-queue.ts: a capture the user was told is saved or queued is in the
\* queue or in the ledger, until the user takes it back or a sign-out deletes
\* the queue; lost answers, refusals, holds, reloads and other tabs lose none.
NoCaptureLost ==
  \A k \in accepted : k \in DOMAIN queue \/ Recorded(k) \/ k \in undone \/ k \in discarded

\* useAuth.tsx holds and per-user queues: a capture is recorded under another
\* account only if someone signed in while another tab, or a replay in flight,
\* still acted for its owner.
CrossAccountOnlyIfExposed ==
  \A r \in ledger : r[1] # owner[r[2]] => owner[r[2]] \in exposed

\* A capture taken back, or deleted with its queue, before any request knew of
\* it never reaches the ledger: no later replay, in any tab, brings it back.
TakenBackStaysBack == \A k \in quiet : ~Recorded(k)

\* offline-queue.ts purgeQueue: "a different account on the same device can never
\* replay the leaving user's captures ... the per-user namespace already prevents
\* cross-account replay" -- a queue is only ever replayed as its own user.
NoCrossAccountReplay ==
  \A t \in Tabs, u \in Users : drain[t][u].post.as \in {None, u}
=============================================================================
