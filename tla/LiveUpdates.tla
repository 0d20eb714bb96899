----------------------------- MODULE LiveUpdates -----------------------------
(***************************************************************************)
(* Live updates: the hub goroutine that alone owns the set of connected    *)
(* streams, one endpoint goroutine per stream, the handlers that publish a *)
(* hint after their commit, and the browser tabs that refetch on a hint.   *)
(*                                                                         *)
(* Hints carry no data and are all alike, so a channel is the number of    *)
(* hints in it, and a tab's cached data is fresh or not.  A tab's stream   *)
(* may outlive the connection: the server notices a dropped one later.     *)
(* Resources, the heartbeat's frames and its interval are left out.        *)
(***************************************************************************)
EXTENDS Integers, FiniteSets

CONSTANTS
  Tabs, Users,
  UserOf,            \* the account each tab is signed in as
  Streams,           \* endpoint goroutines there may be at once
  maxConnsPerUser, clientBufferSize, broadcastSize,
  MaxChanges,        \* bound on the commits
  MaxFaults,         \* bound on dropped connections, failed fetches, closed tabs,
                     \* users re-read and restarts
  None

ASSUME CapacityAssumption ==
  {maxConnsPerUser, clientBufferSize, broadcastSize, MaxChanges, MaxFaults} \subseteq Nat
ASSUME UserOfAssumption == UserOf \in [Tabs -> Users]
ASSUME StreamsAssumption == IsFiniteSet(Streams)
ASSUME NoneAssumption == None \notin Tabs \cup Streams

VARIABLES
  \* the server
  phase,        \* "serving", "cancelled" (cleanupCancel), "closed" (srv.Shutdown)
  hub,          \* "running", or "done" once Run returned
  broadcast,    \* hints in the hub's broadcast channel
  clients,      \* Run's client set
  perUser,      \* Run's connection counts
  at, tabOf,    \* where each endpoint goroutine is, and the tab it serves
  ch, open,     \* its client's channel: hints buffered, and not yet closed
  unpublished,  \* handlers between their commit and their publish
  \* the tabs
  es,           \* the EventSource
  wire,         \* the stream at the other end of its connection
  hadError,
  timer,        \* a debounce timer runs
  fetch,        \* a refetch in flight that read "current" data, or by now "old"
  fresh,        \* the cached data is what the ledger holds
  \* bounds and history
  changes, faults,
  early,        \* tabs a hint passed by before their first stream was registered
  dropped,      \* tabs a hint was dropped for, the broadcast channel being full
  failed,       \* stale tabs whose refetch failed for good
  cut           \* stale tabs that lost what was on its way when their user was re-read

endpoints == <<at, tabOf, ch, open>>
broker == <<hub, clients, perUser>>
tabs == <<es, wire, hadError, timer, fetch, fresh>>
gaps == <<early, dropped, failed, cut>>
vars == <<phase, broker, broadcast, endpoints, unpublished, tabs, changes, faults, gaps>>

Served == {s \in Streams : at[s] # "off"}
Attached(s) == at[s] # "off" /\ wire[tabOf[s]] = s
UserOn(s) == UserOf[tabOf[s]]
StreamsOf(u, S) == {s \in S : UserOn(s) = u}

\* tabs something has passed by that no step of theirs makes up for
Gapped == early \cup dropped \cup failed \cup cut

\* stale tabs that wait for their first stream, whose opening will not sweep
Unseen == {d \in Tabs : es[d] = "connecting" /\ ~hadError[d] /\ ~fresh[d]}

Init ==
  /\ phase = "serving" /\ hub = "running" /\ broadcast = 0
  /\ clients = {} /\ perUser = [u \in Users |-> 0]
  /\ at = [s \in Streams |-> "off"] /\ tabOf = [s \in Streams |-> None]
  /\ ch = [s \in Streams |-> 0] /\ open = [s \in Streams |-> FALSE]
  /\ unpublished = 0
  /\ es = [d \in Tabs |-> "closed"] /\ wire = [d \in Tabs |-> None]
  /\ hadError = [d \in Tabs |-> FALSE] /\ timer = [d \in Tabs |-> FALSE]
  /\ fetch = [d \in Tabs |-> "none"] /\ fresh = [d \in Tabs |-> TRUE]
  /\ changes = 0 /\ faults = 0
  /\ early = {} /\ dropped = {} /\ failed = {} /\ cut = {}

(***************************************************************************)
(* The hub's loop: one case of its select per action.                      *)
(***************************************************************************)
\* the streams of S leave the client set, each counted off its user
Disconnect(S) ==
  /\ clients' = clients \ S
  /\ perUser' = [u \in Users |-> perUser[u] - Cardinality(StreamsOf(u, S))]

HubRegister(s) ==
  /\ hub = "running" /\ at[s] = "register"
  /\ perUser[UserOn(s)] < maxConnsPerUser
  /\ clients' = clients \cup {s}
  /\ perUser' = [perUser EXCEPT ![UserOn(s)] = @ + 1]
  /\ at' = [at EXCEPT ![s] = "greet"]
  /\ UNCHANGED <<phase, hub, broadcast, tabOf, ch, open, unpublished, tabs, changes, faults, gaps>>

\* the endpoint goroutine ends, its client with it
Return(s) ==
  /\ at' = [at EXCEPT ![s] = "off"]
  /\ tabOf' = [tabOf EXCEPT ![s] = None]
  /\ ch' = [ch EXCEPT ![s] = 0]
  /\ open' = [open EXCEPT ![s] = FALSE]

\* the connection is over for the tab at the other end, if it is still there
Hangup(s, state) ==
  LET d == tabOf[s] IN
  IF Attached(s)
  THEN /\ es' = [es EXCEPT ![d] = state]
       /\ wire' = [wire EXCEPT ![d] = None]
       /\ hadError' = [hadError EXCEPT ![d] = TRUE]
  ELSE UNCHANGED <<es, wire, hadError>>

\* past the cap, or Run is gone: 503, on which an EventSource gives up for good
Refuse(s) ==
  /\ at[s] = "register"
  /\ hub = "done" \/ perUser[UserOn(s)] >= maxConnsPerUser
  /\ Return(s)
  /\ Hangup(s, "failed")
  /\ UNCHANGED <<phase, broker, broadcast, unpublished, timer, fetch, fresh, changes, faults, gaps>>

\* mutant: a slow consumer's channel is closed, but it stays in the client set
HubBroadcastKeepsSlow ==
  LET slow == {s \in clients : ch[s] >= clientBufferSize} IN
  /\ hub = "running" /\ broadcast > 0
  /\ broadcast' = broadcast - 1
  /\ ch' = [s \in Streams |-> IF s \in clients \ slow THEN ch[s] + 1 ELSE ch[s]]
  /\ open' = [s \in Streams |-> open[s] /\ s \notin slow]
  /\ UNCHANGED <<clients, perUser>>
  /\ early' = early \cup {d \in Unseen : wire[d] \notin clients}
  /\ UNCHANGED <<phase, hub, at, tabOf, unpublished, tabs, changes, faults, dropped, failed, cut>>

\* mutant: dropping a slow consumer forgets its connection count
HubBroadcastUncounted ==
  LET slow == {s \in clients : ch[s] >= clientBufferSize} IN
  /\ hub = "running" /\ broadcast > 0
  /\ broadcast' = broadcast - 1
  /\ ch' = [s \in Streams |-> IF s \in clients \ slow THEN ch[s] + 1 ELSE ch[s]]
  /\ clients' = clients \ slow
  /\ open' = [s \in Streams |-> open[s] /\ s \notin slow]
  /\ UNCHANGED perUser
  /\ early' = early \cup {d \in Unseen : wire[d] \notin clients}
  /\ UNCHANGED <<phase, hub, at, tabOf, unpublished, tabs, changes, faults, dropped, failed, cut>>

\* a client whose buffer is full is dropped and its channel closed
HubBroadcast ==
  LET slow == {s \in clients : ch[s] >= clientBufferSize} IN
  /\ hub = "running" /\ broadcast > 0
  /\ broadcast' = broadcast - 1
  /\ ch' = [s \in Streams |-> IF s \in clients \ slow THEN ch[s] + 1 ELSE ch[s]]
  /\ Disconnect(slow)
  /\ open' = [s \in Streams |-> open[s] /\ s \notin slow]
  /\ early' = early \cup {d \in Unseen : wire[d] \notin clients}
  /\ UNCHANGED <<phase, hub, at, tabOf, unpublished, tabs, changes, faults, dropped, failed, cut>>

HubExit ==
  /\ hub = "running" /\ phase # "serving"
  /\ hub' = "done"
  /\ clients' = {}
  /\ perUser' = [u \in Users |-> 0]
  /\ open' = [s \in Streams |-> open[s] /\ s \notin clients]
  /\ UNCHANGED <<phase, broadcast, at, tabOf, ch, unpublished, tabs, changes, faults, gaps>>

(***************************************************************************)
(* handleEvents, from registering to its deferred Unregister.              *)
(***************************************************************************)
\* invalidateQueries: a refetch, replacing one in flight
Refetch(d) == fetch' = [fetch EXCEPT ![d] = "current"]

\* mutant: a reconnect is taken for a first connect
GreetNoSweep(s) ==
  LET d == tabOf[s] IN
  /\ at[s] = "greet"
  /\ at' = [at EXCEPT ![s] = "loop"]
  /\ IF Attached(s)
     THEN es' = [es EXCEPT ![d] = "open"] /\ hadError' = [hadError EXCEPT ![d] = FALSE]
     ELSE UNCHANGED <<es, hadError>>
  /\ UNCHANGED <<phase, broker, broadcast, tabOf, ch, open, unpublished, wire, timer, fetch, fresh,
                 changes, faults, gaps>>

\* the first bytes reach the tab: onopen, which sweeps only after an error
Greet(s) ==
  LET d == tabOf[s] IN
  /\ at[s] = "greet"
  /\ at' = [at EXCEPT ![s] = "loop"]
  /\ IF Attached(s)
     THEN /\ es' = [es EXCEPT ![d] = "open"]
          /\ hadError' = [hadError EXCEPT ![d] = FALSE]
          /\ IF hadError[d] THEN Refetch(d) ELSE UNCHANGED fetch
     ELSE UNCHANGED <<es, hadError, fetch>>
  /\ UNCHANGED <<phase, broker, broadcast, tabOf, ch, open, unpublished, wire, timer, fresh,
                 changes, faults, gaps>>

\* a hint goes out; the tab's debounce timer is (re)started
Forward(s) ==
  /\ at[s] = "loop" /\ ch[s] > 0
  /\ ch' = [ch EXCEPT ![s] = @ - 1]
  /\ timer' = IF Attached(s) THEN [timer EXCEPT ![tabOf[s]] = TRUE] ELSE timer
  /\ UNCHANGED <<phase, broker, broadcast, at, tabOf, open, unpublished, es, wire, hadError, fetch,
                 fresh, changes, faults, gaps>>

\* the channel is closed and read out, or the request's context is done
Leave(s) ==
  /\ at[s] \in {"greet", "loop"}
  /\ (at[s] = "loop" /\ ~open[s] /\ ch[s] = 0) \/ ~Attached(s)
  /\ at' = [at EXCEPT ![s] = "unregister"]
  /\ UNCHANGED <<phase, broker, broadcast, tabOf, ch, open, unpublished, tabs, changes, faults, gaps>>

\* mutant: a client the hub has dropped before is counted off once more
UnregisterTwice(s) ==
  /\ at[s] = "unregister"
  /\ IF hub = "running" THEN Disconnect({s}) ELSE UNCHANGED <<clients, perUser>>
  /\ Return(s)
  /\ Hangup(s, "connecting")
  /\ UNCHANGED <<phase, hub, broadcast, unpublished, timer, fetch, fresh, changes, faults, gaps>>

\* mutant: Unregister waits for the loop only
UnregisterNoEscape(s) ==
  /\ at[s] = "unregister" /\ hub = "running"
  /\ Disconnect(clients \cap {s})
  /\ Return(s)
  /\ Hangup(s, "connecting")
  /\ UNCHANGED <<phase, hub, broadcast, unpublished, timer, fetch, fresh, changes, faults, gaps>>

\* taken by the loop, or let go by `done`; then the response ends
Unregister(s) ==
  /\ at[s] = "unregister"
  /\ IF hub = "running" THEN Disconnect(clients \cap {s}) ELSE UNCHANGED <<clients, perUser>>
  /\ Return(s)
  /\ Hangup(s, "connecting")
  /\ UNCHANGED <<phase, hub, broadcast, unpublished, timer, fetch, fresh, changes, faults, gaps>>

(***************************************************************************)
(* Handlers commit, then publish: non-blocking, dropped when full.         *)
(***************************************************************************)
Commit ==
  /\ phase # "closed" /\ changes < MaxChanges
  /\ changes' = changes + 1
  /\ unpublished' = unpublished + 1
  /\ fresh' = [d \in Tabs |-> es[d] = "closed"]
  /\ fetch' = [d \in Tabs |-> IF fetch[d] = "current" THEN "old" ELSE fetch[d]]
  /\ UNCHANGED <<phase, broker, broadcast, endpoints, es, wire, hadError, timer, faults, gaps>>

Publish ==
  /\ unpublished > 0
  /\ unpublished' = unpublished - 1
  /\ \/ /\ broadcast < broadcastSize
        /\ broadcast' = broadcast + 1
        /\ UNCHANGED dropped
     \/ /\ broadcast = broadcastSize
        /\ dropped' = dropped \cup {d \in Tabs : ~fresh[d]}
        /\ UNCHANGED broadcast
  /\ UNCHANGED <<phase, broker, endpoints, tabs, changes, faults, early, failed, cut>>

(***************************************************************************)
(* useLiveUpdates, in a tab.                                               *)
(***************************************************************************)
\* the page mounts: its queries fetch while the stream is being set up
OpenTab(d) ==
  /\ es[d] = "closed"
  /\ es' = [es EXCEPT ![d] = "connecting"]
  /\ fresh' = [fresh EXCEPT ![d] = FALSE]
  /\ Refetch(d)
  /\ UNCHANGED <<phase, broker, broadcast, endpoints, unpublished, wire, hadError, timer,
                 changes, faults, gaps>>

Connect(d) ==
  /\ es[d] = "connecting" /\ wire[d] = None /\ phase # "closed"
  /\ Served # Streams
  /\ LET s == CHOOSE r \in Streams : at[r] = "off" IN
       /\ at' = [at EXCEPT ![s] = "register"]
       /\ tabOf' = [tabOf EXCEPT ![s] = d]
       /\ open' = [open EXCEPT ![s] = TRUE]
       /\ wire' = [wire EXCEPT ![d] = s]
  /\ UNCHANGED <<phase, broker, broadcast, ch, unpublished, es, hadError, timer, fetch, fresh,
                 changes, faults, gaps>>

\* onerror: the connection, or the attempt at one, fails; the browser retries
DropConnection(d) ==
  /\ es[d] \in {"connecting", "open"} /\ faults < MaxFaults
  /\ faults' = faults + 1
  /\ es' = [es EXCEPT ![d] = "connecting"]
  /\ wire' = [wire EXCEPT ![d] = None]
  /\ hadError' = [hadError EXCEPT ![d] = TRUE]
  /\ UNCHANGED <<phase, broker, broadcast, endpoints, unpublished, timer, fetch, fresh, changes, gaps>>

Debounced(d) ==
  /\ timer[d]
  /\ timer' = [timer EXCEPT ![d] = FALSE]
  /\ Refetch(d)
  /\ UNCHANGED <<phase, broker, broadcast, endpoints, unpublished, es, wire, hadError, fresh,
                 changes, faults, gaps>>

\* visibilitychange, sweeping everything
BecomeVisible(d) ==
  /\ es[d] # "closed"
  /\ Refetch(d)
  /\ UNCHANGED <<phase, broker, broadcast, endpoints, unpublished, es, wire, hadError, timer, fresh,
                 changes, faults, gaps>>

\* what tab d had missed it has now
Caught(d) ==
  /\ early' = early \ {d} /\ dropped' = dropped \ {d}
  /\ failed' = failed \ {d} /\ cut' = cut \ {d}

Fetched(d) ==
  /\ fetch[d] # "none"
  /\ fresh' = [fresh EXCEPT ![d] = (fetch[d] = "current")]
  /\ fetch' = [fetch EXCEPT ![d] = "none"]
  /\ IF fetch[d] = "current" THEN Caught(d) ELSE UNCHANGED gaps
  /\ UNCHANGED <<phase, broker, broadcast, endpoints, unpublished, es, wire, hadError, timer,
                 changes, faults>>

\* the request and its one retry fail: the page keeps the data it has
FetchFails(d) ==
  /\ fetch[d] # "none" /\ faults < MaxFaults
  /\ faults' = faults + 1
  /\ fetch' = [fetch EXCEPT ![d] = "none"]
  /\ failed' = failed \cup {c \in {d} : fetch[d] = "current" /\ ~fresh[d]}
  /\ UNCHANGED <<phase, broker, broadcast, endpoints, unpublished, es, wire, hadError, timer, fresh,
                 changes, early, dropped, cut>>

\* useAuth writes `user` anew (a profile saved, a session verified again): the
\* effect is torn down, its stream and its debounce with it, and runs again.  Its
\* connection counts as a first one, and nothing is fetched.
RefreshUser(d) ==
  /\ es[d] # "closed" /\ faults < MaxFaults
  /\ faults' = faults + 1
  /\ es' = [es EXCEPT ![d] = "connecting"]
  /\ wire' = [wire EXCEPT ![d] = None]
  /\ hadError' = [hadError EXCEPT ![d] = FALSE]
  /\ timer' = [timer EXCEPT ![d] = FALSE]
  /\ cut' = cut \cup {c \in {d} : ~fresh[d] /\ fetch[d] # "current"
                                  /\ unpublished = 0 /\ broadcast = 0}
  /\ UNCHANGED <<phase, broker, broadcast, endpoints, unpublished, fetch, fresh, changes,
                 early, dropped, failed>>

\* the tab is closed, or its user signs out
CloseTab(d) ==
  /\ es[d] # "closed" /\ faults < MaxFaults
  /\ faults' = faults + 1
  /\ es' = [es EXCEPT ![d] = "closed"]
  /\ wire' = [wire EXCEPT ![d] = None]
  /\ hadError' = [hadError EXCEPT ![d] = FALSE]
  /\ timer' = [timer EXCEPT ![d] = FALSE]
  /\ fetch' = [fetch EXCEPT ![d] = "none"]
  /\ fresh' = [fresh EXCEPT ![d] = TRUE]
  /\ Caught(d)
  /\ UNCHANGED <<phase, broker, broadcast, endpoints, unpublished, changes>>

(***************************************************************************)
(* main: cleanupCancel, srv.Shutdown, and a process that waits for the     *)
(* endpoints before it ends.                                               *)
(***************************************************************************)
Cancel ==
  /\ phase = "serving" /\ faults < MaxFaults
  /\ phase' = "cancelled"
  /\ faults' = faults + 1
  /\ UNCHANGED <<broker, broadcast, endpoints, unpublished, tabs, changes, gaps>>

Shutdown ==
  /\ phase = "cancelled"
  /\ phase' = "closed"
  /\ UNCHANGED <<broker, broadcast, endpoints, unpublished, tabs, changes, faults, gaps>>

Restart ==
  /\ phase = "closed" /\ hub = "done" /\ Served = {} /\ unpublished = 0
  /\ phase' = "serving" /\ hub' = "running" /\ broadcast' = 0
  /\ early' = early \cup Unseen
  /\ UNCHANGED <<clients, perUser, endpoints, unpublished, tabs, changes, faults, dropped, failed, cut>>

Hub == HubBroadcast \/ HubExit \/ \E s \in Streams : HubRegister(s)
Endpoint(s) == Refuse(s) \/ Greet(s) \/ Forward(s) \/ Leave(s) \/ Unregister(s)
Browser(d) == Connect(d) \/ Debounced(d) \/ Fetched(d)
User(d) ==
  \/ OpenTab(d) \/ CloseTab(d) \/ BecomeVisible(d) \/ RefreshUser(d)
  \/ DropConnection(d) \/ FetchFails(d)

Next ==
  \/ Hub \/ Commit \/ Publish \/ Cancel \/ Shutdown \/ Restart
  \/ \E s \in Streams : Endpoint(s)
  \/ \E d \in Tabs : Browser(d) \/ User(d)

Spec == Init /\ [][Next]_vars

\* every goroutine, timer and request in flight runs on; nothing obliges a user
\* to act, a handler to commit, a request to fail or a process to be restarted
Fairness ==
  /\ WF_vars(HubBroadcast) /\ WF_vars(HubExit) /\ WF_vars(Publish) /\ WF_vars(Shutdown)
  /\ \A s \in Streams : WF_vars(HubRegister(s)) /\ WF_vars(Endpoint(s))
  /\ \A d \in Tabs : WF_vars(Browser(d))

FairSpec == Spec /\ Fairness

(***************************************************************************)
(* Correctness.                                                            *)
(***************************************************************************)
\* Every variable has its type; no channel holds more than its buffer.
TypeOK ==
  /\ phase \in {"serving", "cancelled", "closed"} /\ hub \in {"running", "done"}
  /\ broadcast \in 0..broadcastSize
  /\ clients \subseteq Streams /\ perUser \in [Users -> Nat]
  /\ at \in [Streams -> {"off", "register", "greet", "loop", "unregister"}]
  /\ tabOf \in [Streams -> Tabs \cup {None}] /\ \A s \in Served : tabOf[s] # None
  /\ ch \in [Streams -> 0..clientBufferSize] /\ open \in [Streams -> BOOLEAN]
  /\ unpublished \in 0..MaxChanges
  /\ es \in [Tabs -> {"closed", "connecting", "open", "failed"}]
  /\ wire \in [Tabs -> Streams \cup {None}]
  /\ hadError \in [Tabs -> BOOLEAN] /\ timer \in [Tabs -> BOOLEAN]
  /\ fetch \in [Tabs -> {"none", "current", "old"}] /\ fresh \in [Tabs -> BOOLEAN]
  /\ changes \in 0..MaxChanges /\ faults \in 0..MaxFaults
  /\ Gapped \subseteq Tabs

\* hub.go Run: the cap counts exactly the streams a user has in the client set,
\* whichever of the three ways they left it by, and is never exceeded.
ConnectionsCounted ==
  \A u \in Users : perUser[u] = Cardinality(StreamsOf(u, clients)) /\ perUser[u] <= maxConnsPerUser

\* A registered stream's channel is open, so neither a send nor a second close
\* can panic the hub; and a stream that left the set had its channel closed, so
\* its endpoint is told.
ClosedOnceOnLeaving ==
  \A s \in Served : at[s] # "register" => (s \in clients <=> open[s])

\* nothing is on its way to tab d
Settled(d) ==
  /\ es[d] = "open" /\ wire[d] \in clients /\ ch[wire[d]] = 0
  /\ ~timer[d] /\ fetch[d] = "none"
  /\ unpublished = 0 /\ broadcast = 0

\* useLiveUpdates: a tab that is connected, and to which nothing is on its way,
\* shows what the ledger holds -- but for a hint the full broadcast channel
\* dropped, one that passed before a first connect was registered, a refetch
\* that failed twice, or an effect run anew while a hint was on its way.
FreshUnlessGap == \A d \in Tabs : Settled(d) => fresh[d] \/ d \in Gapped

\* "The very first connect is skipped (initial mounts already fetched)": nothing
\* but a full broadcast channel or a failed refetch leaves a settled tab stale.
FirstConnectNeedsNoSweep == \A d \in Tabs : Settled(d) => fresh[d] \/ d \in dropped \cup failed

\* Unregister's escape hatch: once main shuts the server down every endpoint
\* goroutine returns, so srv.Shutdown never waits for the grace period.
ShutdownReleases == phase = "closed" ~> Served = {}

\* "to reconnect and re-sync on its own": a stale tab -- a slow consumer the hub
\* dropped, a connection lost, a hint on its way -- catches up, unless it fell in
\* a gap, a refused stream was given up, or the server goes down first.  (A stream
\* answered 503 at the cap is given up, by the EventSource standard; the comment
\* at events_handlers.go:50 has it that the EventSource will retry.)
CatchesUp ==
  \A d \in Tabs :
    (es[d] # "closed" /\ ~fresh[d])
      ~> (fresh[d] \/ d \in Gapped \/ es[d] \in {"closed", "failed"} \/ phase # "serving")
=============================================================================
