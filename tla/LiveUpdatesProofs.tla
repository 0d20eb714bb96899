-------------------------- MODULE LiveUpdatesProofs --------------------------
(***************************************************************************)
(* Proofs about the hub, for any tabs, accounts, streams and capacities:   *)
(* what its counts and channels are worth does not depend on how many      *)
(* streams race, or on which of the ways out each of them takes.           *)
(***************************************************************************)
EXTENDS LiveUpdates, FiniteSetTheorems, TLAPS

\* where a stream stands when the hub may know of it
Known == {"greet", "loop", "unregister"}

\* The inductive strengthening: the hub only knows streams past their
\* registration, a stream still to register has an open channel, and Run leaves
\* nobody registered behind.
Registered ==
  /\ \A s \in clients : at[s] \in Known
  /\ \A s \in Streams : at[s] = "register" => open[s]
  /\ hub = "done" => clients = {}

\* The type of everything but the counts, which is a matter of counting.
Shapes ==
  /\ phase \in {"serving", "cancelled", "closed"} /\ hub \in {"running", "done"}
  /\ broadcast \in 0..broadcastSize
  /\ clients \subseteq Streams
  /\ at \in [Streams -> {"off", "register", "greet", "loop", "unregister"}]
  /\ tabOf \in [Streams -> Tabs \cup {None}] /\ \A s \in Served : tabOf[s] # None
  /\ ch \in [Streams -> 0..clientBufferSize] /\ open \in [Streams -> BOOLEAN]
  /\ unpublished \in Nat /\ changes \in 0..MaxChanges /\ faults \in 0..MaxFaults
  /\ unpublished <= changes
  /\ es \in [Tabs -> {"closed", "connecting", "open", "failed"}]
  /\ wire \in [Tabs -> Streams \cup {None}]
  /\ hadError \in [Tabs -> BOOLEAN] /\ timer \in [Tabs -> BOOLEAN]
  /\ fetch \in [Tabs -> {"none", "current", "old"}] /\ fresh \in [Tabs -> BOOLEAN]
  /\ early \subseteq Tabs /\ dropped \subseteq Tabs /\ failed \subseteq Tabs /\ cut \subseteq Tabs

Counts == perUser \in [Users -> Nat]

IInv == Shapes /\ Counts /\ Registered /\ ConnectionsCounted /\ ClosedOnceOnLeaving

\* The invariant gives every variable its type.
LEMMA IInvTyped == IInv => TypeOK
BY CapacityAssumption DEF IInv, Shapes, Counts, TypeOK, Gapped

(***************************************************************************)
(* Counting.                                                               *)
(***************************************************************************)
\* The streams of one user among finitely many are finitely many.
LEMMA StreamsFinite ==
  ASSUME NEW u, NEW S \in SUBSET Streams
  PROVE  IsFiniteSet(StreamsOf(u, S)) /\ Cardinality(StreamsOf(u, S)) \in Nat
<1>1. IsFiniteSet(S)
  BY StreamsAssumption, FS_Subset
<1>2. StreamsOf(u, S) \in SUBSET S
  BY DEF StreamsOf
<1>3. IsFiniteSet(StreamsOf(u, S))
  BY <1>1, <1>2, FS_Subset
<1>4. QED
  BY <1>3, FS_CardinalityType

\* Counting each departing stream off its user keeps the counts exact.
LEMMA DisconnectCounts ==
  ASSUME IInv, NEW S \in SUBSET clients, Disconnect(S),
         \A s \in clients \ S : tabOf'[s] = tabOf[s]
  PROVE  Counts' /\ ConnectionsCounted'
<1> SUFFICES ASSUME NEW u \in Users
             PROVE  /\ perUser[u] - Cardinality(StreamsOf(u, S)) \in Nat
                    /\ perUser[u] - Cardinality(StreamsOf(u, S)) = Cardinality(StreamsOf(u, clients)')
                    /\ perUser[u] - Cardinality(StreamsOf(u, S)) <= maxConnsPerUser
  BY DEF Disconnect, Counts, ConnectionsCounted
<1>1. S \in SUBSET Streams /\ clients \in SUBSET Streams
  BY DEF IInv, Shapes
<1>2. IsFiniteSet(StreamsOf(u, clients)) /\ Cardinality(StreamsOf(u, clients)) \in Nat
      /\ Cardinality(StreamsOf(u, S)) \in Nat
  BY <1>1, StreamsFinite
<1>3. StreamsOf(u, clients)' = StreamsOf(u, clients) \ StreamsOf(u, S)
  BY DEF StreamsOf, UserOn, Disconnect
<1>4. StreamsOf(u, clients) \cap StreamsOf(u, S) = StreamsOf(u, S)
  BY DEF StreamsOf
<1>5. Cardinality(StreamsOf(u, clients)')
        = Cardinality(StreamsOf(u, clients)) - Cardinality(StreamsOf(u, S))
  BY <1>2, <1>3, <1>4, FS_Difference
<1>6. IsFiniteSet(StreamsOf(u, clients)')
  BY <1>2, <1>3, FS_Difference
<1>7. Cardinality(StreamsOf(u, clients)') \in Nat
  BY <1>6, FS_CardinalityType
<1>8. perUser[u] = Cardinality(StreamsOf(u, clients)) /\ perUser[u] <= maxConnsPerUser
      /\ maxConnsPerUser \in Nat
  BY CapacityAssumption DEF IInv, ConnectionsCounted
<1>9. QED
  BY <1>2, <1>5, <1>7, <1>8

\* Registering below the cap counts the stream once.
LEMMA RegisterCounts ==
  ASSUME IInv, NEW s \in Streams, HubRegister(s)
  PROVE  Counts' /\ ConnectionsCounted'
<1>1. /\ s \notin clients /\ tabOf[s] \in Tabs /\ UserOn(s) \in Users
      /\ clients' = clients \cup {s} /\ tabOf' = tabOf
      /\ perUser' = [perUser EXCEPT ![UserOn(s)] = @ + 1]
      /\ perUser[UserOn(s)] < maxConnsPerUser
  BY UserOfAssumption DEF IInv, Registered, Shapes, HubRegister, Known, Served, UserOn
<1>2. ASSUME NEW u \in Users
      PROVE  /\ perUser'[u] \in Nat /\ perUser'[u] <= maxConnsPerUser
             /\ perUser'[u] = Cardinality(StreamsOf(u, clients)')
  <2>1. /\ clients \in SUBSET Streams /\ perUser \in [Users -> Nat] /\ maxConnsPerUser \in Nat
        /\ perUser[u] = Cardinality(StreamsOf(u, clients)) /\ perUser[u] <= maxConnsPerUser
    BY CapacityAssumption DEF IInv, Shapes, Counts, ConnectionsCounted
  <2>2. IsFiniteSet(StreamsOf(u, clients))
    BY <2>1, StreamsFinite
  <2>3. CASE UserOn(s) = u
    <3>1. StreamsOf(u, clients)' = StreamsOf(u, clients) \cup {s} /\ s \notin StreamsOf(u, clients)
      BY <1>1, <2>3 DEF StreamsOf, UserOn
    <3>2. Cardinality(StreamsOf(u, clients)') = Cardinality(StreamsOf(u, clients)) + 1
      BY <2>2, <3>1, FS_AddElement
    <3>3. QED
      BY <1>1, <2>1, <2>3, <3>2
  <2>4. CASE UserOn(s) # u
    <3>1. StreamsOf(u, clients)' = StreamsOf(u, clients)
      BY <1>1, <2>4 DEF StreamsOf, UserOn
    <3>2. QED
      BY <1>1, <2>1, <2>4, <3>1
  <2>5. QED
    BY <2>3, <2>4
<1>3. perUser' \in [Users -> Nat]
  BY <1>1, <1>2 DEF IInv, Counts
<1>4. QED
  BY <1>2, <1>3 DEF Counts, ConnectionsCounted

\* With nobody connected every count is zero.
LEMMA NobodyCounts ==
  ASSUME clients' = {}, perUser' = [u \in Users |-> 0]
  PROVE  Counts' /\ ConnectionsCounted'
<1>1. \A u \in Users : StreamsOf(u, clients)' = {}
  BY DEF StreamsOf
<1>2. Cardinality({}) = 0
  BY FS_EmptySet
<1>3. QED
  BY <1>1, <1>2, CapacityAssumption DEF Counts, ConnectionsCounted

\* A step that moves no registered stream keeps the counts.
LEMMA IdleCounts ==
  ASSUME IInv, UNCHANGED <<clients, perUser>>, \A s \in clients : tabOf'[s] = tabOf[s]
  PROVE  Counts' /\ ConnectionsCounted'
<1>1. \A u \in Users : StreamsOf(u, clients)' = StreamsOf(u, clients)
  BY DEF StreamsOf, UserOn
<1>2. QED
  BY <1>1 DEF IInv, Counts, ConnectionsCounted

(***************************************************************************)
(* The steps.                                                              *)
(***************************************************************************)
\* Steps of the tabs, of the handlers and of main touch neither the hub's
\* bookkeeping nor any endpoint.
LEMMA Elsewhere ==
  ASSUME IInv, UNCHANGED <<broker, endpoints>>, Shapes'
  PROVE  IInv'
<1>1. Counts' /\ ConnectionsCounted'
  BY IdleCounts DEF broker, endpoints
<1>2. Registered' /\ ClosedOnceOnLeaving'
  BY DEF IInv, broker, endpoints, Registered, ClosedOnceOnLeaving, Served
<1>3. QED
  BY <1>1, <1>2 DEF IInv

\* Commits, publishes, the phases of a shutdown and a reload of the process.
LEMMA ServerKeeps ==
  ASSUME IInv, Commit \/ Publish \/ Cancel \/ Shutdown \/ Restart
  PROVE  IInv'
<1> USE CapacityAssumption DEF IInv, Shapes, endpoints, tabs, gaps, broker, Served
<1>1. CASE Commit
  BY <1>1, Elsewhere DEF Commit
<1>2. CASE Publish
  BY <1>2, Elsewhere DEF Publish
<1>3. CASE Cancel
  BY <1>3, Elsewhere DEF Cancel
<1>4. CASE Shutdown
  BY <1>4, Elsewhere DEF Shutdown
<1>5. CASE Restart
  <2>1. Shapes'
    BY <1>5 DEF Restart, Unseen
  <2>2. Counts' /\ ConnectionsCounted'
    BY <1>5, IdleCounts DEF Restart
  <2>3. Registered' /\ ClosedOnceOnLeaving'
    BY <1>5 DEF Restart, Registered, ClosedOnceOnLeaving
  <2>4. QED
    BY <2>1, <2>2, <2>3
<1>6. QED
  BY <1>1, <1>2, <1>3, <1>4, <1>5

\* What tabs do; only a new connection reaches an endpoint, one the hub does not
\* know.
LEMMA TabKeeps ==
  ASSUME IInv, NEW d \in Tabs, Browser(d) \/ User(d)
  PROVE  IInv'
<1>1. CASE Connect(d)
  <2> DEFINE s == CHOOSE r \in Streams : at[r] = "off"
  <2>1. s \in Streams /\ at[s] = "off"
    BY <1>1 DEF Connect, Served
  <2>2. /\ at' = [at EXCEPT ![s] = "register"] /\ tabOf' = [tabOf EXCEPT ![s] = d]
        /\ open' = [open EXCEPT ![s] = TRUE] /\ wire' = [wire EXCEPT ![d] = s]
        /\ UNCHANGED <<phase, broker, broadcast, ch, unpublished, es, hadError, timer, fetch, fresh,
                       changes, faults, gaps>>
    BY <1>1 DEF Connect
  <2> HIDE DEF s
  <2>3. s \notin clients
    BY <2>1 DEF IInv, Registered, Known
  <2>4. Shapes'
    BY <2>1, <2>2, NoneAssumption DEF IInv, Shapes, Served, broker, gaps
  <2>5. Counts' /\ ConnectionsCounted'
    BY <2>2, <2>3, IdleCounts DEF broker, IInv, Shapes
  <2>6. Registered' /\ ClosedOnceOnLeaving'
    BY <2>1, <2>2, <2>3 DEF IInv, Shapes, Registered, ClosedOnceOnLeaving, Served, broker
  <2>7. QED
    BY <2>4, <2>5, <2>6 DEF IInv
<1>2. CASE ~Connect(d)
  <2> USE CapacityAssumption DEF IInv, Shapes, endpoints, gaps, broker, Served, Refetch
  <2>1. CASE Debounced(d)
    BY <2>1, Elsewhere DEF Debounced
  <2>2. CASE Fetched(d)
    BY <2>2, Elsewhere DEF Fetched, Caught
  <2>3. CASE OpenTab(d)
    BY <2>3, Elsewhere DEF OpenTab
  <2>4. CASE CloseTab(d)
    BY <2>4, Elsewhere DEF CloseTab, Caught
  <2>5. CASE BecomeVisible(d)
    BY <2>5, Elsewhere DEF BecomeVisible
  <2>6. CASE DropConnection(d)
    BY <2>6, Elsewhere DEF DropConnection
  <2>7. CASE FetchFails(d)
    BY <2>7, Elsewhere DEF FetchFails
  <2>8. CASE RefreshUser(d)
    BY <2>8, Elsewhere DEF RefreshUser
  <2>9. QED
    BY <1>2, <2>1, <2>2, <2>3, <2>4, <2>5, <2>6, <2>7, <2>8 DEF Browser, User
<1>3. QED
  BY <1>1, <1>2

\* The three cases of the hub's select, and its exit.
LEMMA HubKeeps ==
  ASSUME IInv, Hub
  PROVE  IInv'
<1> USE CapacityAssumption DEF IInv
<1>1. ASSUME NEW s \in Streams, HubRegister(s) PROVE IInv'
  <2>1. Shapes'
    BY <1>1 DEF HubRegister, Shapes, Served, tabs, gaps
  <2>2. Counts' /\ ConnectionsCounted'
    BY <1>1, RegisterCounts
  <2>3. Registered' /\ ClosedOnceOnLeaving'
    BY <1>1 DEF HubRegister, Registered, ClosedOnceOnLeaving, Served, Known, Shapes
  <2>4. QED
    BY <2>1, <2>2, <2>3
<1>2. CASE HubBroadcast
  <2> DEFINE slow == {s \in clients : ch[s] >= clientBufferSize}
  <2>1. /\ Disconnect(slow) /\ tabOf' = tabOf /\ at' = at /\ hub' = hub
        /\ clients' = clients \ slow
        /\ open' = [s \in Streams |-> open[s] /\ s \notin slow]
    BY <1>2 DEF HubBroadcast, Disconnect
  <2>2. Shapes'
    <3>1. ch' \in [Streams -> 0..clientBufferSize]
      BY <1>2 DEF HubBroadcast, Shapes
    <3>2. open' \in [Streams -> BOOLEAN]
      BY <2>1
    <3>3. QED
      BY <1>2, <2>1, <3>1, <3>2 DEF HubBroadcast, Shapes, Served, tabs, Unseen
  <2>3. Counts' /\ ConnectionsCounted'
    BY <2>1, DisconnectCounts
  <2>4. Registered' /\ ClosedOnceOnLeaving'
    BY <2>1 DEF Registered, ClosedOnceOnLeaving, Served, Known, Shapes
  <2>5. QED
    BY <2>2, <2>3, <2>4
<1>3. CASE HubExit
  <2>1. /\ clients' = {} /\ perUser' = [u \in Users |-> 0] /\ at' = at
        /\ open' = [s \in Streams |-> open[s] /\ s \notin clients]
    BY <1>3 DEF HubExit
  <2>2. Shapes'
    BY <1>3, <2>1 DEF HubExit, Shapes, Served, tabs, gaps
  <2>3. Counts' /\ ConnectionsCounted'
    BY <2>1, NobodyCounts
  <2>4. Registered' /\ ClosedOnceOnLeaving'
    BY <2>1 DEF Registered, ClosedOnceOnLeaving, Served, Known, Shapes
  <2>5. QED
    BY <2>2, <2>3, <2>4
<1>4. QED
  BY <1>1, <1>2, <1>3 DEF Hub

\* The end of an endpoint, and of its tab's connection, is typed.
LEMMA HangupTyped ==
  ASSUME IInv, NEW s \in Streams, NEW state \in {"failed", "connecting"}, Hangup(s, state), at[s] # "off"
  PROVE  /\ es' \in [Tabs -> {"closed", "connecting", "open", "failed"}]
         /\ wire' \in [Tabs -> Streams \cup {None}]
         /\ hadError' \in [Tabs -> BOOLEAN]
<1>1. /\ es \in [Tabs -> {"closed", "connecting", "open", "failed"}]
      /\ wire \in [Tabs -> Streams \cup {None}] /\ hadError \in [Tabs -> BOOLEAN]
  BY DEF IInv, Shapes
<1>2. CASE Attached(s)
  BY <1>1, <1>2 DEF Hangup
<1>3. CASE ~Attached(s)
  BY <1>1, <1>3 DEF Hangup
<1>4. QED
  BY <1>2, <1>3

\* An endpoint's run from its registration to its return.
LEMMA EndpointKeeps ==
  ASSUME IInv, NEW s \in Streams, Endpoint(s)
  PROVE  IInv'
<1> USE CapacityAssumption DEF IInv
<1>1. CASE Refuse(s)
  <2>1. /\ Return(s) /\ Hangup(s, "failed") /\ at[s] = "register"
        /\ UNCHANGED <<phase, broker, broadcast, unpublished, timer, fetch, fresh, changes, faults, gaps>>
    BY <1>1 DEF Refuse
  <2>2. s \notin clients
    BY <2>1 DEF Registered, Known
  <2>3. Shapes'
    BY <2>1, HangupTyped DEF Return, Shapes, Served, broker, gaps
  <2>4. Counts' /\ ConnectionsCounted'
    BY <2>1, <2>2, IdleCounts DEF Return, broker, Shapes
  <2>5. Registered' /\ ClosedOnceOnLeaving'
    BY <2>1, <2>2 DEF Return, broker, Shapes, Registered, ClosedOnceOnLeaving, Served
  <2>6. QED
    BY <2>3, <2>4, <2>5
<1>2. CASE Greet(s)
  <2>1. Shapes'
    BY <1>2 DEF Greet, Shapes, Served, broker, gaps, Refetch, Attached
  <2>2. Counts' /\ ConnectionsCounted'
    BY <1>2, IdleCounts DEF Greet, broker
  <2>3. Registered' /\ ClosedOnceOnLeaving'
    BY <1>2 DEF Greet, broker, Shapes, Registered, ClosedOnceOnLeaving, Served, Known
  <2>4. QED
    BY <2>1, <2>2, <2>3
<1>3. CASE Forward(s)
  <2>1. Shapes'
    BY <1>3 DEF Forward, Shapes, Served, broker, gaps, Attached
  <2>2. Counts' /\ ConnectionsCounted'
    BY <1>3, IdleCounts DEF Forward, broker
  <2>3. Registered' /\ ClosedOnceOnLeaving'
    BY <1>3 DEF Forward, broker, Shapes, Registered, ClosedOnceOnLeaving, Served, Known
  <2>4. QED
    BY <2>1, <2>2, <2>3
<1>4. CASE Leave(s)
  <2>1. Shapes'
    BY <1>4 DEF Leave, Shapes, Served, broker, gaps, tabs
  <2>2. Counts' /\ ConnectionsCounted'
    BY <1>4, IdleCounts DEF Leave, broker
  <2>3. Registered' /\ ClosedOnceOnLeaving'
    BY <1>4 DEF Leave, broker, Shapes, Registered, ClosedOnceOnLeaving, Served, Known
  <2>4. QED
    BY <2>1, <2>2, <2>3
<1>5. CASE Unregister(s)
  <2>1. /\ Return(s) /\ Hangup(s, "connecting") /\ at[s] = "unregister"
        /\ IF hub = "running" THEN Disconnect(clients \cap {s}) ELSE UNCHANGED <<clients, perUser>>
        /\ UNCHANGED <<phase, hub, broadcast, unpublished, timer, fetch, fresh, changes, faults, gaps>>
    BY <1>5 DEF Unregister
  <2>2. clients' \subseteq clients /\ s \notin clients' /\ \A r \in clients : r # s => r \in clients'
    BY <2>1 DEF Disconnect, Registered, Shapes
  <2>3. Shapes'
    BY <2>1, <2>2, HangupTyped DEF Return, Shapes, Served, gaps
  <2>4. \A r \in clients \ {s} : tabOf'[r] = tabOf[r]
    BY <2>1 DEF Return, Shapes
  <2>5. Counts' /\ ConnectionsCounted'
    <3>1. CASE hub = "running"
      BY <2>1, <2>4, <3>1, DisconnectCounts
    <3>2. CASE hub # "running"
      BY <2>1, <2>2, <2>4, <3>2, IdleCounts
    <3>3. QED
      BY <3>1, <3>2
  <2>6. Registered' /\ ClosedOnceOnLeaving'
    BY <2>1, <2>2 DEF Return, Shapes, Registered, ClosedOnceOnLeaving, Served
  <2>7. QED
    BY <2>3, <2>5, <2>6
<1>6. QED
  BY <1>1, <1>2, <1>3, <1>4, <1>5 DEF Endpoint

\* The empty hub satisfies the invariant.
LEMMA InitInv == Init => IInv
<1> SUFFICES ASSUME Init PROVE IInv
  OBVIOUS
<1>1. Shapes
  BY CapacityAssumption DEF Init, Shapes, Served
<1>2. \A u \in Users : StreamsOf(u, clients) = {}
  BY DEF Init, StreamsOf
<1>3. Cardinality({}) = 0
  BY FS_EmptySet
<1>4. Counts /\ ConnectionsCounted
  <2>1. perUser = [u \in Users |-> 0] /\ maxConnsPerUser \in Nat
    BY CapacityAssumption DEF Init
  <2>2. QED
    BY <1>2, <1>3, <2>1 DEF Counts, ConnectionsCounted
<1>5. Registered /\ ClosedOnceOnLeaving
  BY DEF Init, Registered, ClosedOnceOnLeaving, Served
<1>6. QED
  BY <1>1, <1>4, <1>5 DEF IInv

\* Every step keeps it.
LEMMA NextInv == IInv /\ [Next]_vars => IInv'
<1> SUFFICES ASSUME IInv, [Next]_vars PROVE IInv'
  OBVIOUS
<1>1. CASE UNCHANGED vars
  <2>1. Shapes' /\ UNCHANGED <<broker, endpoints>>
    BY <1>1 DEF vars, broker, endpoints, tabs, gaps, IInv, Shapes, Served
  <2>2. QED
    BY <2>1, Elsewhere
<1>2. QED
  BY <1>1, ServerKeeps, TabKeeps, HubKeeps, EndpointKeeps DEF Next

\* The invariant holds of every reachable state.
LEMMA Invariance == Spec => []IInv
BY InitInv, NextInv, PTL DEF Spec

\* The type invariant holds for every number of tabs, streams and hints.
THEOREM TypeCorrect == Spec => []TypeOK
BY Invariance, IInvTyped, PTL

\* The per-user cap is exact and never exceeded, whichever way streams leave.
THEOREM CapIsExact == Spec => []ConnectionsCounted
<1>1. IInv => ConnectionsCounted
  BY DEF IInv
<1>2. QED
  BY <1>1, Invariance, PTL

\* No send on, and no second close of, a closed channel; and no stream is ever
\* left behind with an open channel nobody will close.
THEOREM ChannelsCloseOnce == Spec => []ClosedOnceOnLeaving
<1>1. IInv => ClosedOnceOnLeaving
  BY DEF IInv
<1>2. QED
  BY <1>1, Invariance, PTL

(***************************************************************************)
(* Freshness: whatever leaves a tab's data stale also sends it something.  *)
(***************************************************************************)
\* The tab at the other end of a stream is the one it serves; an open one was
\* greeted, one whose last attempt failed has its error noted, and a closed one
\* is at no end of anything.
Wired ==
  /\ \A d \in Tabs : wire[d] # None => at[wire[d]] # "off" /\ tabOf[wire[d]] = d
  /\ \A d \in Tabs : es[d] = "open" =>
       wire[d] # None /\ at[wire[d]] \in {"loop", "unregister"} /\ ~hadError[d]
  /\ \A d \in Tabs : es[d] = "failed" => hadError[d]
  /\ \A d \in Tabs : fetch[d] = "old" => ~fresh[d]
  /\ \A d \in Tabs : es[d] = "closed" => wire[d] = None /\ fetch[d] = "none" /\ ~timer[d]

\* Something on its way to tab d will refresh it: a refetch or the timer before
\* it, a hint anywhere between a handler and the tab's channel, or an error, seen
\* or still to be seen, after which the stream's opening sweeps.
Coming(d) ==
  \/ fetch[d] = "current" \/ timer[d] \/ unpublished > 0 \/ broadcast > 0 \/ hadError[d]
  \/ wire[d] # None /\ (ch[wire[d]] > 0 \/ (at[wire[d]] \in Known /\ wire[d] \notin clients))

StaleIsComing ==
  \A d \in Tabs : ~fresh[d] /\ es[d] # "closed" => Coming(d) \/ d \in Gapped

FInv == IInv /\ Wired /\ StaleIsComing

\* A tab served by a stream is served by no other.
LEMMA OneStream ==
  ASSUME Wired, NEW s \in Streams, NEW d \in Tabs, wire[d] = s
  PROVE  Attached(s) /\ tabOf[s] = d /\ at[s] # "off"
BY NoneAssumption DEF Wired, Attached

\* The end of a connection leaves its tab with an error to recover from.
LEMMA HangupNoted ==
  ASSUME IInv, Wired, NEW s \in Streams, NEW state \in {"failed", "connecting"},
         at[s] # "off", Hangup(s, state)
  PROVE  \A d \in Tabs :
           \/ wire[d] # s /\ es'[d] = es[d] /\ wire'[d] = wire[d] /\ hadError'[d] = hadError[d]
           \/ wire[d] = s /\ es'[d] = state /\ wire'[d] = None /\ hadError'[d]
<1>1. /\ tabOf[s] \in Tabs /\ s \in Streams
      /\ wire \in [Tabs -> Streams \cup {None}] /\ es \in [Tabs -> {"closed", "connecting", "open", "failed"}]
      /\ hadError \in [Tabs -> BOOLEAN]
  BY NoneAssumption DEF IInv, Shapes, Served
<1>2. CASE Attached(s)
  <2>1. \A d \in Tabs : wire[d] = s <=> d = tabOf[s]
    BY <1>1, <1>2, OneStream DEF Attached
  <2>2. QED
    BY <1>1, <1>2, <2>1 DEF Hangup
<1>3. CASE ~Attached(s)
  <2>1. \A d \in Tabs : wire[d] # s
    BY <1>3, OneStream
  <2>2. QED
    BY <1>3, <2>1 DEF Hangup
<1>4. QED
  BY <1>2, <1>3

\* The hub's steps.
LEMMA HubRefreshes ==
  ASSUME FInv, Hub
  PROVE  Wired' /\ StaleIsComing'
<1> USE DEF FInv
<1>1. Shapes /\ Registered
  BY DEF IInv
<1>2. ASSUME NEW s \in Streams, HubRegister(s) PROVE Wired' /\ StaleIsComing'
  <2>1. /\ at[s] = "register" /\ at' = [at EXCEPT ![s] = "greet"] /\ clients' = clients \cup {s}
        /\ UNCHANGED <<broadcast, unpublished, ch, tabOf, es, wire, hadError, timer, fetch, fresh, early, dropped, failed, cut>>
    BY <1>2 DEF HubRegister, tabs, gaps
  <2>2. Wired'
    BY <1>1, <2>1 DEF Wired, Shapes
  <2>3. \A d \in Tabs : Coming(d) => Coming(d)'
    BY <1>1, <2>1 DEF Coming, Shapes, Known
  <2>4. QED
    BY <2>1, <2>2, <2>3 DEF StaleIsComing, Gapped
<1>3. CASE HubBroadcast
  <2> DEFINE slow == {s \in clients : ch[s] >= clientBufferSize}
  <2>1. /\ broadcast' = broadcast - 1 /\ clients' = clients \ slow
        /\ ch' = [s \in Streams |-> IF s \in clients \ slow THEN ch[s] + 1 ELSE ch[s]]
        /\ early' = early \cup {d \in Unseen : wire[d] \notin clients}
        /\ UNCHANGED <<unpublished, at, tabOf, es, wire, hadError, timer, fetch, fresh, dropped, failed, cut>>
    BY <1>3 DEF HubBroadcast, Disconnect, tabs
  <2>2. Wired'
    BY <2>1 DEF Wired
  <2>3. ASSUME NEW d \in Tabs, ~fresh'[d], es'[d] # "closed", d \notin Gapped'
        PROVE  Coming(d)'
    <3>1. ~fresh[d] /\ es[d] # "closed" /\ d \notin Gapped /\ wire[d] \in Streams \cup {None}
      BY <1>1, <2>1, <2>3 DEF Shapes, Gapped
    <3>2. CASE hadError[d]
      BY <2>1, <3>2 DEF Coming
    <3>3. CASE ~hadError[d] /\ wire[d] \in clients
      <4>1. wire[d] \in Streams /\ wire[d] # None /\ at[wire[d]] \in Known /\ ch[wire[d]] \in Nat
        BY <1>1, <3>3, NoneAssumption DEF Shapes, Registered
      <4>2. CASE wire[d] \in slow
        BY <2>1, <4>1, <4>2 DEF Coming
      <4>3. CASE wire[d] \notin slow
        <5>1. ch'[wire[d]] > 0
          BY <2>1, <3>3, <4>1, <4>3
        <5>2. QED
          BY <2>1, <4>1, <5>1 DEF Coming
      <4>4. QED
        BY <4>2, <4>3
    <3>4. CASE ~hadError[d] /\ wire[d] \notin clients
      <4>1. es[d] = "open"
        <5>1. es[d] # "failed"
          BY <3>4 DEF Wired
        <5>2. es[d] # "connecting"
          BY <2>1, <2>3, <3>1, <3>4 DEF Unseen, Gapped
        <5>3. QED
          BY <1>1, <3>1, <5>1, <5>2 DEF Shapes
      <4>2. wire[d] # None /\ at[wire[d]] \in Known
        BY <4>1 DEF Wired, Known
      <4>3. QED
        BY <2>1, <3>4, <4>2 DEF Coming
    <3>5. QED
      BY <3>2, <3>3, <3>4
  <2>4. QED
    BY <2>2, <2>3 DEF StaleIsComing, Gapped
<1>4. CASE HubExit
  <2>1. /\ clients' = {}
        /\ UNCHANGED <<broadcast, unpublished, at, ch, tabOf, es, wire, hadError, timer, fetch, fresh, early, dropped, failed, cut>>
    BY <1>4 DEF HubExit, tabs, gaps
  <2>2. Wired' /\ \A d \in Tabs : Coming(d) => Coming(d)'
    BY <2>1 DEF Wired, Coming
  <2>3. QED
    BY <2>1, <2>2 DEF StaleIsComing, Gapped
<1>5. QED
  BY <1>2, <1>3, <1>4 DEF Hub

\* An endpoint's steps.
LEMMA EndpointRefreshes ==
  ASSUME FInv, NEW s \in Streams, Endpoint(s)
  PROVE  Wired' /\ StaleIsComing'
<1> USE DEF FInv
<1>1. Shapes /\ Registered /\ IInv
  BY DEF IInv
<1>2. ASSUME NEW state \in {"failed", "connecting"}, at[s] # "off", Return(s), Hangup(s, state),
             clients' = clients \/ clients' = clients \ {s},
             UNCHANGED <<broadcast, unpublished, timer, fetch, fresh, early, dropped, failed, cut>>
      PROVE  Wired' /\ StaleIsComing'
  <2>1. /\ \A r \in Streams : r # s => at'[r] = at[r] /\ tabOf'[r] = tabOf[r] /\ ch'[r] = ch[r]
        /\ \A r \in Streams : r # s => (r \in clients' <=> r \in clients)
    BY <1>1, <1>2 DEF Return, Shapes
  <2>2. \A d \in Tabs :
           \/ wire[d] # s /\ es'[d] = es[d] /\ wire'[d] = wire[d] /\ hadError'[d] = hadError[d]
           \/ wire[d] = s /\ es'[d] = state /\ wire'[d] = None /\ hadError'[d]
    BY <1>1, <1>2, HangupNoted
  <2>3. \A d \in Tabs : wire[d] \in Streams \cup {None}
    BY <1>1 DEF Shapes
  <2>4. Wired'
    <3>1. ASSUME NEW d \in Tabs
          PROVE  /\ wire'[d] # None => at'[wire'[d]] # "off" /\ tabOf'[wire'[d]] = d
                 /\ es'[d] = "open" =>
                      wire'[d] # None /\ at'[wire'[d]] \in {"loop", "unregister"} /\ ~hadError'[d]
                 /\ es'[d] = "failed" => hadError'[d]
                 /\ fetch'[d] = "old" => ~fresh'[d]
                 /\ es'[d] = "closed" => wire'[d] = None /\ fetch'[d] = "none" /\ ~timer'[d]
      <4>1. CASE wire[d] = s
        BY <1>2, <2>2, <4>1 DEF Wired
      <4>2. CASE wire[d] # s
        BY <1>2, <2>1, <2>2, <2>3, <4>2 DEF Wired
      <4>3. QED
        BY <4>1, <4>2
    <3>2. QED
      BY <3>1 DEF Wired
  <2>5. ASSUME NEW d \in Tabs, ~fresh'[d], es'[d] # "closed", d \notin Gapped'
        PROVE  Coming(d)'
    <3>1. CASE wire[d] = s
      BY <2>2, <3>1 DEF Coming
    <3>2. CASE wire[d] # s
      <4>1. Coming(d)
        BY <1>2, <2>2, <2>5, <3>2 DEF StaleIsComing, Gapped
      <4>2. QED
        BY <1>2, <2>1, <2>2, <2>3, <3>2, <4>1 DEF Coming
    <3>3. QED
      BY <3>1, <3>2
  <2>6. QED
    BY <2>4, <2>5 DEF StaleIsComing, Gapped
<1>3. CASE Refuse(s)
  <2>1. /\ at[s] # "off" /\ Return(s) /\ Hangup(s, "failed") /\ clients' = clients
        /\ UNCHANGED <<broadcast, unpublished, timer, fetch, fresh, early, dropped, failed, cut>>
    BY <1>3 DEF Refuse, broker, gaps
  <2>2. QED
    BY <1>2, <2>1
<1>4. CASE Unregister(s)
  <2>1. /\ at[s] # "off" /\ Return(s) /\ Hangup(s, "connecting")
        /\ clients' = clients \/ clients' = clients \ {s}
        /\ UNCHANGED <<broadcast, unpublished, timer, fetch, fresh, early, dropped, failed, cut>>
    BY <1>4 DEF Unregister, Disconnect, gaps
  <2>2. QED
    BY <1>2, <2>1
<1>5. CASE Greet(s)
  <2> DEFINE c == tabOf[s]
  <2>1. /\ at[s] = "greet" /\ at' = [at EXCEPT ![s] = "loop"]
        /\ UNCHANGED <<broadcast, unpublished, clients, tabOf, ch, wire, timer, fresh, early, dropped, failed, cut>>
    BY <1>5 DEF Greet, broker, gaps
  <2>2. c \in Tabs
    BY <1>1, <2>1 DEF Shapes, Served
  <2>3. \A d \in Tabs : wire[d] \in Streams \cup {None}
    BY <1>1 DEF Shapes
  <2>4. CASE Attached(s)
    <3>1. /\ es' = [es EXCEPT ![c] = "open"] /\ hadError' = [hadError EXCEPT ![c] = FALSE]
          /\ fetch' = IF hadError[c] THEN [fetch EXCEPT ![c] = "current"] ELSE fetch
      BY <1>5, <2>4 DEF Greet, Refetch
    <3>2. wire[c] = s /\ s # None
      BY <2>4, NoneAssumption DEF Attached
    <3>3. /\ es'[c] = "open" /\ ~hadError'[c] /\ (hadError[c] => fetch'[c] = "current")
          /\ ~hadError[c] => fetch'[c] = fetch[c]
          /\ \A d \in Tabs : d # c => es'[d] = es[d] /\ hadError'[d] = hadError[d] /\ fetch'[d] = fetch[d]
      BY <1>1, <2>2, <3>1 DEF Shapes
    <3>4. Wired'
      <4>1. ASSUME NEW d \in Tabs
            PROVE  /\ wire'[d] # None => at'[wire'[d]] # "off" /\ tabOf'[wire'[d]] = d
                   /\ es'[d] = "open" =>
                        wire'[d] # None /\ at'[wire'[d]] \in {"loop", "unregister"} /\ ~hadError'[d]
                   /\ es'[d] = "failed" => hadError'[d]
                   /\ fetch'[d] = "old" => ~fresh'[d]
                   /\ es'[d] = "closed" => wire'[d] = None /\ fetch'[d] = "none" /\ ~timer'[d]
        <5>1. CASE d = c
          BY <1>1, <2>1, <3>2, <3>3, <5>1 DEF Wired, Shapes
        <5>2. CASE d # c
          BY <1>1, <2>1, <2>3, <3>3, <5>2 DEF Wired, Shapes
        <5>3. QED
          BY <5>1, <5>2
      <4>2. QED
        BY <4>1 DEF Wired
    <3>5. ASSUME NEW d \in Tabs, ~fresh'[d], es'[d] # "closed", d \notin Gapped'
          PROVE  Coming(d)'
      <4>1. CASE d = c /\ hadError[d]
        BY <3>3, <4>1 DEF Coming
      <4>2. CASE d = c /\ ~hadError[d]
        <5>1. es[d] # "closed" => Coming(d)
          BY <2>1, <3>5 DEF StaleIsComing, Gapped
        <5>2. es[d] # "closed"
          BY <4>2, <3>2 DEF Wired
        <5>3. QED
          BY <1>1, <2>1, <3>2, <3>3, <4>2, <5>1, <5>2 DEF Coming, Shapes, Known
      <4>3. CASE d # c
        <5>1. Coming(d)
          BY <2>1, <3>3, <3>5, <4>3 DEF StaleIsComing, Gapped
        <5>2. QED
          BY <1>1, <2>1, <2>3, <3>3, <4>3, <5>1 DEF Coming, Shapes, Known
      <4>4. QED
        BY <4>1, <4>2, <4>3
    <3>6. QED
      BY <3>4, <3>5 DEF StaleIsComing, Gapped
  <2>5. CASE ~Attached(s)
    <3>1. UNCHANGED <<es, hadError, fetch>>
      BY <1>5, <2>5 DEF Greet
    <3>2. \A d \in Tabs : wire[d] # s
      BY <2>5, OneStream
    <3>3. Wired' /\ \A d \in Tabs : Coming(d) => Coming(d)'
      BY <1>1, <2>1, <2>3, <3>1, <3>2 DEF Wired, Coming, Shapes
    <3>4. QED
      BY <2>1, <3>1, <3>3 DEF StaleIsComing, Gapped
  <2>6. QED
    BY <2>4, <2>5
<1>6. CASE Forward(s)
  <2>1. /\ ch' = [ch EXCEPT ![s] = @ - 1]
        /\ timer' = IF Attached(s) THEN [timer EXCEPT ![tabOf[s]] = TRUE] ELSE timer
        /\ UNCHANGED <<broadcast, unpublished, clients, at, tabOf, es, wire, hadError, fetch, fresh, early, dropped, failed, cut>>
    BY <1>6 DEF Forward, broker, gaps
  <2>2. Wired'
    <3>1. \A d \in Tabs : es[d] = "closed" => ~timer'[d]
      <4>1. SUFFICES ASSUME NEW d \in Tabs, es[d] = "closed", Attached(s) PROVE tabOf[s] # d
        BY <1>1, <2>1 DEF Wired, Shapes
      <4>2. QED
        BY <4>1, NoneAssumption DEF Wired, Attached
    <3>2. QED
      BY <2>1, <3>1 DEF Wired
  <2>3. ASSUME NEW d \in Tabs, Coming(d) PROVE Coming(d)'
    <3>1. wire[d] \in Streams \cup {None}
      BY <1>1 DEF Shapes
    <3>2. CASE wire[d] = s
      <4>1. Attached(s) /\ tabOf[s] = d
        BY <3>2, OneStream
      <4>2. timer'[d]
        BY <1>1, <2>1, <4>1 DEF Shapes
      <4>3. QED
        BY <4>2 DEF Coming
    <3>3. CASE wire[d] # s
      <4>1. timer[d] => timer'[d]
        BY <1>1, <2>1 DEF Shapes
      <4>2. wire[d] # None => ch'[wire[d]] = ch[wire[d]]
        BY <1>1, <2>1, <3>1, <3>3 DEF Shapes
      <4>3. QED
        BY <2>1, <2>3, <4>1, <4>2 DEF Coming
    <3>4. QED
      BY <3>2, <3>3
  <2>4. QED
    BY <2>1, <2>2, <2>3 DEF StaleIsComing, Gapped
<1>7. CASE Leave(s)
  <2>1. /\ at[s] \in {"greet", "loop"} /\ (at[s] = "loop" \/ ~Attached(s))
        /\ at' = [at EXCEPT ![s] = "unregister"]
        /\ UNCHANGED <<broadcast, unpublished, clients, tabOf, ch, es, wire, hadError, timer, fetch, fresh, early, dropped, failed, cut>>
    BY <1>7 DEF Leave, broker, tabs, gaps
  <2>2. Wired' /\ \A d \in Tabs : Coming(d) => Coming(d)'
    BY <1>1, <2>1 DEF Wired, Coming, Shapes, Known
  <2>3. QED
    BY <2>1, <2>2 DEF StaleIsComing, Gapped
<1>8. QED
  BY <1>3, <1>4, <1>5, <1>6, <1>7 DEF Endpoint

\* Commits, publishes and the life of the process.
LEMMA ServerRefreshes ==
  ASSUME FInv, Commit \/ Publish \/ Cancel \/ Shutdown \/ Restart
  PROVE  Wired' /\ StaleIsComing'
<1> USE DEF FInv
<1>1. Shapes /\ Registered
  BY DEF IInv
<1>2. CASE Commit
  <2>1. /\ unpublished' = unpublished + 1 /\ fresh' = [d \in Tabs |-> es[d] = "closed"]
        /\ fetch' = [d \in Tabs |-> IF fetch[d] = "current" THEN "old" ELSE fetch[d]]
        /\ UNCHANGED <<at, tabOf, es, wire, hadError, timer>>
    BY <1>2 DEF Commit, endpoints
  <2>2. unpublished' > 0
    BY <1>1, <2>1 DEF Shapes
  <2>3. StaleIsComing'
    BY <2>2 DEF StaleIsComing, Gapped, Coming
  <2>4. \A d \in Tabs : es[d] = "closed" => fetch[d] = "none"
    BY DEF Wired
  <2>5. Wired'
    BY <2>1, <2>4 DEF Wired
  <2>6. QED
    BY <2>3, <2>5
<1>3. CASE Publish
  <2>1. /\ \/ broadcast' = broadcast + 1 /\ UNCHANGED dropped
           \/ dropped' = dropped \cup {d \in Tabs : ~fresh[d]}
        /\ UNCHANGED <<clients, at, tabOf, ch, es, wire, hadError, timer, fetch, fresh, early, failed, cut>>
    BY <1>3 DEF Publish, broker, endpoints, tabs
  <2>2. Wired'
    BY <2>1 DEF Wired
  <2>3. CASE broadcast' = broadcast + 1
    <3>1. broadcast' > 0
      BY <1>1, <2>3 DEF Shapes
    <3>2. QED
      BY <2>2, <3>1 DEF StaleIsComing, Gapped, Coming
  <2>4. CASE dropped' = dropped \cup {d \in Tabs : ~fresh[d]}
    BY <2>1, <2>2, <2>4 DEF StaleIsComing, Gapped
  <2>5. QED
    BY <2>1, <2>3, <2>4
<1>4. CASE Cancel \/ Shutdown
  <2>1. UNCHANGED <<broadcast, unpublished, clients, at, tabOf, ch, es, wire, hadError, timer, fetch, fresh, early, dropped, failed, cut>>
    BY <1>4 DEF Cancel, Shutdown, broker, endpoints, tabs, gaps
  <2>2. Wired' /\ \A d \in Tabs : Coming(d) => Coming(d)'
    BY <2>1 DEF Wired, Coming
  <2>3. QED
    BY <2>1, <2>2 DEF StaleIsComing, Gapped
<1>5. CASE Restart
  <2>1. /\ Served = {} /\ early' = early \cup Unseen
        /\ UNCHANGED <<at, tabOf, ch, es, wire, hadError, timer, fetch, fresh>>
    BY <1>5 DEF Restart, endpoints, tabs
  <2>2. \A d \in Tabs : wire[d] \in Streams \cup {None}
    BY <1>1 DEF Shapes
  <2>3. \A d \in Tabs : wire[d] = None
    BY <2>1, <2>2 DEF Wired, Served
  <2>4. \A d \in Tabs : es[d] # "open" /\ (es[d] = "failed" => hadError[d])
    BY <2>3 DEF Wired
  <2>5. \A d \in Tabs : es[d] \in {"closed", "connecting", "open", "failed"}
    BY <1>1 DEF Shapes
  <2>6. Wired'
    BY <2>1 DEF Wired
  <2>7. StaleIsComing'
    BY <2>1, <2>4, <2>5 DEF StaleIsComing, Gapped, Coming, Unseen
  <2>8. QED
    BY <2>6, <2>7
<1>6. QED
  BY <1>2, <1>3, <1>4, <1>5

\* The tabs' own steps, and their users'.
LEMMA TabRefreshes ==
  ASSUME FInv, NEW c \in Tabs, Browser(c) \/ User(c)
  PROVE  Wired' /\ StaleIsComing'
<1> USE DEF FInv
<1>1. Shapes /\ Registered
  BY DEF IInv
<1>2. \A d \in Tabs : wire[d] \in Streams \cup {None}
  BY <1>1 DEF Shapes
<1>3. CASE Connect(c)
  <2> DEFINE s == CHOOSE r \in Streams : at[r] = "off"
  <2>1. s \in Streams /\ at[s] = "off" /\ s # None
    BY <1>3, NoneAssumption DEF Connect, Served
  <2>2. /\ at' = [at EXCEPT ![s] = "register"] /\ tabOf' = [tabOf EXCEPT ![s] = c]
        /\ wire' = [wire EXCEPT ![c] = s] /\ wire[c] = None /\ es[c] = "connecting"
        /\ UNCHANGED <<clients, broadcast, ch, unpublished, es, hadError, timer, fetch, fresh, early, dropped, failed, cut>>
    BY <1>3 DEF Connect, broker, gaps
  <2> HIDE DEF s
  <2>3. \A d \in Tabs : wire[d] # s
    BY <2>1, OneStream
  <2>4. /\ wire'[c] = s /\ at'[s] = "register" /\ tabOf'[s] = c
        /\ \A d \in Tabs : d # c => wire'[d] = wire[d]
        /\ \A r \in Streams : r # s => at'[r] = at[r] /\ tabOf'[r] = tabOf[r]
    BY <1>1, <2>1, <2>2 DEF Shapes
  <2>5. Wired'
    BY <1>2, <2>1, <2>2, <2>3, <2>4 DEF Wired
  <2>6. \A d \in Tabs : Coming(d) => Coming(d)'
    BY <1>2, <2>1, <2>2, <2>3, <2>4 DEF Coming
  <2>7. QED
    BY <2>2, <2>5, <2>6 DEF StaleIsComing, Gapped
<1>4. ASSUME fetch' = [fetch EXCEPT ![c] = "current"],
             UNCHANGED <<clients, broadcast, at, tabOf, ch, unpublished, wire, hadError, early, dropped, failed, cut>>,
             timer' = timer \/ timer' = [timer EXCEPT ![c] = FALSE],
             \A d \in Tabs : d # c => es'[d] = es[d] /\ fresh'[d] = fresh[d],
             es'[c] # "closed", es'[c] = es[c] \/ es'[c] = "connecting"
      PROVE  Wired' /\ StaleIsComing'
  <2>1. /\ fetch'[c] = "current" /\ \A d \in Tabs : d # c => fetch'[d] = fetch[d] /\ timer'[d] = timer[d]
    BY <1>1, <1>4 DEF Shapes
  <2>2. Wired'
    BY <1>4, <2>1 DEF Wired
  <2>3. Coming(c)' /\ \A d \in Tabs : d # c /\ Coming(d) => Coming(d)'
    BY <1>4, <2>1 DEF Coming
  <2>4. QED
    BY <1>4, <2>2, <2>3 DEF StaleIsComing, Gapped
<1>5. CASE Debounced(c) \/ BecomeVisible(c) \/ OpenTab(c)
  <2>1. \A d \in Tabs : d # c => es'[d] = es[d] /\ fresh'[d] = fresh[d]
    BY <1>1, <1>5 DEF Debounced, BecomeVisible, OpenTab, Shapes
  <2>2. es'[c] # "closed" /\ (es'[c] = es[c] \/ es'[c] = "connecting")
    BY <1>1, <1>5 DEF Debounced, BecomeVisible, OpenTab, Shapes, Wired
  <2>3. /\ fetch' = [fetch EXCEPT ![c] = "current"]
        /\ timer' = timer \/ timer' = [timer EXCEPT ![c] = FALSE]
        /\ UNCHANGED <<clients, broadcast, at, tabOf, ch, unpublished, wire, hadError, early, dropped, failed, cut>>
    BY <1>5 DEF Debounced, BecomeVisible, OpenTab, Refetch, broker, endpoints, gaps
  <2>4. QED
    BY <1>4, <2>1, <2>2, <2>3
<1>6. CASE Fetched(c)
  <2>1. /\ fresh' = [fresh EXCEPT ![c] = (fetch[c] = "current")] /\ fetch' = [fetch EXCEPT ![c] = "none"]
        /\ fetch[c] = "current" \/ Gapped' = Gapped
        /\ \A d \in Tabs \ {c} : d \in Gapped => d \in Gapped'
        /\ UNCHANGED <<clients, broadcast, at, tabOf, ch, unpublished, es, wire, hadError, timer>>
    BY <1>6 DEF Fetched, Caught, Gapped, broker, endpoints, gaps
  <2>2. /\ fetch'[c] = "none" /\ fresh'[c] = (fetch[c] = "current")
        /\ \A d \in Tabs : d # c => fetch'[d] = fetch[d] /\ fresh'[d] = fresh[d]
    BY <1>1, <2>1 DEF Shapes
  <2>3. fetch[c] \in {"current", "old"}
    BY <1>1, <1>6 DEF Fetched, Shapes
  <2>4. Wired'
    BY <2>1, <2>2 DEF Wired
  <2>5. ASSUME NEW d \in Tabs, ~fresh'[d], es'[d] # "closed", d \notin Gapped'
        PROVE  Coming(d)'
    <3>1. d = c => fetch[d] = "old" /\ ~fresh[d]
      BY <2>2, <2>3, <2>5 DEF Wired
    <3>2. ~fresh[d] /\ es[d] # "closed" /\ d \notin Gapped
      BY <2>1, <2>2, <2>5, <3>1
    <3>3. Coming(d)
      BY <3>2 DEF StaleIsComing, Gapped
    <3>4. QED
      BY <2>1, <2>2, <3>1, <3>3 DEF Coming
  <2>6. QED
    BY <2>4, <2>5 DEF StaleIsComing, Gapped
<1>7. CASE CloseTab(c)
  <2>1. /\ es' = [es EXCEPT ![c] = "closed"] /\ wire' = [wire EXCEPT ![c] = None]
        /\ hadError' = [hadError EXCEPT ![c] = FALSE] /\ timer' = [timer EXCEPT ![c] = FALSE]
        /\ fetch' = [fetch EXCEPT ![c] = "none"] /\ fresh' = [fresh EXCEPT ![c] = TRUE]
        /\ \A d \in Tabs \ {c} : d \in Gapped => d \in Gapped'
        /\ UNCHANGED <<clients, broadcast, at, tabOf, ch, unpublished>>
    BY <1>7 DEF CloseTab, Caught, Gapped, broker, endpoints
  <2>2. /\ es'[c] = "closed" /\ wire'[c] = None /\ fetch'[c] = "none" /\ ~timer'[c]
        /\ \A d \in Tabs : d # c => /\ es'[d] = es[d] /\ wire'[d] = wire[d] /\ hadError'[d] = hadError[d]
                                    /\ timer'[d] = timer[d] /\ fetch'[d] = fetch[d] /\ fresh'[d] = fresh[d]
    BY <1>1, <2>1 DEF Shapes
  <2>3. Wired'
    BY <2>1, <2>2 DEF Wired
  <2>4. \A d \in Tabs : d # c /\ Coming(d) => Coming(d)'
    BY <2>1, <2>2 DEF Coming
  <2>5. QED
    BY <2>1, <2>2, <2>3, <2>4 DEF StaleIsComing, Gapped
<1>8. CASE DropConnection(c)
  <2>1. /\ es' = [es EXCEPT ![c] = "connecting"] /\ wire' = [wire EXCEPT ![c] = None]
        /\ hadError' = [hadError EXCEPT ![c] = TRUE]
        /\ UNCHANGED <<clients, broadcast, at, tabOf, ch, unpublished, timer, fetch, fresh, early, dropped, failed, cut>>
    BY <1>8 DEF DropConnection, broker, endpoints, gaps
  <2>2. /\ es'[c] = "connecting" /\ wire'[c] = None /\ hadError'[c]
        /\ \A d \in Tabs : d # c => es'[d] = es[d] /\ wire'[d] = wire[d] /\ hadError'[d] = hadError[d]
    BY <1>1, <2>1 DEF Shapes
  <2>3. Wired'
    BY <2>1, <2>2 DEF Wired
  <2>4. Coming(c)' /\ \A d \in Tabs : d # c /\ Coming(d) => Coming(d)'
    BY <2>1, <2>2 DEF Coming
  <2>5. QED
    BY <2>1, <2>2, <2>3, <2>4 DEF StaleIsComing, Gapped
<1>9. CASE FetchFails(c)
  <2>1. /\ fetch' = [fetch EXCEPT ![c] = "none"] /\ fetch[c] # "none"
        /\ failed' = failed \cup {b \in {c} : fetch[b] = "current" /\ ~fresh[b]}
        /\ UNCHANGED <<clients, broadcast, at, tabOf, ch, unpublished, es, wire, hadError, timer, fresh,
                       early, dropped, cut>>
    BY <1>9 DEF FetchFails, broker, endpoints
  <2>2. fetch'[c] = "none" /\ \A d \in Tabs : d # c => fetch'[d] = fetch[d]
    BY <1>1, <2>1 DEF Shapes
  <2>3. Wired'
    BY <2>1, <2>2 DEF Wired
  <2>4. ASSUME NEW d \in Tabs, ~fresh'[d], es'[d] # "closed", d \notin Gapped'
        PROVE  Coming(d)'
    <3>1. ~fresh[d] /\ es[d] # "closed" /\ d \notin Gapped /\ (d = c => fetch[d] # "current")
      BY <2>1, <2>4 DEF Gapped
    <3>2. Coming(d)
      BY <3>1 DEF StaleIsComing
    <3>3. QED
      BY <2>1, <2>2, <3>1, <3>2 DEF Coming
  <2>5. QED
    BY <2>3, <2>4 DEF StaleIsComing
<1>10. CASE RefreshUser(c)
  <2>1. /\ es' = [es EXCEPT ![c] = "connecting"] /\ wire' = [wire EXCEPT ![c] = None]
        /\ hadError' = [hadError EXCEPT ![c] = FALSE] /\ timer' = [timer EXCEPT ![c] = FALSE]
        /\ cut' = cut \cup {b \in {c} : ~fresh[b] /\ fetch[b] # "current"
                                      /\ unpublished = 0 /\ broadcast = 0}
        /\ es[c] # "closed"
        /\ UNCHANGED <<clients, broadcast, at, tabOf, ch, unpublished, fetch, fresh, early, dropped, failed>>
    BY <1>10 DEF RefreshUser, broker, endpoints
  <2>2. /\ es'[c] = "connecting" /\ wire'[c] = None
        /\ \A d \in Tabs : d # c => /\ es'[d] = es[d] /\ wire'[d] = wire[d] /\ hadError'[d] = hadError[d]
                                    /\ timer'[d] = timer[d]
    BY <1>1, <2>1 DEF Shapes
  <2>3. Wired'
    BY <2>1, <2>2 DEF Wired
  <2>4. ASSUME NEW d \in Tabs, ~fresh'[d], es'[d] # "closed", d \notin Gapped'
        PROVE  Coming(d)'
    <3>1. CASE d = c
      <4>1. fetch[d] = "current" \/ unpublished # 0 \/ broadcast # 0
        BY <2>1, <2>4, <3>1 DEF Gapped
      <4>2. unpublished \in Nat /\ broadcast \in Nat
        BY <1>1, CapacityAssumption DEF Shapes
      <4>3. QED
        BY <2>1, <4>1, <4>2 DEF Coming
    <3>2. CASE d # c
      <4>1. ~fresh[d] /\ es[d] # "closed" /\ d \notin Gapped
        BY <2>1, <2>2, <2>4, <3>2 DEF Gapped
      <4>2. Coming(d)
        BY <4>1 DEF StaleIsComing
      <4>3. QED
        BY <2>1, <2>2, <3>2, <4>2 DEF Coming
    <3>3. QED
      BY <3>1, <3>2
  <2>5. QED
    BY <2>3, <2>4 DEF StaleIsComing
<1>11. QED
  BY <1>3, <1>5, <1>6, <1>7, <1>8, <1>9, <1>10 DEF Browser, User

LEMMA FreshStep == FInv /\ [Next]_vars => FInv'
<1> SUFFICES ASSUME FInv, [Next]_vars PROVE FInv'
  OBVIOUS
<1>1. IInv'
  BY NextInv DEF FInv
<1>2. CASE UNCHANGED vars
  <2>1. UNCHANGED <<broadcast, unpublished, clients, at, tabOf, ch, es, wire, hadError, timer, fetch, fresh, early, dropped, failed, cut>>
    BY <1>2 DEF vars, broker, endpoints, tabs, gaps
  <2>2. Wired' /\ StaleIsComing'
    BY <2>1 DEF FInv, Wired, StaleIsComing, Gapped, Coming
  <2>3. QED
    BY <1>1, <2>2 DEF FInv
<1>3. CASE Next
  <2>1. Wired' /\ StaleIsComing'
    BY <1>3, HubRefreshes, EndpointRefreshes, ServerRefreshes, TabRefreshes DEF Next
  <2>2. QED
    BY <1>1, <2>1 DEF FInv
<1>4. QED
  BY <1>2, <1>3

LEMMA FreshInit == Init => FInv
<1> SUFFICES ASSUME Init PROVE FInv
  OBVIOUS
<1>1. Wired /\ StaleIsComing
  BY DEF Init, Wired, StaleIsComing, Gapped
<1>2. QED
  BY <1>1, InitInv DEF FInv

\* useLiveUpdates and hub.go: a connected tab to which nothing is on its way shows
\* what the ledger holds, unless a hint was dropped on the full broadcast channel,
\* passed it before a first connect was registered, or was lost with the effect
\* run anew, or its refetch failed twice -- whatever streams drop, lag, reconnect
\* or outlive their tabs, and however often the process restarts.
THEOREM NoSilentStaleness == Spec => []FreshUnlessGap
<1>1. FInv => FreshUnlessGap
  <2> SUFFICES ASSUME FInv, NEW d \in Tabs, Settled(d), ~fresh[d], d \notin Gapped PROVE FALSE
    BY DEF FreshUnlessGap
  <2>1. Coming(d)
    BY DEF FInv, StaleIsComing, Gapped, Settled
  <2>2. ~hadError[d]
    BY DEF FInv, Wired, Settled
  <2>3. QED
    BY <2>1, <2>2 DEF Coming, Settled
<1>2. QED
  BY <1>1, FreshInit, FreshStep, PTL DEF Spec
=============================================================================
