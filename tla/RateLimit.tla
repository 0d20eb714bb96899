----------------------------- MODULE RateLimit -----------------------------
(* One key of a rolling-window limiter (internal/ratelimit/bucket.go) as the sign-in uses it
   (handleLogin): a request asks whether the key is exhausted, checks the password, and then
   records the failure or forgets the key's failures. The bucket locks each of these calls,
   not the three together, so requests of one address overlap. Time is counted in ticks. *)
EXTENDS Integers, Sequences, FiniteSets

CONSTANTS Limit, Window, TicksPerSecond, Requests, LastTick

ASSUME RateLimitAssumption ==
    /\ {Limit, Window, TicksPerSecond} \subseteq Nat \ {0} /\ LastTick \in Nat
    /\ IsFiniteSet(Requests) /\ Requests # {}

VARIABLES
    now,
    hits,         \* the times recorded for the key, oldest first
    attempt,      \* where each request is
    failures,     \* every failed check since the last success, and the request that made it
    promised      \* the time the last refused request was told, {} once another failed, and how
                  \* many hits were above the limit then

rateLimitVars == <<now, hits, attempt, failures, promised>>

\* mutant: a failure exactly one window old still counts
InWindowClosed(h) == h >= now - Window

\* trimLocked: a hit exactly one window old is out of it
InWindow(h) == h > now - Window
FirstInWindow ==
    CHOOSE i \in 1..(Len(hits) + 1) :
        /\ i <= Len(hits) => InWindow(hits[i])
        /\ \A j \in 1..(i - 1) : ~InWindow(hits[j])
Trimmed == SubSeq(hits, FirstInWindow, Len(hits))

\* mutant: the gate closes one failure late
ExhaustedLate == Len(Trimmed) > Limit

Exhausted == Len(Trimmed) >= Limit
RetryAfter ==
    IF Trimmed = <<>> THEN 0
    ELSE LET ticks == Window - (now - Head(Trimmed))
             secs == (ticks + TicksPerSecond - 1) \div TicksPerSecond
         IN  IF secs < 1 THEN 1 ELSE secs

RateLimitInit ==
    /\ now = 0 /\ hits = <<>> /\ attempt = [r \in Requests |-> "out"] /\ failures = {}
    /\ promised = {}

Passes ==
    /\ now < LastTick /\ now' = now + 1
    /\ UNCHANGED <<hits, attempt, failures, promised>>

\* handleLogin's gate
AskLimiter(r) ==
    /\ attempt[r] = "out" /\ hits' = Trimmed
    /\ attempt' = [attempt EXCEPT ![r] = IF Exhausted THEN "refused" ELSE "checking"]
    /\ UNCHANGED <<now, failures, promised>>

\* the Retry-After header, computed after the gate let go of the lock
TellWhen(r) ==
    /\ attempt[r] = "refused" /\ hits' = Trimmed
    /\ promised' = {[at |-> now + RetryAfter * TicksPerSecond,
                     over |-> IF Len(Trimmed) > Limit THEN Len(Trimmed) - Limit ELSE 0]}
    /\ attempt' = [attempt EXCEPT ![r] = "out"]
    /\ UNCHANGED <<now, failures>>

\* Consume records even when the key is exhausted by now.
PasswordWrong(r) ==
    /\ attempt[r] = "checking" /\ hits' = Append(Trimmed, now)
    /\ attempt' = [attempt EXCEPT ![r] = "out"]
    /\ failures' = {f \in failures : InWindow(f.at)}
          \cup {[by |-> r, at |-> now, nth |-> Cardinality({f \in failures : f.at = now /\ f.by = r})]}
    /\ promised' = {} /\ UNCHANGED now

PasswordRight(r) ==
    /\ attempt[r] = "checking" /\ hits' = <<>>
    /\ attempt' = [attempt EXCEPT ![r] = "out"]
    /\ failures' = {} /\ UNCHANGED <<now, promised>>

\* A request that cannot be read, or whose session cannot be written, counts for nothing.
LoginFails(r) ==
    /\ attempt[r] = "checking" /\ attempt' = [attempt EXCEPT ![r] = "out"]
    /\ UNCHANGED <<now, hits, failures, promised>>

\* runCleanupOnce drops what no window needs
Cleanup == hits' = Trimmed /\ UNCHANGED <<now, attempt, failures, promised>>

RateLimitNext ==
    \/ Passes \/ Cleanup
    \/ \E r \in Requests : \/ AskLimiter(r) \/ TellWhen(r) \/ PasswordWrong(r)
                           \/ PasswordRight(r) \/ LoginFails(r)

RateLimitTypeOK ==
    /\ now \in 0..LastTick /\ \A i \in DOMAIN hits : hits[i] \in 0..now
    /\ Len(hits) <= Limit + Cardinality(Requests) - 1
    /\ attempt \in [Requests -> {"out", "refused", "checking"}]
    /\ \A f \in failures : f.by \in Requests /\ f.at \in 0..now
    /\ Cardinality(promised) <= 1 /\ \A p \in promised : p.at \in Int /\ p.over \in Nat

(* In no window since the last success do more passwords fail than the limit allows, the
   requests that had passed the gate when it was reached apart.  Where no more than the limit
   had failed, a refused request that waits as long as it was told is let in, unless others
   failed meanwhile; where requests that overlap had taken the log above the limit, the time
   told is the oldest failure's and too early by as many failures as were above it (Consume,
   Exhausted, RetryAfter at the edges of the window and of the limit).  The requests
   that had passed the gate are the ones of which handlePushTest, with the same gate and the
   same count, says that its cap no longer lets them through. *)
RateLimitHolds ==
    /\ Cardinality({f \in failures : InWindow(f.at)}) <= Limit + Cardinality(Requests) - 1
    /\ \A p \in promised : now >= p.at => Len(Trimmed) < Limit + p.over
=============================================================================
