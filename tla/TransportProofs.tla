--------------------------- MODULE TransportProofs ---------------------------
(***************************************************************************)
(* What the redirect loop, the hand-back of connections and the retries    *)
(* keep for every max_redirects, any hosts, any limit and any server: the  *)
(* bound on the redirects, that no connection is put back in the middle of *)
(* a response, how many idle connections must die before they alone fail a *)
(* download, the widths of the counters and the delays between attempts.   *)
(***************************************************************************)
EXTENDS Transport, FiniteSetTheorems, TLAPS

\* The leg goes on, or ends with another outcome than a redirect: its budget is what
\* it was given.
HasBudget ==
    \/ pc \in Awaiting \cup {"acquire", "backoff"}
    \/ pc = "ended" /\ outcome # "Redirect"

\* The first leg ended with a redirect.
HandsOver == pc = "following" \/ (pc = "ended" /\ outcome = "Redirect" /\ leg = 1)

\* What is left of the budget: what the hops that were followed, and the one that
\* is being followed, have not used.
Counted ==
    /\ leg \in {1, 2} /\ budget \in Nat /\ redirects \in Nat /\ hops \in [{1, 2} -> Nat]
    /\ hops[1] + hops[2] <= MaxRedirects
    /\ leg = 1 => hops[2] = 0
    /\ HasBudget => budget <= MaxRedirects /\ (leg = 2 => hops[1] + budget <= MaxRedirects)
    /\ pc = "acquire" => redirects = 0 /\ hops[leg] = 0
    /\ pc \in {"send", "waiting"} => hops[leg] <= redirects /\ redirects <= budget
    /\ pc = "draining" => hops[leg] + 1 <= redirects /\ redirects <= budget
    /\ HandsOver => leg = 1 /\ redirects = 0 /\ hops[1] + budget <= MaxRedirects

\* The counter reaches the end of a u8 only when max_redirects is that end.
LEMMA Increment ==
    ASSUME NEW n \in Nat, NEW b \in Nat, n <= b, b <= MaxRedirects,
           MaxRedirects < MaxU8 \/ (OverflowChecks /\ ~ Overflows(n))
    PROVE  Incremented(n) = n + 1
  <1>1. MaxU8 \in Nat /\ MaxRedirects \in 0 .. MaxU8
    BY U8Assumption DEF U8
  <1>2. n # MaxU8
    BY <1>1 DEF Overflows
  <1> QED
    BY <1>2 DEF Incremented

\* A redirect that is followed adds at most one to the hops of its leg.
LEMMA OneHop ==
    ASSUME leg \in {1, 2}, hops \in [{1, 2} -> Nat], Hop
    PROVE  /\ hops' \in [{1, 2} -> Nat]
           /\ hops'[leg] <= hops[leg] + 1
           /\ \A l \in {1, 2} : l # leg => hops'[l] = hops[l]
  <1>1. hops' = [hops EXCEPT ![leg] = IF hops[leg] < MaxHops THEN hops[leg] + 1 ELSE hops[leg]]
    BY DEF Hop
  <1> QED
    BY <1>1

\* A redirect is never retried.
LEMMA AfterAttempt ==
    ASSUME NEW o, AttemptEnds(o)
    PROVE  \/ pc' = "backoff" /\ o # "Redirect" /\ outcome' = o
           \/ pc' = "following" /\ o = "Redirect" /\ leg = 1
           \/ pc' = "done"
  BY DEF AttemptEnds, is_retryable

\* A request follows at most max_redirects redirects, over both legs and in every
\* attempt: what execute_request promises (transport.rs:65), and the budget that is
\* passed on with a redirect to another host (transport.rs:178) keeps.
THEOREM RedirectsBounded ==
    ASSUME MaxRedirects < MaxU8 \/ OverflowChecks
    PROVE  Spec => []HopsBounded
  <1>1. MaxU8 \in Nat /\ MaxRedirects \in 0 .. MaxU8
    BY U8Assumption DEF U8
  <1>2. Init => Counted
    BY <1>1 DEF Init, Counted, HasBudget, HandsOver, Legs
  <1>3. Counted /\ [Next]_vars => Counted'
    <2> SUFFICES ASSUME Counted, [Next]_vars PROVE Counted'
      OBVIOUS
    <2> USE DEF HasBudget, HandsOver, Awaiting
    <2>1. CASE Send
      BY <2>1 DEF Counted, Send
    <2>2. CASE SendFails
      BY <2>2 DEF Counted, SendFails, EndWith
    <2>3. CASE RedirectPanics
      BY <2>3 DEF Counted, RedirectPanics
    <2>4. CASE RedirectRefused
      <3>1. Incremented(redirects) = redirects + 1
        BY <2>4, Increment DEF Counted, RedirectRefused
      <3> QED
        BY <2>4, <3>1 DEF Counted, RedirectRefused, EndWith
    <2>5. ASSUME NEW loc \in Locations, RedirectTaken(loc) PROVE Counted'
      <3>1. Incremented(redirects) = redirects + 1
        BY <2>5, Increment DEF Counted, RedirectTaken
      <3>2. redirects' = redirects + 1 /\ redirects' <= budget
        BY <2>5, <3>1 DEF Counted, RedirectTaken, Exceeds
      <3>3. CASE loc = NoLocation
        BY <2>5, <3>2, <3>3 DEF Counted, RedirectTaken, EndWith
      <3>4. CASE loc # NoLocation
        BY <1>1, <2>5, <3>2, <3>4 DEF Counted, RedirectTaken
      <3> QED
        BY <3>3, <3>4
    <2>6. CASE RedirectInvalid
      BY <2>6 DEF Counted, RedirectInvalid, DrainBody, EndWith
    <2>7. CASE RedirectFollowed
      BY <1>1, <2>7, OneHop DEF Counted, RedirectFollowed, DrainBody
    <2>8. CASE RedirectHandedOver
      BY <1>1, <2>8, OneHop DEF Counted, RedirectHandedOver, DrainBody, EndWith
    <2>9. CASE ReadBody
      BY <2>9 DEF Counted, ReadBody, EndWith
    <2>10. CASE TimedOut
      BY <2>10 DEF Counted, TimedOut, EndWith
    <2>11. CASE AcquireReturns
      BY <1>1, <2>11 DEF Counted, AcquireReturns
    <2>12. CASE AcquireFails
      <3>1. PICK o \in {"ConnectionFailed", "Unreachable", "Timeout"} : AttemptEnds(o)
        BY <2>12 DEF AcquireFails
      <3>2. pc' = "done" \/ (pc' = "backoff" /\ outcome' # "Redirect")
        BY <3>1, AfterAttempt
      <3> QED
        BY <2>12, <3>2 DEF Counted, AcquireFails
    <2>13. CASE finish_connection
      <3>1. \/ pc' = "backoff" /\ outcome # "Redirect" /\ outcome' = outcome
            \/ pc' = "following" /\ outcome = "Redirect" /\ leg = 1
            \/ pc' = "done"
        BY <2>13, AfterAttempt DEF finish_connection
      <3> QED
        BY <2>13, <3>1 DEF Counted, finish_connection
    <2>14. CASE BackoffEnds
      <3>1. hops' \in [{1, 2} -> Nat] /\ hops'[leg] = 0
            /\ \A l \in {1, 2} : l # leg => hops'[l] = hops[l]
        BY <2>14 DEF Counted, BackoffEnds
      <3> QED
        BY <1>1, <2>14, <3>1 DEF Counted, BackoffEnds
    <2>15. CASE FollowCrossHost
      BY <1>1, <2>15 DEF Counted, FollowCrossHost
    <2>16. CASE CannotFollow
      BY <2>16 DEF Counted, CannotFollow
    <2>17. CASE Environment
      BY <2>17 DEF Counted, Environment, IdleCloses, OthersTake, retry
    <2>18. CASE UNCHANGED vars
      BY <2>18 DEF Counted, vars
    <2> QED
      BY <2>1, <2>2, <2>3, <2>4, <2>5, <2>6, <2>7, <2>8, <2>9, <2>10, <2>11, <2>12,
         <2>13, <2>14, <2>15, <2>16, <2>17, <2>18
      DEF Next, Exchange, Retrying, Terminated
  <1>4. Counted => HopsBounded
    BY DEF Counted, HopsBounded
  <1> QED
    BY <1>2, <1>3, <1>4, PTL DEF Spec

-----------------------------------------------------------------------------
\* When execute_request ends with an outcome that counts as usable, no part of the
\* last response is left to be read.
ReadThrough ==
    /\ leg \in {1, 2}
    /\ returned \in [{1, 2} -> {"none", "removed", "clean", "closed", "broken"}]
    /\ pc = "ended" /\ Usable(outcome) => wire \in {"clean", "closed", "broken"}

\* finish_connection never puts back a connection in the middle of a response, whatever
\* the server does (orchestrator.rs:309, 519-524): each outcome that leaves a response
\* half read, a redirect without a Location, one too many, a timeout, is one that it
\* treats as dead.
THEOREM NothingLeftUnread == Spec => []NoLeftovers
  <1>1. Init => ReadThrough
    BY DEF Init, ReadThrough, Legs
  <1>2. ReadThrough /\ [Next]_vars => ReadThrough'
    <2> SUFFICES ASSUME ReadThrough, [Next]_vars PROVE ReadThrough'
      OBVIOUS
    <2> USE DEF ReadThrough, Usable
    <2>1. CASE Send \/ SendFails \/ RedirectPanics \/ RedirectRefused
      BY <2>1 DEF Send, SendFails, RedirectPanics, RedirectRefused, EndWith
    <2>2. ASSUME NEW loc \in Locations, RedirectTaken(loc) PROVE ReadThrough'
      <3>1. CASE loc = NoLocation
        BY <2>2, <3>1 DEF RedirectTaken, EndWith
      <3>2. CASE loc # NoLocation
        BY <2>2, <3>2 DEF RedirectTaken
      <3> QED
        BY <3>1, <3>2
    <2>3. CASE RedirectInvalid \/ RedirectFollowed \/ RedirectHandedOver
      BY <2>3 DEF RedirectInvalid, RedirectFollowed, RedirectHandedOver, DrainBody, EndWith,
                  BodyRead
    <2>4. CASE ReadBody \/ TimedOut
      BY <2>4 DEF ReadBody, TimedOut, EndWith, BodyRead
    <2>5. CASE AcquireReturns \/ BackoffEnds \/ FollowCrossHost \/ CannotFollow
      BY <2>5 DEF AcquireReturns, BackoffEnds, FollowCrossHost, CannotFollow
    <2>6. CASE AcquireFails
      <3>1. pc' # "ended"
        BY <2>6, AfterAttempt DEF AcquireFails
      <3> QED
        BY <2>6, <3>1 DEF AcquireFails
    <2>7. CASE finish_connection
      <3>1. pc' # "ended" /\ leg' = leg
        BY <2>7, AfterAttempt DEF finish_connection
      <3>2. returned' \in [{1, 2} -> {"none", "removed", "clean", "closed", "broken"}]
        BY <2>7 DEF finish_connection
      <3> QED
        BY <3>1, <3>2
    <2>8. CASE Environment
      BY <2>8 DEF Environment, IdleCloses, OthersTake
    <2>9. CASE UNCHANGED vars
      BY <2>9 DEF vars
    <2> QED
      BY <2>1, <2>2, <2>3, <2>4, <2>5, <2>6, <2>7, <2>8, <2>9
      DEF Next, Exchange, Retrying, Terminated
  <1>3. ReadThrough => NoLeftovers
    BY DEF ReadThrough, NoLeftovers, Legs
  <1> QED
    BY <1>1, <1>2, <1>3, PTL DEF Spec

-----------------------------------------------------------------------------
\* While nothing but dead idle connections has failed, each attempt that failed has
\* used one of them up: those, and the ones that are left, are among the ones that
\* have died.
UsedUp ==
    /\ attempt \in Nat /\ host \in Hosts
    /\ stale \in [Hosts -> Nat] /\ died \in [Hosts -> Nat]
    /\ \A h \in Hosts : stale[h] <= died[h]
    /\ pc \in {"waiting", "draining"} => wire # "broken"
    /\ ~ faulty =>
         /\ pc = "acquire" => attempt + stale[host] <= died[host]
         /\ pc = "send" /\ wire = "broken" => attempt + 1 + stale[host] <= died[host]
         /\ pc = "backoff" => attempt + 1 + stale[host] <= died[host]
         /\ pc = "ended" =>
              /\ outcome \notin {"Unavailable", "Timeout"}
              /\ outcome = "ConnectionFailed" => attempt + 1 + stale[host] <= died[host]
         /\ pc = "done" /\ outcome = "ConnectionFailed" => MaxRetries < died[host]

\* A download does not end with ConnectionFailed because of dead idle connections alone
\* unless more of them have died than it has retries, on either host, however the other
\* downloads use the pool meanwhile: each attempt that meets one removes it
\* (orchestrator.rs:519-531), and ConnectionFailed is retried (retry.rs:6-16).
THEOREM StaleNeverFatal == Spec => []StaleSurvived
  <1> USE RetryAssumption
  <1>1. Init => UsedUp
    BY DEF Init, UsedUp
  <1>2. UsedUp /\ [Next]_vars => UsedUp'
    <2> SUFFICES ASSUME UsedUp, [Next]_vars PROVE UsedUp'
      OBVIOUS
    <2> USE DEF UsedUp, retry
    <2>1. CASE Send \/ SendFails
      BY <2>1 DEF Send, SendFails, EndWith, Usable
    <2>2. CASE RedirectPanics \/ RedirectRefused
      BY <2>2 DEF RedirectPanics, RedirectRefused, EndWith, Usable
    <2>3. ASSUME NEW loc \in Locations, RedirectTaken(loc) PROVE UsedUp'
      <3>1. CASE loc = NoLocation
        BY <2>3, <3>1 DEF RedirectTaken, EndWith
      <3>2. CASE loc # NoLocation
        BY <2>3, <3>2 DEF RedirectTaken
      <3> QED
        BY <3>1, <3>2
    <2>4. CASE RedirectInvalid
      BY <2>4 DEF RedirectInvalid, DrainBody, BodyRead, EndWith
    <2>5. CASE RedirectFollowed
      BY <2>5 DEF RedirectFollowed, DrainBody, BodyRead
    <2>6. CASE RedirectHandedOver
      BY <2>6 DEF RedirectHandedOver, DrainBody, BodyRead, EndWith
    <2>7. CASE ReadBody
      BY <2>7 DEF ReadBody, BodyRead, EndWith
    <2>8. CASE TimedOut
      BY <2>8 DEF TimedOut, EndWith
    <2>9. CASE AcquireReturns
      BY <2>9 DEF AcquireReturns
    <2>10. CASE AcquireFails
      <3>1. attempt' = attempt /\ faulty' /\ pc' \notin {"waiting", "draining"}
        BY <2>10, AfterAttempt DEF AcquireFails, AttemptEnds
      <3> QED
        BY <2>10, <3>1 DEF AcquireFails
    <2>11. CASE finish_connection
      <3>1. /\ attempt' = attempt
            /\ pc' \in {"backoff", "following", "done"}
            /\ UNCHANGED <<host, wire, faulty>>
        BY <2>11, AfterAttempt DEF finish_connection, AttemptEnds
      <3>2. /\ stale' \in [Hosts -> Nat] /\ died' \in [Hosts -> Nat]
            /\ \A h \in Hosts : stale'[h] <= died'[h]
            /\ outcome = "ConnectionFailed" => UNCHANGED <<stale, died>>
        <4>1. CASE Usable(outcome) /\ wire \in Dead
          BY <2>11, <4>1 DEF finish_connection, Usable
        <4>2. CASE ~ (Usable(outcome) /\ wire \in Dead)
          BY <2>11, <4>2 DEF finish_connection
        <4> QED
          BY <4>1, <4>2
      <3>3. ASSUME ~ faulty, pc' = "backoff"
            PROVE  outcome = "ConnectionFailed"
        BY <2>11, <3>3 DEF finish_connection, AttemptEnds, is_retryable
      <3>4. ASSUME ~ faulty, pc' = "done", outcome' = "ConnectionFailed"
            PROVE  MaxRetries < died[host]
        <4>1. outcome = "ConnectionFailed" /\ GivesUp(attempt)
          BY <2>11, <3>4 DEF finish_connection, AttemptEnds, is_retryable
        <4> QED
          BY <2>11, <3>4, <4>1 DEF finish_connection, GivesUp
      <3> QED
        BY <2>11, <3>1, <3>2, <3>3, <3>4 DEF finish_connection
    <2>12. CASE BackoffEnds
      BY <2>12 DEF BackoffEnds
    <2>13. CASE FollowCrossHost
      BY <2>13 DEF FollowCrossHost
    <2>14. CASE CannotFollow
      BY <2>14 DEF CannotFollow
    <2>15. ASSUME NEW h \in Hosts, IdleCloses(h) PROVE UsedUp'
      BY <2>15 DEF IdleCloses
    <2>16. ASSUME NEW h \in Hosts, OthersTake(h) PROVE UsedUp'
      BY <2>16 DEF OthersTake
    <2>17. CASE UNCHANGED vars
      BY <2>17 DEF vars
    <2> QED
      BY <2>1, <2>2, <2>3, <2>4, <2>5, <2>6, <2>7, <2>8, <2>9, <2>10, <2>11, <2>12,
         <2>13, <2>14, <2>15, <2>16, <2>17
      DEF Environment, Next, Exchange, Retrying, Terminated
  <1>3. UsedUp => StaleSurvived
    BY DEF UsedUp, StaleSurvived
  <1> QED
    BY <1>1, <1>2, <1>3, PTL DEF Spec

------------------------------------------------------------------------------
(* The delays *)

\* A power of two counts the subsets of a set, which gives it a type and an order:
\* the provers have no induction for it.
LEMMA Powers ==
    ASSUME NEW n \in Nat
    PROVE  /\ 2 ^ n \in Nat \ {0}
           /\ \A m \in Nat : m <= n => 2 ^ m <= 2 ^ n
  <1>1. ASSUME NEW m \in Nat
        PROVE  /\ IsFiniteSet(SUBSET (1 .. m)) /\ 2 ^ m = Cardinality(SUBSET (1 .. m))
               /\ 2 ^ m \in Nat
    <2>1. IsFiniteSet(1 .. m) /\ Cardinality(1 .. m) = m
      BY FS_Interval
    <2>2. IsFiniteSet(SUBSET (1 .. m)) /\ Cardinality(SUBSET (1 .. m)) = 2 ^ Cardinality(1 .. m)
      BY <2>1, FS_SUBSET
    <2> QED
      BY <2>1, <2>2, FS_CardinalityType
  <1>2. 2 ^ n # 0
    BY <1>1, FS_EmptySet
  <1>3. ASSUME NEW m \in Nat, m <= n PROVE 2 ^ m <= 2 ^ n
    <2>1. SUBSET (1 .. m) \in SUBSET SUBSET (1 .. n)
      BY <1>3
    <2>2. Cardinality(SUBSET (1 .. m)) <= Cardinality(SUBSET (1 .. n))
      BY <1>1, <2>1, FS_Subset
    <2> QED
      BY <1>1, <2>2
  <1> QED
    BY <1>1, <1>2, <1>3

\* u64::MAX and the number of its values.
LEMMA LargestU64 == MaxU64 \in Nat /\ MaxU64 + 1 = 2 ^ Bits
  <1>1. 2 ^ Bits \in Nat \ {0}
    BY Powers, RetryAssumption
  <1> QED
    BY <1>1 DEF MaxU64

LEMMA Products == \A a, b \in Nat : a * b \in Nat /\ (b > 0 => a <= a * b)
  OBVIOUS

\* saturating_add and saturating_mul stay in a u64.
LEMMA SaturatedType ==
    ASSUME NEW n \in Nat
    PROVE  Saturated(n) \in 0 .. MaxU64
  BY LargestU64 DEF Saturated

\* retry.rs:33-36: the base of a delay fits a u64.
LEMMA BaseType ==
    ASSUME NEW n \in Nat
    PROVE  Multiplier(n) \in Nat /\ base_ms(n) \in 0 .. MaxU64
  <1>1. 2 ^ n \in Nat /\ MaxU64 \in Nat
    BY Powers, LargestU64
  <1>2. Multiplier(n) \in Nat
    BY <1>1 DEF Multiplier
  <1>3. BaseDelay % (MaxU64 + 1) \in Nat
    BY <1>1, RetryAssumption
  <1>4. (BaseDelay % (MaxU64 + 1)) * Multiplier(n) \in Nat
    BY <1>2, <1>3, Products
  <1> QED
    BY <1>2, <1>4, SaturatedType DEF base_ms

\* A delay without a header is the base and at most half of it more.
LEMMA DelayType ==
    ASSUME NEW n \in Nat, NEW d \in compute_backoff(n, NoRetryAfter)
    PROVE  /\ d \in 0 .. MaxU64
           /\ \E j \in Nat : 2 * j <= base_ms(n) /\ d = Saturated(base_ms(n) + j)
  <1> DEFINE b == base_ms(n)
  <1>1. b \in 0 .. MaxU64 /\ MaxU64 \in Nat
    BY BaseType, LargestU64
  <1>2. d \in {Saturated(b + jitter) : jitter \in Jitters(b)}
    BY DEF compute_backoff
  <1> HIDE DEF b
  <1>3. PICK j \in Jitters(b) : d = Saturated(b + j)
    BY <1>2
  <1>4. j \in Nat /\ 2 * j <= b
    BY <1>1 DEF Jitters
  <1>5. b + j \in Nat
    BY <1>1, <1>4
  <1> QED
    BY <1>3, <1>4, <1>5, SaturatedType DEF b

\* What retry.rs:20 says of a delay d before the retry after attempt n.
Doubled(d, n) ==
    LET ideal == BaseDelay * 2 ^ n IN
      IF d < MaxU64 THEN ideal <= d /\ 2 * d <= 3 * ideal
                    ELSE 2 * MaxU64 <= 3 * ideal

\* Delays that are drawn as retry.rs:33-45 draws them are as its comment says.
LEMMA DelayDoubles ==
    ASSUME BaseDelay <= MaxU64, NEW n \in Nat, NEW d \in compute_backoff(n, NoRetryAfter)
    PROVE  Doubled(d, n)
  <1> DEFINE M == MaxU64
             p == 2 ^ n
             ideal == BaseDelay * p
             b == base_ms(n)
  <1>1. /\ M \in Nat /\ p \in Nat \ {0} /\ BaseDelay \in Nat
        /\ ideal \in Nat /\ BaseDelay <= ideal
    BY LargestU64, Powers, Products, RetryAssumption
  <1>2. b = Saturated(BaseDelay * Multiplier(n))
    <2>1. BaseDelay % (M + 1) = BaseDelay
      BY <1>1
    <2> QED
      BY <2>1 DEF base_ms
  <1>3. PICK j \in Nat : 2 * j <= b /\ d = Saturated(b + j)
    BY DelayType
  <1>4. b = IF ideal > M THEN M ELSE ideal
    <2>1. CASE n < Bits
      BY <1>2, <2>1 DEF Multiplier, Saturated
    <2>2. CASE ~ (n < Bits)
      <3>1. M + 1 <= p
        BY <2>2, LargestU64, Powers, RetryAssumption
      <3>2. b = Saturated(BaseDelay * M)
        BY <1>2, <2>2 DEF Multiplier
      <3>3. CASE BaseDelay = 0
        BY <1>1, <3>2, <3>3 DEF Saturated
      <3>4. CASE BaseDelay # 0
        <4>1. M <= BaseDelay * M /\ p <= BaseDelay * p /\ BaseDelay * M \in Nat
          BY <1>1, <3>4, Products
        <4>2. ideal > M
          BY <1>1, <3>1, <4>1
        <4> QED
          BY <1>1, <3>2, <4>1, <4>2 DEF Saturated
      <3> QED
        BY <3>3, <3>4
    <2> QED
      BY <2>1, <2>2
  <1> HIDE DEF M, p, ideal, b
  <1>5. d = IF b + j > M THEN M ELSE b + j
    BY <1>3 DEF Saturated, M
  <1>6. IF d < M THEN ideal <= d /\ 2 * d <= 3 * ideal ELSE 2 * M <= 3 * ideal
    BY <1>1, <1>3, <1>4, <1>5
  <1> QED
    BY <1>6 DEF Doubled, M, ideal, p

------------------------------------------------------------------------------
(* The types *)

\* What the types need: a connection that is in use is not among the closed idle
\* ones, a redirect that is being drained is within the budget, a pause comes before
\* a retry that is allowed.  And where the delay of a pause comes from.
Paused ==
    \/ outcome = "Unavailable" /\ delay \in RetryAfters
    \/ delay \in compute_backoff(attempt, NoRetryAfter)
InRange ==
    /\ TypeOK
    /\ pc \in Awaiting \cup {"ended"} => stale[host] < Limit
    /\ pc = "draining" => redirects <= budget
    /\ pc = "backoff" => attempt < MaxRetries /\ Paused

\* retry.rs:66-91: a pause is taken before a retry that is allowed, and is one that
\* was asked for or one of compute_backoff.
LEMMA AttemptEnded ==
    ASSUME InRange, NEW o \in Outcomes, AttemptEnds(o)
    PROVE  /\ attempt' = attempt /\ outcome' \in Outcomes
           /\ delay' \in RetryAfters \cup 0 .. MaxU64
           /\ pc' \in {"backoff", "following", "done"}
           /\ pc' = "backoff" => attempt < MaxRetries /\ Paused'
  <1>1. attempt \in Nat /\ attempt <= MaxRetries /\ delay \in RetryAfters \cup 0 .. MaxU64
    BY RetryAssumption DEF InRange, TypeOK
  <1>2. CASE is_retryable(o) /\ ~ GivesUp(attempt)
    <2>1. /\ attempt' = attempt /\ pc' = "backoff" /\ outcome' = o
          /\ \E ra \in parse_retry_after(o) : delay' \in compute_backoff(attempt, ra)
      BY <1>2 DEF AttemptEnds
    <2>2. PICK ra \in parse_retry_after(o) : delay' \in compute_backoff(attempt, ra)
      BY <2>1
    <2>3. attempt < MaxRetries
      BY <1>1, <1>2, RetryAssumption DEF GivesUp
    <2>4. CASE ra = NoRetryAfter
      <3>1. delay' \in 0 .. MaxU64
        BY <1>1, <2>2, <2>4, DelayType
      <3>2. compute_backoff(attempt, NoRetryAfter)' = compute_backoff(attempt, NoRetryAfter)
        BY <2>1 DEF compute_backoff, base_ms, Multiplier
      <3> QED
        BY <2>1, <2>2, <2>3, <2>4, <3>1, <3>2 DEF Paused
    <2>5. CASE ra # NoRetryAfter
      <3>1. o = "Unavailable" /\ ra \in RetryAfters /\ delay' = ra
        BY <2>2, <2>5 DEF parse_retry_after, compute_backoff
      <3> QED
        BY <2>1, <2>3, <3>1 DEF Paused
    <2> QED
      BY <2>4, <2>5
  <1>3. CASE ~ (is_retryable(o) /\ ~ GivesUp(attempt))
    BY <1>1, <1>3 DEF AttemptEnds, Outcomes
  <1> QED
    BY <1>2, <1>3

\* Every step keeps the types.
LEMMA InRangeStep == InRange /\ [Next]_vars => InRange'
  <1> SUFFICES ASSUME InRange, [Next]_vars PROVE InRange'
    OBVIOUS
  <1> USE DEF Awaiting
  <1>0. /\ TypeOK /\ MaxRetries \in Nat /\ MaxU8 \in Nat /\ Limit \in Nat \ {0}
        /\ leg \in {1, 2} /\ hops \in [{1, 2} -> Nat]
    BY U8Assumption, RetryAssumption DEF InRange, TypeOK, Legs
  <1>1. CASE Send \/ SendFails
    BY <1>1 DEF InRange, TypeOK, Send, SendFails, EndWith, retry, Wires, Outcomes
  <1>2. CASE RedirectPanics
    BY <1>2 DEF InRange, TypeOK, RedirectPanics, retry
  <1>i. redirects \in 0 .. MaxU8 => Incremented(redirects) \in 0 .. MaxU8
    BY <1>0 DEF Incremented
  <1>3. CASE RedirectRefused
    BY <1>i, <1>3 DEF InRange, TypeOK, RedirectRefused, EndWith, retry, U8, Outcomes
  <1>4. ASSUME NEW loc \in Locations, RedirectTaken(loc) PROVE InRange'
    <2>1. redirects' = Incremented(redirects) /\ redirects' \in U8 /\ redirects' <= budget
      BY <1>0, <1>i, <1>4 DEF InRange, TypeOK, RedirectTaken, Exceeds, U8
    <2>2. CASE loc = NoLocation
      BY <1>4, <2>1, <2>2 DEF InRange, TypeOK, RedirectTaken, EndWith, retry, Outcomes
    <2>3. CASE loc # NoLocation
      BY <1>4, <2>1, <2>3 DEF InRange, TypeOK, RedirectTaken, retry
    <2> QED
      BY <2>2, <2>3
  <1>d. DrainBody => wire' \in Wires /\ (faulty \in BOOLEAN => faulty' \in BOOLEAN)
                     /\ UNCHANGED <<leg, attempt, delay, host, location, stale, returned, died>>
                     /\ pc = "draining"
    BY DEF DrainBody, BodyRead, Wires, retry
  <1>5. CASE RedirectInvalid
    BY <1>d, <1>5 DEF InRange, TypeOK, RedirectInvalid, EndWith, Outcomes
  <1>h. Hop => hops' \in [{1, 2} -> Nat]
    BY <1>0, OneHop
  <1>6. CASE RedirectFollowed
    BY <1>d, <1>h, <1>6 DEF InRange, TypeOK, RedirectFollowed, Legs
  <1>7. CASE RedirectHandedOver
    <2>1. budget' \in U8 /\ redirects' \in U8
      BY <1>0, <1>d, <1>7 DEF InRange, TypeOK, RedirectHandedOver, U8
    <2> QED
      BY <1>d, <1>h, <1>7, <2>1 DEF InRange, TypeOK, RedirectHandedOver, EndWith, Legs, Outcomes
  <1>8. CASE ReadBody \/ TimedOut
    BY <1>8 DEF InRange, TypeOK, ReadBody, BodyRead, TimedOut, EndWith, retry, Wires, Outcomes
  <1>9. CASE AcquireReturns
    <2>1. stale' \in [Hosts -> 0 .. Limit] /\ stale'[host] < Limit /\ wire' \in Wires
      BY <1>0, <1>9 DEF TypeOK, AcquireReturns, Wires
    <2> QED
      BY <1>9, <2>1 DEF InRange, TypeOK, AcquireReturns, retry
  <1>10. CASE AcquireFails
    <2>1. PICK o \in Outcomes : AttemptEnds(o)
      BY <1>10 DEF AcquireFails, Outcomes
    <2>2. /\ attempt' = attempt /\ outcome' \in Outcomes
          /\ delay' \in RetryAfters \cup 0 .. MaxU64
          /\ pc' \in {"backoff", "following", "done"}
          /\ pc' = "backoff" => attempt < MaxRetries /\ Paused'
      BY <2>1, AttemptEnded
    <2> QED
      BY <1>10, <2>2 DEF InRange, TypeOK, AcquireFails
  <1>11. CASE finish_connection
    <2>1. /\ attempt' = attempt /\ outcome' \in Outcomes
          /\ delay' \in RetryAfters \cup 0 .. MaxU64
          /\ pc' \in {"backoff", "following", "done"}
          /\ pc' = "backoff" => attempt < MaxRetries /\ Paused'
      BY <1>11, AttemptEnded DEF finish_connection, InRange, TypeOK
    <2>2. /\ stale' \in [Hosts -> 0 .. Limit] /\ died' \in [Hosts -> Nat]
          /\ returned' \in [Legs -> Wires \cup {"none", "removed"}]
      BY <1>0, <1>11 DEF finish_connection, InRange, TypeOK, Legs
    <2> QED
      BY <1>11, <2>1, <2>2 DEF InRange, TypeOK, finish_connection
  <1>12. CASE BackoffEnds
    <2>1. attempt' \in 0 .. MaxRetries /\ delay' \in 0 .. MaxU64 /\ redirects' \in U8
          /\ hops' \in [Legs -> Nat]
      BY <1>0, <1>12, LargestU64 DEF BackoffEnds, InRange, TypeOK, U8, Legs
    <2> QED
      BY <1>12, <2>1 DEF InRange, TypeOK, BackoffEnds
  <1>13. CASE FollowCrossHost
    <2>1. attempt' \in 0 .. MaxRetries /\ leg' \in Legs
      BY <1>0, <1>13 DEF FollowCrossHost, Legs
    <2> QED
      BY <1>13, <2>1 DEF InRange, TypeOK, FollowCrossHost
  <1>14. CASE CannotFollow
    BY <1>14 DEF InRange, TypeOK, CannotFollow, retry, Outcomes
  <1>15. CASE Environment
    <2>1. PICK h \in Hosts : IdleCloses(h) \/ OthersTake(h)
      BY <1>15 DEF Environment
    <2>2. /\ UNCHANGED <<pc, leg, attempt, delay, host, budget, redirects, location, wire,
                         outcome, returned, hops, faulty>>
          /\ Paused' = Paused
      BY <2>1 DEF IdleCloses, OthersTake, retry, Paused, compute_backoff, base_ms, Multiplier
    <2>3. stale' \in [Hosts -> 0 .. Limit] /\ died' \in [Hosts -> Nat]
      BY <1>0, <2>1 DEF IdleCloses, OthersTake, TypeOK, Held
    <2>4. pc \in Awaiting \cup {"ended"} => stale'[host] < Limit
      BY <1>0, <2>1 DEF IdleCloses, OthersTake, InRange, TypeOK, Held
    <2> QED
      BY <2>2, <2>3, <2>4 DEF InRange, TypeOK
  <1>16. CASE UNCHANGED vars
    <2>1. compute_backoff(attempt, NoRetryAfter)' = compute_backoff(attempt, NoRetryAfter)
      BY <1>16 DEF vars, retry, compute_backoff, base_ms, Multiplier
    <2> QED
      BY <1>16, <2>1 DEF InRange, TypeOK, Paused, vars, retry
  <1> QED
    BY <1>1, <1>2, <1>3, <1>4, <1>5, <1>6, <1>7, <1>8, <1>9, <1>10, <1>11, <1>12,
       <1>13, <1>14, <1>15, <1>16
    DEF Next, Exchange, Retrying, Terminated

LEMMA InRangeAlways == Spec => []InRange
  <1>1. Init => InRange
    <2>1. /\ 0 \in RetryAfters \cup 0 .. MaxU64 /\ 0 \in 0 .. MaxRetries
          /\ 0 \in U8 /\ MaxRedirects \in U8
      BY LargestU64, RetryAssumption, U8Assumption DEF U8
    <2>2. /\ [l \in Legs |-> "none"] \in [Legs -> Wires \cup {"none", "removed"}]
          /\ [l \in Legs |-> 0] \in [Legs -> Nat]
      OBVIOUS
    <2>3. "Timeout" \in Outcomes /\ "clean" \in Wires /\ NoLocation \in Locations /\ 1 \in Legs
      BY DEF Outcomes, Wires, Locations, Legs
    <2>4. stale \in [Hosts -> 0 .. Limit] => stale \in [Hosts -> Nat]
      BY RetryAssumption
    <2>5. Init => TypeOK
      BY <2>1, <2>2, <2>3, <2>4 DEF Init, TypeOK
    <2> QED
      BY <2>5 DEF Init, InRange, Awaiting
  <1> QED
    BY <1>1, InRangeStep, PTL DEF Spec

\* The counters of a request stay within their widths, in builds that check for
\* overflow and in those that wrap: the budget that is left for another host is no
\* negative number (transport.rs:178).
THEOREM TransportTyped == Spec => []TypeOK
  <1>1. InRange => TypeOK
    BY DEF InRange
  <1> QED
    BY <1>1, InRangeAlways, PTL

\* The delay before a retry is base_delay * 2^attempt and at most half of it more
\* (retry.rs:20-45), for any number of retries and any width of a u64: no shift and no
\* product wraps, a delay that does not fit stays at the largest one.  The base delay
\* itself must fit, since it is cast (retry.rs:33).
THEOREM DelaysDouble ==
    ASSUME BaseDelay <= MaxU64
    PROVE  Spec => []BackoffDoubles
  <1>1. ASSUME InRange PROVE BackoffDoubles
    <2>1. attempt \in Nat
      BY <1>1, RetryAssumption DEF InRange, TypeOK
    <2>2. pc = "backoff" /\ ~ (outcome = "Unavailable" /\ delay \in RetryAfters) =>
            Doubled(delay, attempt)
      BY <1>1, <2>1, DelayDoubles DEF InRange, Paused
    <2> QED
      BY <2>2 DEF BackoffDoubles, Doubled
  <1>2. InRange => BackoffDoubles
    BY <1>1
  <1> QED
    BY <1>2, InRangeAlways, PTL

=============================================================================
