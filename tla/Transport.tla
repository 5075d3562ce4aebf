------------------------------ MODULE Transport ------------------------------
(***************************************************************************)
(* The requests of one download over HTTP/1.1: execute_request with its    *)
(* redirect loop (transport.rs), the hand-back of the connection           *)
(* (finish_connection of orchestrator.rs), the loop of with_retry around   *)
(* both (retry.rs), and after a redirect to another host the same once     *)
(* more (follow_cross_host_redirect).                                      *)
(*                                                                         *)
(* The server is external: it answers any request with anything, stops in  *)
(* the middle of a body, closes the connection behind a response, or says  *)
(* nothing.  A step is what happens up to the next await; request_timeout  *)
(* may end the call at each of them.  Of the pool, which other downloads   *)
(* share, it is shown how many idle connections the server has closed:     *)
(* others may become closed, or be met by another download, at any time.   *)
(***************************************************************************)
EXTENDS Integers

CONSTANTS
    Hosts,
    NoHost,           \* a Location without a host
    NoLocation,       \* a redirect without a readable Location header
    Unresolvable,     \* a Location that resolve_redirect rejects
    MaxRedirects,     \* config.max_redirects, a u8
    MaxRetries,       \* config.max_retries
    BaseDelay,        \* config.retry_base_delay, in milliseconds
    RetryAfters,      \* the delays a server may ask for
    NoRetryAfter,     \* ... and that it asks for none
    Limit,            \* config.connections_per_host
    OverflowChecks,   \* debug builds panic on overflow, release builds wrap
    MaxU8,            \* BOUND: the largest u8, 255 in the code
    Bits,             \* BOUND: the bits of a u64
    MaxHops,          \* BOUND: the history variable hops counts to here
    MaxDeaths         \* BOUND: up to so many connections of a host die while idle

U8 == 0 .. MaxU8
MaxU64 == 2 ^ Bits - 1

ASSUME U8Assumption == MaxU8 \in Nat /\ MaxRedirects \in U8 /\ MaxHops \in Nat
                       /\ MaxDeaths \in Nat
ASSUME RetryAssumption ==
    /\ MaxRetries \in Nat /\ BaseDelay \in Nat /\ Limit \in Nat \ {0} /\ Bits \in Nat
    /\ RetryAfters \subseteq Nat /\ NoRetryAfter \notin Nat
ASSUME BuildAssumption == OverflowChecks \in BOOLEAN
ASSUME LocationAssumption ==
    Hosts \cap {NoHost, NoLocation, Unresolvable} = {} /\ NoHost # Unresolvable

VARIABLES
    pc,         \* where the download is
    leg,        \* 1, or 2 after a redirect to another host
    attempt,    \* of the running with_retry
    delay,      \* that it sleeps, 0 when it does not
    host,       \* the host of the leg
    budget,     \* max_redirects of the leg: redirects_remaining on the second
    redirects,  \* the counter of execute_with_redirects
    location,   \* where the last redirect leads
    wire,       \* the connection: between two responses, inside one, ended by the
                \* server behind a complete response, or broken
    stale,      \* how many idle connections of a host in the pool are dead
    outcome,    \* what the attempt ended with
    returned,   \* what finish_connection did with the last connection of each leg
    hops,       \* history: the redirects followed in the last attempt of each leg
    died,       \* history: how many connections of a host have been dead and idle
    faulty      \* history: something else than a dead idle connection failed

retry == <<attempt, delay>>
vars == <<pc, leg, retry, host, budget, redirects, location, wire, stale, outcome,
          returned, hops, died, faulty>>

Locations == Hosts \cup {NoHost, NoLocation, Unresolvable}

\* "Unavailable" are the statuses 429 and 503, "Unreachable" a name that is not
\* resolved or a TLS handshake that fails.
Outcomes == {"Response", "Redirect", "HttpStatus", "Unavailable", "ConnectionFailed",
             "Unreachable", "Timeout", "TooManyRedirects"}
Wires == {"clean", "unread", "closed", "broken"}
Dead == {"closed", "broken"}   \* nothing can be sent over it
Legs == {1, 2}

\* The places of execute_with_redirects at which it awaits.
Awaiting == {"send", "waiting", "draining"}

TypeOK ==
    /\ pc \in Awaiting \cup {"acquire", "ended", "backoff", "following", "done", "panicked"}
    /\ leg \in Legs
    /\ attempt \in 0 .. MaxRetries
    /\ delay \in RetryAfters \cup 0 .. MaxU64
    /\ host \in Hosts
    /\ budget \in U8 /\ redirects \in U8
    /\ location \in Locations
    /\ wire \in Wires
    /\ stale \in [Hosts -> 0 .. Limit]
    /\ outcome \in Outcomes
    /\ returned \in [Legs -> Wires \cup {"none", "removed"}]
    /\ hops \in [Legs -> Nat]
    /\ died \in [Hosts -> Nat]
    /\ faulty \in BOOLEAN

Init ==
    /\ pc = "acquire"
    /\ leg = 1
    /\ attempt = 0
    /\ delay = 0
    /\ host \in Hosts
    /\ budget = MaxRedirects
    /\ redirects = 0
    /\ location = NoLocation
    /\ wire = "clean"
    /\ stale \in [Hosts -> 0 .. Limit]
    /\ outcome = "Timeout"
    /\ returned = [l \in Legs |-> "none"]
    /\ hops = [l \in Legs |-> 0]
    /\ died = stale
    /\ faulty = FALSE

Hop == hops' = [hops EXCEPT ![leg] = IF @ < MaxHops THEN @ + 1 ELSE @]

EndWith(o) == pc' = "ended" /\ outcome' = o

-----------------------------------------------------------------------------
(* with_retry and compute_backoff *)

\* 1u64.checked_shl(attempt).unwrap_or(u64::MAX)
Multiplier(n) == IF n < Bits THEN 2 ^ n ELSE MaxU64

Wrapped(n) == n % (MaxU64 + 1)   \* a mistake: wrapping arithmetic
Saturated(n) == IF n > MaxU64 THEN MaxU64 ELSE n

base_ms(n) == Saturated((BaseDelay % (MaxU64 + 1)) * Multiplier(n))

\* The seed is the clock: any number below half the delay.
Jitters(ms) == IF ms \div 2 > 0 THEN 0 .. (ms \div 2) - 1 ELSE {0}

\* The delays compute_backoff may return.
compute_backoff(n, retry_after) ==
    IF retry_after # NoRetryAfter
    THEN {retry_after}
    ELSE {Saturated(base_ms(n) + jitter) : jitter \in Jitters(base_ms(n))}

\* The header of a status, if it is a number of seconds; other errors have none.
parse_retry_after(o) ==
    {NoRetryAfter} \cup IF o = "Unavailable" THEN RetryAfters ELSE {}

is_retryable(o) == o \in {"Unavailable", "Timeout", "ConnectionFailed"}

GivesUpEarly(n) == n + 1 >= MaxRetries   \* a mistake: the first attempt counted
GivesUp(n) == n >= MaxRetries

\* An attempt ended with o: with_retry returns it, or sleeps.
AttemptEnds(o) ==
    /\ UNCHANGED attempt
    /\ \/ /\ is_retryable(o) /\ ~ GivesUp(attempt)
          /\ \E ra \in parse_retry_after(o) : delay' \in compute_backoff(attempt, ra)
          /\ pc' = "backoff"
          /\ outcome' = o
       \/ /\ ~ (is_retryable(o) /\ ~ GivesUp(attempt))
          /\ UNCHANGED delay
          /\ IF o = "Redirect" /\ leg = 1
             THEN pc' = "following" /\ outcome' = o
             ELSE pc' = "done" /\ outcome' = IF o = "Redirect" THEN "TooManyRedirects" ELSE o

\* The next attempt starts from the leg's own URL.
BackoffEnds ==
    /\ pc = "backoff"
    /\ pc' = "acquire"
    /\ attempt' = attempt + 1
    /\ delay' = 0
    /\ redirects' = 0
    /\ hops' = [hops EXCEPT ![leg] = 0]
    /\ UNCHANGED <<leg, host, budget, location, wire, stale, outcome, returned, died, faulty>>

\* The pool hands out an idle connection without looking at it, or a new one.
AcquireReturns ==
    /\ pc = "acquire"
    /\ \/ stale[host] > 0 /\ wire' = "broken" /\ stale' = [stale EXCEPT ![host] = @ - 1]
       \/ stale[host] < Limit /\ wire' = "clean" /\ UNCHANGED stale
    /\ pc' = "send"
    /\ UNCHANGED <<leg, retry, host, budget, redirects, location, outcome, returned, hops,
                   died, faulty>>

\* acquire opens a connection in vain, or waits in vain.
AcquireFails ==
    /\ pc = "acquire"
    /\ \E o \in {"ConnectionFailed", "Unreachable", "Timeout"} : AttemptEnds(o)
    /\ faulty' = TRUE
    /\ UNCHANGED <<leg, host, budget, redirects, location, wire, stale, returned, hops, died>>

\* The connections of a host that this download holds.
Held(h) == IF host = h /\ pc \in Awaiting \cup {"ended"} THEN 1 ELSE 0

\* The server closes an idle connection of the pool, or another download puts back
\* one that is dead.
IdleCloses(h) ==
    /\ pc \notin {"done", "panicked"}
    /\ stale[h] + Held(h) < Limit
    /\ died[h] < MaxDeaths
    /\ stale' = [stale EXCEPT ![h] = @ + 1]
    /\ died' = [died EXCEPT ![h] = @ + 1]
    /\ UNCHANGED <<pc, leg, retry, host, budget, redirects, location, wire, outcome, returned,
                   hops, faulty>>

\* Another download is handed a dead connection, and removes it.
OthersTake(h) ==
    /\ pc \notin {"done", "panicked"}
    /\ stale[h] > 0
    /\ stale' = [stale EXCEPT ![h] = @ - 1]
    /\ UNCHANGED <<pc, leg, retry, host, budget, redirects, location, wire, outcome, returned,
                   hops, died, faulty>>

-----------------------------------------------------------------------------
(* execute_with_redirects *)

\* The request is out.
Send ==
    /\ pc = "send"
    /\ wire = "clean"
    /\ wire' = "unread"
    /\ pc' = "waiting"
    /\ UNCHANGED <<leg, retry, host, budget, redirects, location, stale, outcome, returned,
                   hops, died, faulty>>

\* The sender is not ready, or the connection ends before the response's head.
SendFails ==
    /\ pc \in {"send", "waiting"}
    /\ wire' = "broken"
    /\ EndWith("ConnectionFailed")
    /\ faulty' = (faulty \/ wire # "broken")
    /\ UNCHANGED <<leg, retry, host, budget, redirects, location, stale, returned, hops,
                   died>>

\* redirects += 1
NotCounted(n) == n   \* a mistake: the counter is not incremented
Incremented(n) == IF n = MaxU8 THEN 0 ELSE n + 1

NeverOverflows(n) == FALSE   \* a mistake: wrapping_add
Overflows(n) == n = MaxU8

ExceedsLate(n) == n > budget + 1   \* a mistake: off by one
Exceeds(n) == n > budget

\* A status of 301, 302, 307 or 308.
RedirectPanics ==
    /\ pc = "waiting"
    /\ OverflowChecks /\ Overflows(redirects)
    /\ pc' = "panicked"
    /\ UNCHANGED <<leg, retry, host, budget, redirects, location, wire, stale, outcome,
                   returned, hops, died, faulty>>

RedirectRefused ==
    /\ pc = "waiting"
    /\ ~ (OverflowChecks /\ Overflows(redirects))
    /\ redirects' = Incremented(redirects)
    /\ Exceeds(Incremented(redirects))
    /\ EndWith("TooManyRedirects")
    /\ UNCHANGED <<leg, retry, host, budget, location, wire, stale, returned, hops, died,
                   faulty>>

RedirectTaken(loc) ==
    /\ pc = "waiting"
    /\ ~ (OverflowChecks /\ Overflows(redirects))
    /\ redirects' = Incremented(redirects)
    /\ ~ Exceeds(Incremented(redirects))
    /\ location' = loc
    /\ IF loc = NoLocation
       THEN EndWith("ConnectionFailed") /\ faulty' = TRUE
       ELSE pc' = "draining" /\ UNCHANGED <<outcome, faulty>>
    /\ UNCHANGED <<leg, retry, host, budget, wire, stale, returned, hops, died>>

\* A body read to its end leaves the connection ready for the next request, unless
\* the server closes it then (Connection: close, or a body that ends with it).
BodyRead == wire' \in {"clean", "closed"}

\* The body of the redirect is read so that the connection stays usable; that it
\* cannot be read is ignored.
DrainBody ==
    /\ pc = "draining"
    /\ \/ BodyRead /\ faulty' = (faulty \/ location = Unresolvable)
       \/ wire' = "broken" /\ faulty' = TRUE
    /\ UNCHANGED <<leg, retry, host, location, stale, returned, died>>

RedirectInvalid ==
    /\ location = Unresolvable
    /\ DrainBody
    /\ EndWith("ConnectionFailed")
    /\ UNCHANGED <<budget, redirects, hops>>

RedirectFollowed ==
    /\ location = host
    /\ DrainBody
    /\ pc' = "send"
    /\ Hop
    /\ UNCHANGED <<budget, redirects, outcome>>

\* Another host, or none: the caller gets what is left of the budget.
RedirectHandedOver ==
    /\ location \notin {Unresolvable, host}
    /\ DrainBody
    /\ EndWith("Redirect")
    /\ budget' = budget - redirects
    /\ redirects' = 0
    /\ Hop

\* Any other status, a success or not, and its body.
ReadBody ==
    /\ pc = "waiting"
    /\ \/ /\ BodyRead
          /\ \E o \in {"Response", "HttpStatus", "Unavailable"} :
               EndWith(o) /\ faulty' = (faulty \/ o = "Unavailable")
       \/ wire' = "broken" /\ EndWith("ConnectionFailed") /\ faulty' = TRUE
    /\ UNCHANGED <<leg, retry, host, budget, redirects, location, stale, returned, hops, died>>

\* request_timeout elapses.
TimedOut ==
    /\ pc \in Awaiting
    /\ EndWith("Timeout")
    /\ faulty' = TRUE
    /\ UNCHANGED <<leg, retry, host, budget, redirects, location, wire, stale, returned, hops,
                   died>>

-----------------------------------------------------------------------------
(* The retry closure and follow_cross_host_redirect *)

\* An HTTP/1.1 sender is put back into its slot when the request was usable, and
\* its connection removed when it was not.
UsableUnlessFailed(o) == o # "ConnectionFailed"   \* a mistake: only that is dead
Usable(o) == o \in {"Response", "Redirect", "HttpStatus", "Unavailable"}

finish_connection ==
    /\ pc = "ended"
    /\ IF Usable(outcome)
       THEN /\ returned' = [returned EXCEPT ![leg] = wire]
            /\ IF wire \in Dead
               THEN /\ stale' = [stale EXCEPT ![host] = @ + 1]
                    /\ died' = [died EXCEPT ![host] = @ + 1]
               ELSE UNCHANGED <<stale, died>>
       ELSE returned' = [returned EXCEPT ![leg] = "removed"] /\ UNCHANGED <<stale, died>>
    /\ AttemptEnds(outcome)
    /\ UNCHANGED <<leg, host, budget, redirects, location, wire, hops, faulty>>

\* The second leg has the host of the redirect, and a retry loop of its own.
FollowCrossHost ==
    /\ pc = "following"
    /\ location \in Hosts
    /\ leg' = 2
    /\ host' = location
    /\ attempt' = 0
    /\ pc' = "acquire"
    /\ UNCHANGED <<delay, budget, redirects, location, wire, stale, outcome, returned, hops,
                   died, faulty>>

CannotFollow ==
    /\ pc = "following"
    /\ location \notin Hosts
    /\ outcome' = "TooManyRedirects"
    /\ pc' = "done"
    /\ UNCHANGED <<leg, retry, host, budget, redirects, location, wire, stale, returned, hops,
                   died, faulty>>

Terminated == pc \in {"done", "panicked"} /\ UNCHANGED vars

Exchange ==
    \/ Send \/ SendFails
    \/ RedirectPanics \/ RedirectRefused \/ \E loc \in Locations : RedirectTaken(loc)
    \/ RedirectInvalid \/ RedirectFollowed \/ RedirectHandedOver
    \/ ReadBody

Retrying ==
    \/ AcquireReturns \/ AcquireFails
    \/ finish_connection \/ BackoffEnds
    \/ FollowCrossHost \/ CannotFollow

Environment == \E h \in Hosts : IdleCloses(h) \/ OthersTake(h)

Next == Exchange \/ Retrying \/ TimedOut \/ Environment \/ Terminated

Spec == Init /\ [][Next]_vars

\* The server goes on answering and request_timeout may never elapse; acquire ends
\* (AcquireTerminates of ConnectionPool), and so does a sleep.
FairSpec == Spec /\ WF_vars(Exchange) /\ WF_vars(Retrying)

-----------------------------------------------------------------------------
(* Properties *)

\* A request follows at most max_redirects hops (transport.rs:65), those to another
\* host and those behind it included; a retry starts from the beginning of its leg.
HopsBounded == hops[1] + hops[2] <= MaxRedirects

\* A connection is put back only behind a response that was read to its end, or after
\* it broke: what is left of one response is never taken for the next one
\* (orchestrator.rs:309, 519-524).
NoLeftovers == \A l \in Legs : returned[l] # "unread"

\* finish_connection "returns usable connections to the pool; removes dead ones"
\* (orchestrator.rs:511).  The code does not keep it: a connection that the server closed
\* behind a complete response is returned, and so is one that broke in a drain.
ReturnedClean == \A l \in Legs : returned[l] \in {"none", "removed", "clean"}

\* "delay = base_delay * 2^attempt + random_jitter (0..50% of delay)" (retry.rs:20),
\* whatever the widths of the arithmetic, except that it stays at the end of a u64;
\* or what the server asked for.
BackoffDoubles ==
    pc = "backoff" =>
        \/ outcome = "Unavailable" /\ delay \in RetryAfters
        \/ LET ideal == BaseDelay * 2 ^ attempt IN
             IF delay < MaxU64 THEN ideal <= delay /\ 2 * delay <= 3 * ideal
                               ELSE 2 * MaxU64 <= 3 * ideal

\* Each attempt gets a connection of its own and removes it when it is dead
\* (retry.rs:52-54, pool.rs:234): as long as no more idle connections of the host have
\* died, before the download and while it ran, than it has retries, they alone do not
\* make it fail.
StaleSurvived ==
    pc = "done" /\ outcome = "ConnectionFailed" /\ died[host] <= MaxRetries => faulty

\* A server that redirects for ever is left, even if request_timeout is long, and a
\* request that fails every time is given up.
DownloadEnds == <>(pc \in {"done", "panicked"})
=============================================================================
