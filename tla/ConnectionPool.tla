--------------------------- MODULE ConnectionPool ---------------------------
(***************************************************************************)
(* The connection pool that all downloads share (pool.rs), together with   *)
(* the way a download uses it (the retry closure and finish_connection of  *)
(* orchestrator.rs).                                                       *)
(*                                                                         *)
(* Every section under the `host_pools` mutex is one action: the code does *)
(* not await inside it.  Between two such sections a task is parked at an  *)
(* await (opening a connection, waiting on the Notify, using its handle)   *)
(* and any other task may run.  A batch deadline drops the task at any of  *)
(* these awaits (Abort), and the pool outlives the batch.                  *)
(***************************************************************************)
EXTENDS Integers, FiniteSets

CONSTANTS
    Keys,                \* HostKey: the (host, port) pairs
    Tasks,               \* the download tasks of the running batches
    ConnectionsPerHost,  \* config.connections_per_host
    MaxAttempts,         \* MAX_ACQUIRE_ATTEMPTS (32 in the code)
    Negotiable,          \* Negotiable[k]: the protocols the server of k may negotiate
    Cancellation,        \* config.batch_timeout is set: tasks may be dropped
    MaxCalls             \* BOUND: calls of acquire() by one task

Protocols == {"Http2", "Http1"}

ASSUME KeysAssumption == IsFiniteSet(Tasks) /\ Negotiable \in [Keys -> SUBSET Protocols]
ASSUME LimitAssumption == ConnectionsPerHost \in Nat
ASSUME BoundAssumption == MaxAttempts \in Nat \ {0} /\ MaxCalls \in Nat
ASSUME CancellationAssumption == Cancellation \in BOOLEAN

VARIABLES
    pools,     \* host_pools: key -> HostPool, for the keys that have an entry
    pc,        \* where each task is in acquire() or in the use of its handle
    want,      \* the key the task asked for last
    attempts,  \* iterations of the acquire loop the running call has completed
    conn,      \* connection_id of the handle the task holds
    calls      \* calls of acquire() the task has made

taskVars == <<pc, want, attempts, conn, calls>>
vars == <<pools, taskVars>>

(***************************************************************************)
(* A pooled connection is its id and what its sender is: an H2 sender that *)
(* still answers or is closed, or an H1 slot that is Some (idle) or None   *)
(* (checked out).  Ids grow along the Vec, so the set of the connections   *)
(* keeps its order: the first one is the one with the least id.            *)
(***************************************************************************)
Senders == {"H2Live", "H2Dead", "H1Idle", "H1Out"}
PooledConnection == [id : Nat, sender : Senders]

\* `permit` is the one notification tokio's Notify stores when nobody waits.
HostPool == [protocol : Protocols,
             connections : SUBSET PooledConnection,
             permit : BOOLEAN,
             opening_count : Nat,
             next_id : Nat]

Opening == {"opening_first", "opening_more"}   \* in open_and_insert, by is_first
Waiting == {"wait", "parked", "woken", "orphaned"}
Acquiring == {"acquiring"} \cup Opening \cup Waiting
Holding == {"h1", "h2"}                        \* has a PoolHandle

TypeOK ==
    /\ DOMAIN pools \subseteq Keys
    /\ pools = [k \in DOMAIN pools |-> pools[k]]
    /\ \A k \in DOMAIN pools : pools[k] \in HostPool
    /\ pc \in [Tasks -> {"idle"} \cup Acquiring \cup Holding]
    /\ want \in [Tasks -> Keys]
    /\ attempts \in [Tasks -> Nat]
    /\ conn \in [Tasks -> Nat]
    /\ calls \in [Tasks -> Nat]

TotalCount(hp) == Cardinality(hp.connections) + hp.opening_count

\* The tasks at a place of the program, by key.
At(k, places) == {t \in Tasks : want[t] = k /\ pc[t] \in places}

Put(k, hp) == [x \in DOMAIN pools \cup {k} |-> IF x = k THEN hp ELSE pools[x]]
Remove(k) == [x \in DOMAIN pools \ {k} |-> pools[x]]

\* hp.notify.notify_one() with hp the new entry of k and p the new pc: wakes a
\* task that waits, any of them, or leaves a permit when there is none.
NotifyOne(k, hp, p) ==
    \/ \E w \in At(k, {"parked"}) :
         /\ pc' = [p EXCEPT ![w] = "woken"]
         /\ pools' = Put(k, hp)
    \/ /\ At(k, {"parked"}) = {}
       /\ pc' = p
       /\ pools' = Put(k, [hp EXCEPT !.permit = TRUE])

Init ==
    /\ pools = [k \in {} |-> {}]
    /\ pc = [t \in Tasks |-> "idle"]
    /\ want \in [Tasks -> Keys]
    /\ attempts = [t \in Tasks |-> 0]
    /\ conn = [t \in Tasks |-> 0]
    /\ calls = [t \in Tasks |-> 0]

-----------------------------------------------------------------------------
(* acquire(): the loop *)

\* The entry determine_action inserts: its one opener is the task that inserts it.
FirstEntry ==
    [protocol |-> "Http2", connections |-> {}, permit |-> FALSE,
     opening_count |-> 1, next_id |-> 0]

\* One evaluation of the retry closure calls acquire for a key.
Call(t, k) ==
    /\ pc[t] = "idle"
    /\ calls[t] < MaxCalls
    /\ pc' = [pc EXCEPT ![t] = "acquiring"]
    /\ want' = [want EXCEPT ![t] = k]
    /\ attempts' = [attempts EXCEPT ![t] = 0]
    /\ calls' = [calls EXCEPT ![t] = @ + 1]
    /\ UNCHANGED <<pools, conn>>

\* determine_action finds no entry: it inserts one, and the task opens first.
InsertEntry(t) ==
    /\ pc[t] = "acquiring"
    /\ want[t] \notin DOMAIN pools
    /\ pools' = Put(want[t], FirstEntry)
    /\ pc' = [pc EXCEPT ![t] = "opening_first"]
    /\ UNCHANGED <<want, attempts, conn, calls>>

\* h2_action drops the connections whose sender is closed; h1_action drops none.
Unpruned(hp) == hp   \* a mistake: closed connections stay and count
Pruned(hp) ==
    IF hp.protocol = "Http2"
    THEN [hp EXCEPT !.connections = {c \in @ : c.sender # "H2Dead"}]
    ELSE hp

\* The connections an acquire may return.  `full` are the H2 connections whose
\* poll_ready is pending: hyper may report it of any connection in use.
AvailableOut(hp, full) ==   \* a mistake: a slot that is checked out is returned
    IF hp.protocol = "Http2"
    THEN {c \in hp.connections : c.sender = "H2Live" /\ c.id \notin full}
    ELSE {c \in hp.connections : c.sender \in {"H1Idle", "H1Out"}}
Available(hp, full) ==
    IF hp.protocol = "Http2"
    THEN {c \in hp.connections : c.sender = "H2Live" /\ c.id \notin full}
    ELSE {c \in hp.connections : c.sender = "H1Idle"}

\* The entry with another sender in the place of that of c.
WithSender(hp, c, sender) ==
    [hp EXCEPT !.connections = (@ \ {c}) \cup {[c EXCEPT !.sender = sender]}]

InUse(k) == {conn[t] : t \in At(k, {"h2"})}

First(conns) == CHOOSE c \in conns : \A d \in conns : c.id <= d.id

ReturnExisting(t) ==
    LET k == want[t] IN
    /\ pc[t] = "acquiring"
    /\ k \in DOMAIN pools
    /\ \E full \in SUBSET InUse(k) :
         LET hp == Pruned(pools[k])
             c == First(Available(hp, full))
         IN  /\ Available(hp, full) # {}
             /\ conn' = [conn EXCEPT ![t] = c.id]
             /\ IF c.sender = "H2Live"
                THEN /\ pc' = [pc EXCEPT ![t] = "h2"]
                     /\ pools' = Put(k, hp)
                ELSE /\ pc' = [pc EXCEPT ![t] = "h1"]
                     /\ pools' = Put(k, WithSender(hp, c, "H1Out"))
    /\ UNCHANGED <<want, attempts, calls>>

BelowLimitOpen(hp) ==   \* a mistake: connections being opened are not counted
    Cardinality(hp.connections) < ConnectionsPerHost
BelowLimit(hp) == TotalCount(hp) < ConnectionsPerHost

\* scale_or_wait: nothing can be returned and the host is below its limit.
OpenNew(t) ==
    LET k == want[t] IN
    /\ pc[t] = "acquiring"
    /\ k \in DOMAIN pools
    /\ LET hp == Pruned(pools[k])
       IN  /\ \E full \in SUBSET InUse(k) : Available(hp, full) = {}
           /\ BelowLimit(hp)
           /\ pools' = Put(k, [hp EXCEPT !.opening_count = @ + 1])
    /\ pc' = [pc EXCEPT ![t] = "opening_more"]
    /\ UNCHANGED <<want, attempts, conn, calls>>

\* scale_or_wait at the limit: the task leaves the lock with the Notify.
Wait(t) ==
    LET k == want[t] IN
    /\ pc[t] = "acquiring"
    /\ k \in DOMAIN pools
    /\ LET hp == Pruned(pools[k])
       IN  /\ \E full \in SUBSET InUse(k) : Available(hp, full) = {}
           /\ ~ BelowLimit(hp)
           /\ pools' = Put(k, hp)
    /\ pc' = [pc EXCEPT ![t] = "wait"]
    /\ UNCHANGED <<want, attempts, conn, calls>>

\* The for loop goes round, or ends with "pool acquire timeout".
NextIterationUncounted(t) ==   \* a mistake: the loop does not count
    /\ pc' = [pc EXCEPT ![t] = "acquiring"]
    /\ UNCHANGED <<want, attempts, conn, calls>>
NextIteration(t) ==
    /\ attempts' = [attempts EXCEPT ![t] = @ + 1]
    /\ pc' = [pc EXCEPT ![t] = IF attempts[t] + 1 = MaxAttempts THEN "idle"
                                                                ELSE "acquiring"]
    /\ UNCHANGED <<want, conn, calls>>

\* First poll of notified(): a stored permit is taken, ...
TakePermit(t) ==
    /\ pc[t] = "wait"
    /\ pools[want[t]].permit
    /\ pools' = Put(want[t], [pools[want[t]] EXCEPT !.permit = FALSE])
    /\ NextIteration(t)

\* ... else the task is registered with the Notify.
Park(t) ==
    /\ pc[t] = "wait"
    /\ ~ pools[want[t]].permit
    /\ pc' = [pc EXCEPT ![t] = "parked"]
    /\ UNCHANGED <<pools, want, attempts, conn, calls>>

Wake(t) ==
    /\ pc[t] = "woken"
    /\ NextIteration(t)
    /\ UNCHANGED pools

\* NOTIFY_WAIT_TIMEOUT elapses.  An orphaned task holds the Notify of an entry
\* that was removed, on which nobody calls notify_one any more.
WaitTimeout(t) ==
    /\ pc[t] \in {"parked", "orphaned"}
    /\ NextIteration(t)
    /\ UNCHANGED pools

-----------------------------------------------------------------------------
(* open_and_insert() *)

UncountedTwice(hp) == [hp EXCEPT !.opening_count = @ - 2]   \* a mistake: as it says
Uncounted(hp) == [hp EXCEPT !.opening_count = @ - 1]

\* The protocol of an entry is the one its first opener negotiates.
ProtocolKept(hp, first, protocol) == hp.protocol   \* a mistake: it is never updated
ProtocolOf(hp, first, protocol) == IF first THEN protocol ELSE hp.protocol

\* open_connection returned a sender.  Nobody is notified: the other tasks that
\* wait for this host find an H2 connection when their wait times out.
OpenSucceeds(t, protocol) ==
    LET k == want[t]
        hp == Uncounted(pools[k])
    IN  /\ pc[t] \in Opening
        /\ protocol \in Negotiable[k]
        /\ IF k \notin DOMAIN pools
           THEN /\ pc' = [pc EXCEPT ![t] = "idle"]   \* "pool entry disappeared"
                /\ UNCHANGED <<pools, conn>>
           ELSE /\ pools' = Put(k,
                     [hp EXCEPT
                        !.protocol = ProtocolOf(hp, pc[t] = "opening_first", protocol),
                        !.next_id = @ + 1,
                        !.connections = @ \cup
                          {[id |-> hp.next_id,
                            sender |-> IF protocol = "Http2" THEN "H2Live"
                                                             ELSE "H1Out"]}])
                /\ conn' = [conn EXCEPT ![t] = hp.next_id]
                /\ pc' = [pc EXCEPT ![t] = IF protocol = "Http2" THEN "h2" ELSE "h1"]
        /\ UNCHANGED <<want, attempts, calls>>

\* Tasks that wait on the Notify of an entry hold on to it when the entry goes.
Orphan(k, p) ==
    [u \in Tasks |-> IF want[u] = k /\ p[u] \in Waiting THEN "orphaned" ELSE p[u]]

\* An entry without connections that nobody opens one for is removed.
UnusedByOpeners(hp) == hp.opening_count = 0       \* a mistake: connections are left out
UnusedByConnections(hp) == hp.connections = {}    \* a mistake: openers are left out
Unused(hp) == hp.connections = {} /\ hp.opening_count = 0

\* open_connection failed: DNS, TCP on every address, TLS or the HTTP handshake.
OpenFails(t) ==
    LET k == want[t]
        hp == Uncounted(pools[k])
        p == [pc EXCEPT ![t] = "idle"]
    IN  /\ pc[t] \in Opening
        /\ IF k \notin DOMAIN pools
           THEN pc' = p /\ UNCHANGED pools
           ELSE IF Unused(hp)
                THEN /\ pools' = Remove(k)
                     /\ pc' = Orphan(k, p)
                ELSE NotifyOne(k, hp, p)
        /\ UNCHANGED <<want, attempts, conn, calls>>

-----------------------------------------------------------------------------
(* finish_connection() *)

\* return_h1_connection: the sender goes back into the slot with its id.
ReturnH1(t) ==
    LET k == want[t]
        hp == pools[k]
        mine == {c \in hp.connections : c.id = conn[t] /\ c.sender \in {"H1Idle", "H1Out"}}
        p == [pc EXCEPT ![t] = "idle"]
    IN  /\ pc[t] = "h1"
        /\ IF k \in DOMAIN pools
           THEN NotifyOne(k, IF mine = {} THEN hp
                             ELSE WithSender(hp, First(mine), "H1Idle"), p)
           ELSE pc' = p /\ UNCHANGED pools
        /\ UNCHANGED <<want, attempts, conn, calls>>

\* connections.retain(|c| c.id != connection_id)
KeepAll(hp, id) == hp   \* a mistake: the dead connection stays
Retain(hp, id) == [hp EXCEPT !.connections = {c \in @ : c.id # id}]

\* remove_dead_connection: the request over the H1 connection did not complete.
RemoveDeadSilently(t) ==   \* a mistake: the tasks that wait are not told
    LET k == want[t] IN
    /\ pc[t] = "h1"
    /\ pools' = Put(k, Retain(pools[k], conn[t]))
    /\ pc' = [pc EXCEPT ![t] = "idle"]
    /\ UNCHANGED <<want, attempts, conn, calls>>
RemoveDead(t) ==
    LET k == want[t]
        p == [pc EXCEPT ![t] = "idle"]
    IN  /\ pc[t] = "h1"
        /\ IF k \in DOMAIN pools
           THEN NotifyOne(k, Retain(pools[k], conn[t]), p)
           ELSE pc' = p /\ UNCHANGED pools
        /\ UNCHANGED <<want, attempts, conn, calls>>

\* notify_h2_complete, whether the request succeeded or failed.
NotifyH2Complete(t) ==
    LET k == want[t]
        p == [pc EXCEPT ![t] = "idle"]
    IN  /\ pc[t] = "h2"
        /\ IF k \in DOMAIN pools
           THEN NotifyOne(k, pools[k], p)
           ELSE pc' = p /\ UNCHANGED pools
        /\ UNCHANGED <<want, attempts, conn, calls>>

-----------------------------------------------------------------------------
(* The environment *)

\* The server closes an H2 connection, which poll_ready reports from then on.
\* That an H1 connection is closed is visible nowhere in the pool.
CloseH2(k) ==
    /\ k \in DOMAIN pools
    /\ \E c \in pools[k].connections :
         /\ c.sender = "H2Live"
         /\ pools' = Put(k, WithSender(pools[k], c, "H2Dead"))
    /\ UNCHANGED taskVars

\* The batch deadline drops the JoinSet, and with it the task at its await.  A
\* dropped notified() that was woken passes its notification on.
Abort(t) ==
    LET p == [pc EXCEPT ![t] = "idle"] IN
    /\ Cancellation
    /\ pc[t] # "idle"
    /\ IF pc[t] = "woken"
       THEN NotifyOne(want[t], pools[want[t]], p)
       ELSE pc' = p /\ UNCHANGED pools
    /\ UNCHANGED <<want, attempts, conn, calls>>

Acquire(t) == InsertEntry(t) \/ ReturnExisting(t) \/ OpenNew(t) \/ Wait(t)
AfterWait(t) == TakePermit(t) \/ Park(t) \/ Wake(t) \/ WaitTimeout(t)
Opened(t) == OpenFails(t) \/ \E protocol \in Protocols : OpenSucceeds(t, protocol)
Finish(t) == ReturnH1(t) \/ RemoveDead(t) \/ NotifyH2Complete(t)

\* Every download has ended.
Finished ==
    /\ \A t \in Tasks : pc[t] = "idle" /\ calls[t] = MaxCalls
    /\ UNCHANGED vars

Next ==
    \/ \E t \in Tasks : \/ \E k \in Keys : Call(t, k)
                        \/ Acquire(t)
                        \/ AfterWait(t)
                        \/ Opened(t)
                        \/ Finish(t)
                        \/ Abort(t)
    \/ \E k \in Keys : CloseH2(k)
    \/ Finished

Spec == Init /\ [][Next]_vars

\* Each task runs: the mutex is fair, the timer fires, and an opening ends.  The
\* connect timeout bounds TCP only: that TLS and HTTP handshakes end is assumed
\* of the server.  How long a request holds its handle is not assumed.
Fairness ==
    \A t \in Tasks : /\ WF_vars(Acquire(t))
                     /\ WF_vars(AfterWait(t))
                     /\ WF_vars(Opened(t))

FairSpec == Spec /\ Fairness

-----------------------------------------------------------------------------
(* Properties *)

\* An HTTP/1.1 connection carries one request at a time (pool.rs:42-44, 305-318):
\* the slot of a handle is in the pool, empty, and no other task's handle names it.
\* It is not enough that h1_action takes the sender: ids start again at 0 when an
\* entry is removed and inserted anew, and a late return must not hit a new slot.
ExclusiveCheckout ==
    /\ \A t \in Tasks :
         pc[t] = "h1" =>
           /\ want[t] \in DOMAIN pools
           /\ [id |-> conn[t], sender |-> "H1Out"] \in pools[want[t]].connections
    /\ \A t, u \in Tasks :
         t # u /\ pc[t] = "h1" /\ pc[u] = "h1" /\ want[t] = want[u] => conn[t] # conn[u]

\* The entry outlives the tasks that open connections for it, and counts each of
\* them: "pool entry disappeared" (pool.rs:345-349) is never returned, and
\* opening_count, a usize, never goes below zero (pool.rs:350, 384).
OpenersCounted ==
    \A k \in Keys :
       At(k, Opening) # {} =>
         /\ k \in DOMAIN pools
         /\ Cardinality(At(k, Opening)) <= pools[k].opening_count

\* A host has at most connections_per_host connections, open or being opened
\* (pool.rs:321-332), except that the first one is opened whatever the limit is.
Limit == IF ConnectionsPerHost = 0 THEN 1 ELSE ConnectionsPerHost
WithinLimit == \A k \in DOMAIN pools : TotalCount(pools[k]) <= Limit

\* An empty H1 slot means that a task holds its sender: "None = checked out"
\* (pool.rs:43); and what opening_count counts is a task that opens.
CheckedOutMeansHeld ==
    \A k \in DOMAIN pools :
       /\ \A c \in pools[k].connections :
            c.sender = "H1Out" => \E t \in At(k, {"h1"}) : conn[t] = c.id
       /\ pools[k].opening_count = Cardinality(At(k, Opening))

\* acquire "returns an existing connection if available" (pool.rs:173): it opens
\* one, or waits, only when no connection of the entry is idle.
ReturnsExistingIfAvailable ==
    [][\A t \in Tasks :
         pc[t] = "acquiring" /\ pc'[t] \in Opening \cup {"wait"} /\ want[t] \in DOMAIN pools
           => \A c \in pools[want[t]].connections :
                /\ c.sender # "H1Idle"
                /\ c.sender = "H2Live" => c.id \in InUse(want[t])]_vars

\* acquire "blocks if all connections are busy and the pool is at capacity"
\* (pool.rs:174): as many other tasks as the limit hold or open a connection to
\* the host when a task begins to wait.  A slot lost by an earlier batch would
\* make every later download of the host wait for nobody.
BlocksOnlyWhenBusy ==
    [][\A t \in Tasks :
         pc[t] = "acquiring" /\ pc'[t] = "wait"
           => Cardinality(At(want[t], Holding \cup Opening)) >= ConnectionsPerHost]_vars

\* What a task that waits for an H1 connection waits for, and its wake-up: a permit
\* or a task that is about to look at the entry.
HasRoom(k) ==
    /\ k \in DOMAIN pools
    /\ pools[k].protocol = "Http1"
    /\ \/ \E c \in pools[k].connections : c.sender = "H1Idle"
       \/ TotalCount(pools[k]) < ConnectionsPerHost
Signalled(k) == pools[k].permit \/ At(k, {"acquiring", "woken"}) # {}

\* A task that only its timer will wake although its host could serve it.
Unattended(t) ==
    \/ pc[t] = "orphaned"
    \/ pc[t] \in {"wait", "parked"} /\ HasRoom(want[t]) /\ ~ Signalled(want[t])

GivesUp(k) == \E u \in At(k, {"woken", "wait"}) : pc'[u] = "idle"
LastOpenerFails(k) ==
    k \notin DOMAIN pools' /\ \E u \in At(k, Opening) : pc'[u] = "idle"

\* The wake-up of a task that waits is lost in two ways only: another task gives up
\* after its last attempt with the notification it got (pool.rs:190, not passed on
\* when 177-196 end), or the last opener of the entry fails and removes it without a
\* notification (pool.rs:385-386).  Returned and dead connections, other failed
\* openings and timeouts never lose one.
WakeupKept ==
    [][\A t \in Tasks :
         Unattended(t)' /\ ~ Unattended(t) => GivesUp(want[t]) \/ LastOpenerFails(want[t])]_vars

\* Every call of acquire returns a handle or an error (pool.rs:177-196): the wait
\* for a Notify that nobody signals, the one of a removed entry included, ends.
AcquireTerminates ==
    \A t \in Tasks : pc[t] \in Acquiring ~> pc[t] \notin Acquiring

\* The refinement mapping to ConnectionLease: an H1 connection is named by its
\* key and id; the idle ones are the slots that are Some, a task leases the one
\* its handle names.
NoConn == <<>>
IdleIds(hp) == {c.id : c \in {d \in hp.connections : d.sender = "H1Idle"}}
IdleConns == UNION {{k} \X IdleIds(pools[k]) : k \in DOMAIN pools}
LeaseOf == [t \in Tasks |-> IF pc[t] = "h1" THEN <<want[t], conn[t]>> ELSE NoConn]
=============================================================================
