---------------------- MODULE ConnectionPoolRefinement ----------------------
(***************************************************************************)
(* Proof that ConnectionPool implements ConnectionLease under the mapping  *)
(* IdleConns, LeaseOf: every step of the pool leases, gives back or loses  *)
(* one HTTP/1.1 connection, or does nothing to the leases.  The steps that *)
(* lease are where IInv is needed: a fresh id names no connection that is  *)
(* idle or leased, and a slot that is taken was leased by nobody.          *)
(***************************************************************************)
EXTENDS ConnectionPoolProofs

Lease == INSTANCE ConnectionLease WITH
    Conns <- Keys \X Nat,
    idle <- IdleConns,
    lease <- LeaseOf

-----------------------------------------------------------------------------
(* The refinement mapping *)

\* What it is to be idle, before and after a step.
LEMMA IdleMember ==
    /\ \A x, i : <<x, i>> \in IdleConns <=> x \in DOMAIN pools /\ i \in IdleIds(pools[x])
    /\ \A z \in IdleConns : z = <<z[1], z[2]>>
BY DEF IdleConns

LEMMA IdleMemberNext ==
    /\ \A x, i : <<x, i>> \in IdleConns'
                   <=> x \in DOMAIN pools' /\ i \in IdleIds(pools'[x])
    /\ \A z \in IdleConns' : z = <<z[1], z[2]>>
<1>1. IdleConns' = UNION {{k} \X IdleIds(pools'[k]) : k \in DOMAIN pools'}
  BY DEF IdleConns, IdleIds
<1>2. QED
  BY <1>1

\* Writing the entry of one key changes the idle connections of that key only.
LEMMA IdleAfterPut ==
    ASSUME NEW k, NEW hp, pools' = Put(k, hp)
    PROVE  \A x, i : <<x, i>> \in IdleConns'
                       <=> IF x = k THEN i \in IdleIds(hp) ELSE <<x, i>> \in IdleConns
<1>1. /\ DOMAIN pools' = DOMAIN pools \cup {k}
      /\ pools'[k] = hp
      /\ \A x \in DOMAIN pools : x # k => pools'[x] = pools[x]
  <2>1. pools' = [x \in DOMAIN pools \cup {k} |-> IF x = k THEN hp ELSE pools[x]]
    BY DEF Put
  <2>2. QED
    BY <2>1
<1>2. QED
  BY <1>1, IdleMember, IdleMemberNext

LEMMA IdleUnchanged ==
    ASSUME NEW k, NEW hp, pools' = Put(k, hp),
           IdleIds(hp) = IF k \in DOMAIN pools THEN IdleIds(pools[k]) ELSE {}
    PROVE  IdleConns' = IdleConns
<1>1. \A x, i : <<x, i>> \in IdleConns' <=> <<x, i>> \in IdleConns
  BY IdleAfterPut, IdleMember
<1>2. QED
  BY <1>1, IdleMember, IdleMemberNext

\* A task leases the connection its handle names, or none.
LEMMA LeaseMember ==
    /\ LeaseOf = [t \in Tasks |-> IF pc[t] = "h1" THEN <<want[t], conn[t]>> ELSE NoConn]
    /\ LeaseOf' = [t \in Tasks |-> IF pc'[t] = "h1" THEN <<want'[t], conn'[t]>> ELSE NoConn]
    /\ \A a, b : <<a, b>> # NoConn
BY DEF LeaseOf, NoConn

\* A step in which nobody gets or loses an H1 handle leaves the leases alone.
LEMMA LeaseUnchanged ==
    ASSUME \A u \in Tasks : pc'[u] = "h1" <=> pc[u] = "h1",
           \A u \in Tasks : pc[u] = "h1" => want'[u] = want[u] /\ conn'[u] = conn[u]
    PROVE  LeaseOf' = LeaseOf
BY LeaseMember

\* The leases after a step of t in which the others keep theirs.
LEMMA LeaseUpdated ==
    ASSUME NEW t \in Tasks, OthersStay(t), UNCHANGED want
    PROVE  /\ LeaseOf' = [LeaseOf EXCEPT ![t] =
                            IF pc'[t] = "h1" THEN <<want[t], conn'[t]>> ELSE NoConn]
           /\ LeaseOf[t] = IF pc[t] = "h1" THEN <<want[t], conn[t]>> ELSE NoConn
<1>1. \A u \in Tasks \ {t} : /\ pc'[u] = "h1" <=> pc[u] = "h1"
                             /\ conn'[u] = conn[u]
  BY DEF OthersStay
<1>2. QED
  BY <1>1, LeaseMember

-----------------------------------------------------------------------------
(* Steps that leave the leases alone *)

\* Changing what is not an H1 slot, or nothing, keeps the idle ids.
LEMMA PrunedIdle ==
    ASSUME NEW hp, EntryOK(hp)
    PROVE  IdleIds(Pruned(hp)) = IdleIds(hp)
BY DEF Pruned, IdleIds, EntryOK, HostPool

\* Ids are distinct, so replacing the sender of one connection makes its id idle,
\* or no longer idle, and no other.
LEMMA ReplacedIdle ==
    ASSUME NEW hp, EntryOK(hp), NEW c \in hp.connections, NEW s \in Senders
    PROVE  \A i : i \in IdleIds(WithSender(hp, c, s))
                    <=> IF i = c.id THEN s = "H1Idle" ELSE i \in IdleIds(hp)
<1> DEFINE hp2 == WithSender(hp, c, s)
           d == [id |-> c.id, sender |-> s]
<1>1. hp2.connections = (hp.connections \ {c}) \cup {d}
  BY ReplaceFacts
<1>2. \A e \in hp.connections : e.id = c.id => e = c
  BY DEF EntryOK
<1>3. d.id = c.id /\ d.sender = s
  OBVIOUS
<1>4. \A C, i : i \in {e.id : e \in {f \in C : f.sender = "H1Idle"}}
                 <=> \E e \in C : e.sender = "H1Idle" /\ e.id = i
  OBVIOUS
<1> HIDE DEF hp2, d
<1>5. ASSUME NEW i
      PROVE  i \in IdleIds(hp2) <=> IF i = c.id THEN s = "H1Idle" ELSE i \in IdleIds(hp)
  BY <1>1, <1>2, <1>3, <1>4 DEF IdleIds
<1>6. QED
  BY <1>5 DEF hp2

\* What notify_one leaves of the entry has the connections it was given.
LEMMA NotifyIdle ==
    ASSUME IInv, NEW t \in Tasks, NEW hp, EntryOK(hp),
           pc[t] # "parked",
           NotifyOne(want[t], hp, [pc EXCEPT ![t] = "idle"]),
           UNCHANGED <<want, attempts, conn, calls>>
    PROVE  /\ OthersStay(t)
           /\ pc'[t] = "idle"
           /\ \E hp2 : IdleIds(hp2) = IdleIds(hp) /\ pools' = Put(want[t], hp2)
<1>1. UNCHANGED conn
  OBVIOUS
<1>2. /\ pc' \in [Tasks -> PC]
      /\ pc'[t] = "idle"
      /\ OthersStay(t)
      /\ \E hp2 : /\ EntryOK(hp2)
                   /\ hp2.connections = hp.connections
                   /\ hp2.opening_count = hp.opening_count
                   /\ pools' = Put(want[t], hp2)
  BY <1>1, NotifyFacts
<1>3. PICK hp2 : /\ hp2.connections = hp.connections
                 /\ pools' = Put(want[t], hp2)
  BY <1>2
<1>4. IdleIds(hp2) = IdleIds(hp)
  BY <1>3 DEF IdleIds
<1>5. QED
  BY <1>2, <1>3, <1>4

\* A notification by a task without an H1 handle, over an entry whose idle
\* connections are the ones it had, does nothing to the leases.
LEMMA NotifyStutters ==
    ASSUME IInv, NEW t \in Tasks, NEW hp, EntryOK(hp),
           want[t] \in DOMAIN pools,
           IdleIds(hp) = IdleIds(pools[want[t]]),
           pc[t] \notin {"parked", "h1"},
           NotifyOne(want[t], hp, [pc EXCEPT ![t] = "idle"]),
           UNCHANGED <<want, attempts, conn, calls>>
    PROVE  UNCHANGED <<IdleConns, LeaseOf>>
<1>1. /\ OthersStay(t)
      /\ pc'[t] = "idle"
      /\ \E hp2 : IdleIds(hp2) = IdleIds(hp) /\ pools' = Put(want[t], hp2)
  BY NotifyIdle
<1>2. IdleConns' = IdleConns
  BY <1>1, IdleUnchanged
<1>3. LeaseOf' = LeaseOf
  BY <1>1, LeaseUnchanged DEF OthersStay
<1>4. QED
  BY <1>2, <1>3

\* acquire, but for the return of an existing connection, and the waits in it.
LEMMA AcquireStutters ==
    ASSUME IInv, NEW t \in Tasks,
           InsertEntry(t) \/ OpenNew(t) \/ Wait(t) \/ AfterWait(t)
    PROVE  UNCHANGED <<IdleConns, LeaseOf>>
<1> DEFINE k == want[t]
<1>1. LeaseOf' = LeaseOf
  <2>1. /\ \A u \in Tasks : pc'[u] = "h1" <=> pc[u] = "h1"
        /\ UNCHANGED <<want, conn>>
    BY DEF InsertEntry, OpenNew, Wait, AfterWait, TakePermit, Park, Wake, WaitTimeout,
           NextIteration, IInv, TypeOK
  <2>2. QED
    BY <2>1, LeaseUnchanged
<1>2. CASE InsertEntry(t)
  <2>1. IdleIds(FirstEntry) = {}
    BY DEF IdleIds, FirstEntry
  <2>2. QED
    BY <1>1, <1>2, <2>1, IdleUnchanged DEF InsertEntry
<1>3. CASE OpenNew(t) \/ Wait(t)
  <2>1. /\ k \in DOMAIN pools
        /\ \/ pools' = Put(k, Pruned(pools[k]))
           \/ pools' = Put(k, [Pruned(pools[k]) EXCEPT !.opening_count = @ + 1])
    BY <1>3 DEF OpenNew, Wait
  <2>2. /\ EntryOK(pools[k])
        /\ EntryOK(Pruned(pools[k]))
    BY <2>1, SlotsKept
  <2>3. /\ IdleIds(Pruned(pools[k])) = IdleIds(pools[k])
        /\ IdleIds([Pruned(pools[k]) EXCEPT !.opening_count = @ + 1]) = IdleIds(pools[k])
    <3>1. IdleIds(Pruned(pools[k])) = IdleIds(pools[k])
      BY <2>2, PrunedIdle
    <3>2. IdleIds([Pruned(pools[k]) EXCEPT !.opening_count = @ + 1])
            = IdleIds(Pruned(pools[k]))
      BY <2>2 DEF IdleIds, EntryOK, HostPool
    <3>3. QED
      BY <3>1, <3>2
  <2>4. QED
    BY <1>1, <2>1, <2>3, IdleUnchanged
<1>4. CASE TakePermit(t)
  <2>1. k \in DOMAIN pools /\ pools' = Put(k, [pools[k] EXCEPT !.permit = FALSE])
    BY <1>4 DEF TakePermit, IInv, WaitersHaveEntry
  <2>2. IdleIds([pools[k] EXCEPT !.permit = FALSE]) = IdleIds(pools[k])
    BY <2>1 DEF IdleIds, IInv, TypeOK, HostPool
  <2>3. QED
    BY <1>1, <2>1, <2>2, IdleUnchanged
<1>5. CASE Park(t) \/ Wake(t) \/ WaitTimeout(t)
  <2>1. pools' = pools
    BY <1>5 DEF Park, Wake, WaitTimeout
  <2>2. QED
    BY <1>1, <2>1 DEF IdleConns, IdleIds
<1>6. QED
  BY <1>2, <1>3, <1>4, <1>5 DEF AfterWait

LEMMA OpenFailsStutters ==
    ASSUME IInv, NEW t \in Tasks, OpenFails(t)
    PROVE  UNCHANGED <<IdleConns, LeaseOf>>
<1> DEFINE k == want[t]
           hp == Uncounted(pools[k])
           p == [pc EXCEPT ![t] = "idle"]
<1>1. /\ pc[t] \in Opening
      /\ k \in DOMAIN pools
      /\ pools[k].opening_count >= 1
      /\ UNCHANGED <<want, attempts, conn, calls>>
  BY OpenerFindsEntry DEF OpenFails
<1>2. /\ EntryOK(pools[k])
      /\ hp \in HostPool
      /\ hp.connections = pools[k].connections
      /\ hp.next_id = pools[k].next_id
      /\ hp.opening_count = pools[k].opening_count - 1
      /\ pools[k].opening_count \in Nat
  BY <1>1, SlotsKept, UncountedFacts DEF EntryOK
<1>3. IdleIds(hp) = IdleIds(pools[k])
  BY <1>2 DEF IdleIds
<1>4. CASE Unused(hp)
  <2>1. pools' = Remove(k) /\ pc' = Orphan(k, p)
    BY <1>1, <1>4 DEF OpenFails
  <2>2. DOMAIN pools' = DOMAIN pools \ {k} /\ \A x \in DOMAIN pools' : pools'[x] = pools[x]
    BY <2>1 DEF Remove
  <2>3. IdleIds(pools[k]) = {}
    BY <1>2, <1>4 DEF Unused, IdleIds
  <2>4. IdleConns' = IdleConns
    <3>1. \A x, i : <<x, i>> \in IdleConns' <=> <<x, i>> \in IdleConns
      BY <2>2, <2>3, IdleMember, IdleMemberNext
    <3>2. QED
      BY <3>1, IdleMember, IdleMemberNext
  <2>5. \A u \in Tasks : pc'[u] = "h1" <=> pc[u] = "h1"
    BY <1>1, <2>1 DEF Orphan, Opening, Waiting, IInv, TypeOK
  <2>6. LeaseOf' = LeaseOf
    BY <1>1, <2>5, LeaseUnchanged
  <2>7. QED
    BY <2>4, <2>6
<1>5. CASE ~ Unused(hp)
  <2>1. NotifyOne(k, hp, p)
    BY <1>1, <1>5 DEF OpenFails
  <2>2. EntryOK(hp)
    <3>1. Cardinality(hp.connections) \in Nat
      BY <1>2, FS_CardinalityType DEF EntryOK
    <3>2. TotalCount(hp) <= Limit
      BY <1>2, <3>1, LimitAssumption DEF EntryOK, TotalCount, Limit
    <3>3. QED
      BY <1>2, <3>2 DEF EntryOK
  <2>3. pc[t] \notin {"parked", "h1"}
    BY <1>1 DEF Opening
  <2> HIDE DEF hp
  <2>4. QED
    BY <1>1, <1>3, <2>1, <2>2, <2>3, NotifyStutters
<1>6. QED
  BY <1>4, <1>5

LEMMA CloseH2Stutters ==
    ASSUME IInv, NEW k \in Keys, CloseH2(k)
    PROVE  UNCHANGED <<IdleConns, LeaseOf>>
<1>1. PICK c \in pools[k].connections :
         c.sender = "H2Live" /\ pools' = Put(k, WithSender(pools[k], c, "H2Dead"))
  BY DEF CloseH2
<1>2. k \in DOMAIN pools /\ UNCHANGED <<pc, want, conn>>
  BY DEF CloseH2, taskVars
<1>3. WithSender(pools[k], c, "H2Dead").connections
        = (pools[k].connections \ {c}) \cup {[id |-> c.id, sender |-> "H2Dead"]}
  <2>1. "H2Dead" \in Senders
    BY DEF Senders
  <2>2. QED
    BY <1>1, <1>2, <2>1, ReplaceFacts DEF IInv, EntriesOK
<1>4. IdleIds(WithSender(pools[k], c, "H2Dead")) = IdleIds(pools[k])
  BY <1>1, <1>3 DEF IdleIds
<1>5. IdleConns' = IdleConns
  BY <1>1, <1>2, <1>4, IdleUnchanged
<1>6. LeaseOf' = LeaseOf
  BY <1>2, LeaseUnchanged
<1>7. QED
  BY <1>5, <1>6

LEMMA NotifyH2CompleteStutters ==
    ASSUME IInv, NEW t \in Tasks, NotifyH2Complete(t)
    PROVE  UNCHANGED <<IdleConns, LeaseOf>>
<1>1. CASE want[t] \in DOMAIN pools
  <2>1. EntryOK(pools[want[t]])
    BY <1>1, SlotsKept
  <2>2. QED
    BY <1>1, <2>1, NotifyStutters DEF NotifyH2Complete
<1>2. CASE want[t] \notin DOMAIN pools
  <2>1. pc[t] = "h2" /\ pc' = [pc EXCEPT ![t] = "idle"] /\ UNCHANGED <<pools, want, conn>>
    BY <1>2 DEF NotifyH2Complete
  <2>2. \A u \in Tasks : pc'[u] = "h1" <=> pc[u] = "h1"
    BY <2>1 DEF IInv, TypeOK
  <2>3. LeaseOf' = LeaseOf
    BY <2>1, <2>2, LeaseUnchanged
  <2>4. QED
    BY <2>1, <2>3 DEF IdleConns, IdleIds
<1>3. QED
  BY <1>1, <1>2

-----------------------------------------------------------------------------
(* Steps that lease *)

LEMMA ReturnExistingLeases ==
    ASSUME IInv, NEW t \in Tasks, ReturnExisting(t)
    PROVE  \/ UNCHANGED <<IdleConns, LeaseOf>>
           \/ \E z \in Keys \X Nat : Lease!LeaseIdle(t, z)
<1> DEFINE k == want[t]
           hp == Pruned(pools[k])
<1>1. PICK full \in SUBSET InUse(k) :
        LET c == First(Available(hp, full))
        IN  /\ Available(hp, full) # {}
            /\ conn' = [conn EXCEPT ![t] = c.id]
            /\ IF c.sender = "H2Live"
               THEN /\ pc' = [pc EXCEPT ![t] = "h2"]
                    /\ pools' = Put(k, hp)
               ELSE /\ pc' = [pc EXCEPT ![t] = "h1"]
                    /\ pools' = Put(k, WithSender(hp, c, "H1Out"))
  BY DEF ReturnExisting
<1> DEFINE c == First(Available(hp, full))
<1>2. /\ pc[t] = "acquiring"
      /\ k \in DOMAIN pools
      /\ k \in Keys
      /\ UNCHANGED <<want, attempts, calls>>
  BY DEF ReturnExisting, IInv, TypeOK
<1>3. EntryOK(hp) /\ EntryOK(pools[k])
  BY <1>2, SlotsKept
<1>4. IdleIds(hp) = IdleIds(pools[k])
  BY <1>3, PrunedIdle
<1>5. /\ c \in hp.connections
      /\ c.sender \in {"H2Live", "H1Idle"}
      /\ c.id \in Nat
  <2>1. c \in Available(hp, full)
    <3>1. Available(hp, full) \subseteq PooledConnection
      BY <1>3 DEF Available, EntryOK, HostPool
    <3>2. \E d \in Available(hp, full) : \A e \in Available(hp, full) : d.id <= e.id
      BY <1>1, <3>1, LeastId
    <3>3. QED
      BY <3>2 DEF First
  <2>2. QED
    BY <1>3, <2>1 DEF Available, EntryOK, HostPool, PooledConnection
<1>6. CASE c.sender = "H2Live"
  <2>1. pc' = [pc EXCEPT ![t] = "h2"] /\ pools' = Put(k, hp)
    BY <1>1, <1>6
  <2>2. IdleConns' = IdleConns
    BY <1>2, <1>4, <2>1, IdleUnchanged
  <2>3. /\ \A u \in Tasks : pc'[u] = "h1" <=> pc[u] = "h1"
        /\ \A u \in Tasks : pc[u] = "h1" => conn'[u] = conn[u]
    BY <1>1, <1>2, <2>1 DEF IInv, TypeOK
  <2>4. LeaseOf' = LeaseOf
    BY <1>2, <2>3, LeaseUnchanged
  <2>5. QED
    BY <2>2, <2>4
<1>7. CASE c.sender = "H1Idle"
  <2> DEFINE hp2 == WithSender(hp, c, "H1Out")
             z == <<k, c.id>>
  <2>1. pc' = [pc EXCEPT ![t] = "h1"] /\ pools' = Put(k, hp2) /\ conn'[t] = c.id
    BY <1>1, <1>7 DEF IInv, TypeOK
  <2>2. c.id \in IdleIds(hp)
    BY <1>5, <1>7 DEF IdleIds
  <2>3. IdleIds(hp2) = IdleIds(hp) \ {c.id}
    <3>1. "H1Out" \in Senders
      BY DEF Senders
    <3> HIDE DEF c, hp
    <3>2. \A i : i \in IdleIds(hp2) <=> i # c.id /\ i \in IdleIds(hp)
      BY <1>3, <1>5, <3>1, ReplacedIdle
    <3> HIDE DEF hp2
    <3>3. QED
      BY <3>2
  <2>4. z \in IdleConns /\ IdleConns' = IdleConns \ {z}
    <3>1. \A x, i : <<x, i>> \in IdleConns' <=> <<x, i>> \in IdleConns \ {z}
      <4> HIDE DEF c, hp, hp2
      <4>1. \A x, i : <<x, i>> \in IdleConns'
                        <=> IF x = k THEN i \in IdleIds(hp2) ELSE <<x, i>> \in IdleConns
        BY <2>1, IdleAfterPut
      <4>2. \A x, i : <<x, i>> = z <=> x = k /\ i = c.id
        OBVIOUS
      <4>3. QED
        BY <1>2, <1>4, <2>3, <4>1, <4>2, IdleMember
    <3>2. z \in IdleConns
      BY <1>2, <1>4, <2>2, IdleMember
    <3>3. QED
      BY <3>1, <3>2, IdleMember, IdleMemberNext
  <2>5. OthersStay(t) /\ pc'[t] = "h1"
    BY <1>1, <2>1 DEF OthersStay, IInv, TypeOK
  <2>6. LeaseOf' = [LeaseOf EXCEPT ![t] = z] /\ LeaseOf[t] = NoConn
    BY <1>2, <2>1, <2>5, LeaseUpdated
  <2>7. z \in Keys \X Nat
    BY <1>2, <1>5
  <2> HIDE DEF z
  <2>8. Lease!LeaseIdle(t, z)
    BY <2>4, <2>6 DEF Lease!LeaseIdle
  <2>9. QED
    BY <2>7, <2>8
<1>8. QED
  BY <1>5, <1>6, <1>7

LEMMA OpenSucceedsLeases ==
    ASSUME IInv, NEW t \in Tasks, NEW protocol \in Protocols, OpenSucceeds(t, protocol)
    PROVE  \/ UNCHANGED <<IdleConns, LeaseOf>>
           \/ \E z \in Keys \X Nat : Lease!LeaseFresh(t, z)
<1> DEFINE k == want[t]
           hp == pools[k]
           un == Uncounted(hp)
           c == [id |-> un.next_id,
                 sender |-> IF protocol = "Http2" THEN "H2Live" ELSE "H1Out"]
           hp2 == [un EXCEPT
                     !.protocol = ProtocolOf(un, pc[t] = "opening_first", protocol),
                     !.next_id = @ + 1,
                     !.connections = @ \cup {c}]
           z == <<k, hp.next_id>>
<1>1. /\ pc[t] \in Opening
      /\ k \in DOMAIN pools
      /\ k \in Keys
      /\ hp.opening_count >= 1
  BY OpenerFindsEntry DEF OpenSucceeds, IInv, TypeOK
<1>2. EntryOK(hp)
  BY <1>1, SlotsKept
<1>3. /\ un \in HostPool
      /\ un.connections = hp.connections
      /\ un.next_id = hp.next_id
      /\ hp.next_id \in Nat
  BY <1>1, <1>2, UncountedFacts DEF EntryOK, HostPool
<1>4. /\ pools' = Put(k, hp2)
      /\ conn' = [conn EXCEPT ![t] = hp.next_id]
      /\ pc' = [pc EXCEPT ![t] = IF protocol = "Http2" THEN "h2" ELSE "h1"]
      /\ UNCHANGED <<want, attempts, calls>>
  BY <1>1, <1>3 DEF OpenSucceeds
<1>5. hp2.connections = hp.connections \cup {c}
  <2> HIDE DEF c
  <2>1. QED
    BY <1>3 DEF HostPool
<1>6. IdleIds(hp2) = IdleIds(hp)
  <2> HIDE DEF hp2
  <2>1. QED
    BY <1>5 DEF IdleIds
<1>7. IdleConns' = IdleConns
  <2> HIDE DEF hp2
  <2>1. QED
    BY <1>1, <1>4, <1>6, IdleUnchanged
<1>8. pc[t] # "h1" /\ OthersStay(t)
  BY <1>1, <1>4 DEF Opening, OthersStay, IInv, TypeOK
<1>9. CASE protocol = "Http2"
  <2>1. /\ \A u \in Tasks : pc'[u] = "h1" <=> pc[u] = "h1"
        /\ \A u \in Tasks : pc[u] = "h1" => conn'[u] = conn[u]
    BY <1>4, <1>8, <1>9 DEF IInv, TypeOK
  <2>2. LeaseOf' = LeaseOf
    BY <1>4, <2>1, LeaseUnchanged
  <2>3. QED
    BY <1>7, <2>2
<1>10. CASE protocol # "Http2"
  <2>1. LeaseOf' = [LeaseOf EXCEPT ![t] = z] /\ LeaseOf[t] = NoConn
    <3>1. pc'[t] = "h1" /\ conn'[t] = hp.next_id
      BY <1>4, <1>10 DEF IInv, TypeOK
    <3>2. QED
      BY <1>4, <1>8, <3>1, LeaseUpdated
  <2>2. z \notin IdleConns
    <3>1. \A i \in IdleIds(hp) : i < hp.next_id
      BY <1>2 DEF EntryOK, IdleIds
    <3>2. hp.next_id \notin IdleIds(hp)
      BY <1>3, <3>1
    <3>3. QED
      BY <3>2, IdleMember
  <2>3. ASSUME NEW u \in Tasks PROVE LeaseOf[u] # z
    <3>1. CASE pc[u] # "h1"
      BY <3>1, LeaseMember
    <3>2. CASE pc[u] = "h1" /\ want[u] = k
      <4>1. [id |-> conn[u], sender |-> "H1Out"] \in hp.connections
        BY <1>1, <3>2, SlotsKept
      <4>2. conn[u] < hp.next_id
        BY <1>2, <4>1 DEF EntryOK
      <4>3. conn[u] # hp.next_id
        BY <1>3, <4>2 DEF IInv, TypeOK
      <4>4. QED
        BY <3>2, <4>3, LeaseMember
    <3>3. CASE pc[u] = "h1" /\ want[u] # k
      BY <3>3, LeaseMember
    <3>4. QED
      BY <3>1, <3>2, <3>3
  <2>4. z \in Keys \X Nat
    BY <1>1, <1>3
  <2> HIDE DEF z
  <2>5. z \notin IdleConns \cup Lease!Leased
    BY <2>2, <2>3 DEF Lease!Leased
  <2>6. Lease!LeaseFresh(t, z)
    BY <1>7, <2>1, <2>5 DEF Lease!LeaseFresh
  <2>7. QED
    BY <2>4, <2>6
<1>11. QED
  BY <1>9, <1>10

-----------------------------------------------------------------------------
(* Steps that end a lease *)

LEMMA ReturnH1GivesBack ==
    ASSUME IInv, NEW t \in Tasks, ReturnH1(t)
    PROVE  Lease!GiveBack(t)
<1> DEFINE k == want[t]
           hp == pools[k]
           mine == {c \in hp.connections : c.id = conn[t] /\ c.sender \in {"H1Idle", "H1Out"}}
           hp2 == IF mine = {} THEN hp ELSE WithSender(hp, First(mine), "H1Idle")
           slot == [id |-> conn[t], sender |-> "H1Out"]
<1>1. /\ pc[t] = "h1"
      /\ k \in DOMAIN pools
      /\ slot \in hp.connections
      /\ UNCHANGED <<want, attempts, conn, calls>>
  BY DEF ReturnH1, IInv, ExclusiveCheckout
<1>2. NotifyOne(want[t], hp2, [pc EXCEPT ![t] = "idle"])
  BY <1>1 DEF ReturnH1
<1>3. EntryOK(hp)
  BY <1>1, SlotsKept
<1>4. mine = {slot}
  <2>1. slot \in mine
    BY <1>1
  <2>2. ASSUME NEW c \in mine PROVE c = slot
    BY <1>1, <1>3 DEF EntryOK
  <2>3. QED
    BY <2>1, <2>2
<1>5. First(mine) = slot
  <2>1. slot.id <= slot.id
    BY DEF IInv, TypeOK
  <2> HIDE DEF mine, slot
  <2>2. \E c \in mine : \A d \in mine : c.id <= d.id
    BY <1>4, <2>1
  <2>3. First(mine) \in mine
    BY <2>2 DEF First
  <2>4. QED
    BY <1>4, <2>3
<1>6. hp2 = WithSender(hp, slot, "H1Idle")
  BY <1>4, <1>5
<1>7. /\ EntryOK(hp2)
      /\ \A i : i \in IdleIds(hp2) <=> i = slot.id \/ i \in IdleIds(hp)
  <2>1. "H1Idle" \in Senders
    BY DEF Senders
  <2> HIDE DEF hp2, slot
  <2>2. QED
    BY <1>1, <1>3, <1>6, <2>1, ReplaceFacts, ReplacedIdle
<1>8. IdleIds(hp2) = IdleIds(hp) \cup {conn[t]}
  <2> HIDE DEF hp2
  <2>1. QED
    BY <1>7
<1> HIDE DEF hp2
<1>9. /\ OthersStay(t)
      /\ pc'[t] = "idle"
      /\ \E hp3 : IdleIds(hp3) = IdleIds(hp2) /\ pools' = Put(want[t], hp3)
  BY <1>1, <1>2, <1>7, NotifyIdle
<1>10. LeaseOf' = [LeaseOf EXCEPT ![t] = NoConn] /\ LeaseOf[t] = <<k, conn[t]>>
  BY <1>1, <1>9, LeaseUpdated
<1>11. IdleConns' = IdleConns \cup {LeaseOf[t]}
  <2> HIDE DEF k
  <2>1. PICK hp3 : IdleIds(hp3) = IdleIds(hp2) /\ pools' = Put(k, hp3)
    BY <1>9 DEF k
  <2>2. \A x, i : <<x, i>> \in IdleConns'
                   <=> IF x = k THEN i \in IdleIds(hp3) ELSE <<x, i>> \in IdleConns
    BY <2>1, IdleAfterPut
  <2>3. \A i : i \in IdleIds(hp3) <=> <<k, i>> \in IdleConns \/ i = conn[t]
    BY <1>1, <1>8, <2>1, IdleMember
  <2>4. \A x, i : <<x, i>> = <<k, conn[t]>> <=> x = k /\ i = conn[t]
    OBVIOUS
  <2>5. \A x, i : <<x, i>> \in IdleConns' <=> <<x, i>> \in IdleConns \cup {<<k, conn[t]>>}
    BY <2>2, <2>3, <2>4
  <2>6. \A z \in IdleConns \cup {<<k, conn[t]>>} : z = <<z[1], z[2]>>
    BY IdleMember
  <2>7. QED
    BY <1>10, <2>5, <2>6, IdleMemberNext
<1>12. LeaseOf[t] # NoConn
  BY <1>10, LeaseMember
<1>13. QED
  BY <1>10, <1>11, <1>12 DEF Lease!GiveBack

LEMMA RemoveDeadLoses ==
    ASSUME IInv, NEW t \in Tasks, RemoveDead(t)
    PROVE  Lease!Lose(t)
<1> DEFINE k == want[t]
           hp == pools[k]
           C == {c \in hp.connections : c.id # conn[t]}
           hp2 == Retain(hp, conn[t])
<1>1. /\ pc[t] = "h1"
      /\ k \in DOMAIN pools
      /\ [id |-> conn[t], sender |-> "H1Out"] \in hp.connections
      /\ UNCHANGED <<want, attempts, conn, calls>>
  BY DEF RemoveDead, IInv, ExclusiveCheckout
<1>2. NotifyOne(want[t], hp2, [pc EXCEPT ![t] = "idle"])
  BY <1>1 DEF RemoveDead
<1>3. EntryOK(hp)
  BY <1>1, SlotsKept
<1>4. /\ hp2 \in HostPool
      /\ hp2.connections = C
      /\ hp2.opening_count = hp.opening_count
      /\ hp2.next_id = hp.next_id
      /\ hp.opening_count \in Nat
  BY <1>3 DEF EntryOK, HostPool, Retain
<1>5. /\ IsFiniteSet(C)
      /\ Cardinality(C) \in Nat
      /\ Cardinality(hp.connections) \in Nat
      /\ Cardinality(C) <= Cardinality(hp.connections)
  BY <1>3, PartCard, C \subseteq hp.connections DEF EntryOK
<1>6. EntryOK(hp2)
  <2>1. TotalCount(hp2) <= Limit
    BY <1>3, <1>4, <1>5, LimitAssumption DEF EntryOK, TotalCount, Limit
  <2>2. QED
    BY <1>3, <1>4, <1>5, <2>1 DEF EntryOK
<1>7. IdleIds(hp2) = IdleIds(hp)
  <2>1. \A c \in hp.connections : c.id = conn[t] => c.sender # "H1Idle"
    BY <1>1, <1>3 DEF EntryOK
  <2> HIDE DEF hp2
  <2>2. QED
    BY <1>4, <2>1 DEF IdleIds
<1> HIDE DEF hp2
<1>8. /\ OthersStay(t)
      /\ pc'[t] = "idle"
      /\ \E hp3 : IdleIds(hp3) = IdleIds(hp2) /\ pools' = Put(want[t], hp3)
  BY <1>1, <1>2, <1>6, NotifyIdle
<1>9. IdleConns' = IdleConns
  BY <1>1, <1>7, <1>8, IdleUnchanged
<1>10. LeaseOf' = [LeaseOf EXCEPT ![t] = NoConn] /\ LeaseOf[t] = <<k, conn[t]>>
  BY <1>1, <1>8, LeaseUpdated
<1>11. LeaseOf[t] # NoConn
  BY <1>10, LeaseMember
<1>12. QED
  BY <1>9, <1>10, <1>11 DEF Lease!Lose

\* A task that is dropped with an H1 handle loses the connection: nobody puts the
\* sender back, and the slot stays empty.
LEMMA AbortLoses ==
    ASSUME IInv, NEW t \in Tasks, Abort(t)
    PROVE  UNCHANGED <<IdleConns, LeaseOf>> \/ Lease!Lose(t)
<1>1. UNCHANGED <<want, attempts, conn, calls>>
  BY DEF Abort
<1>2. CASE pc[t] = "woken"
  <2>1. want[t] \in DOMAIN pools
    BY <1>2 DEF IInv, WaitersHaveEntry
  <2>2. EntryOK(pools[want[t]])
    BY <2>1, SlotsKept
  <2>3. NotifyOne(want[t], pools[want[t]], [pc EXCEPT ![t] = "idle"])
    BY <1>2 DEF Abort
  <2>4. QED
    BY <1>1, <1>2, <2>1, <2>2, <2>3, NotifyStutters
<1>3. CASE pc[t] # "woken"
  <2>1. pc' = [pc EXCEPT ![t] = "idle"] /\ UNCHANGED pools
    BY <1>3 DEF Abort
  <2>2. IdleConns' = IdleConns
    BY <2>1 DEF IdleConns, IdleIds
  <2>3. OthersStay(t) /\ pc'[t] = "idle"
    BY <1>1, <2>1 DEF OthersStay, IInv, TypeOK
  <2>4. LeaseOf' = [LeaseOf EXCEPT ![t] = NoConn]
    BY <1>1, <2>3, LeaseUpdated
  <2>5. CASE pc[t] = "h1"
    <3>1. LeaseOf[t] # NoConn
      BY <2>5, LeaseMember
    <3>2. QED
      BY <2>2, <2>4, <3>1 DEF Lease!Lose
  <2>6. CASE pc[t] # "h1"
    <3>1. \A u \in Tasks : pc'[u] = "h1" <=> pc[u] = "h1"
      BY <2>1, <2>6 DEF IInv, TypeOK
    <3>2. LeaseOf' = LeaseOf
      BY <1>1, <3>1, LeaseUnchanged
    <3>3. QED
      BY <2>2, <3>2
  <2>7. QED
    BY <2>5, <2>6
<1>4. QED
  BY <1>2, <1>3

-----------------------------------------------------------------------------
(* The theorem *)

LEMMA CallStutters ==
    ASSUME IInv, NEW t \in Tasks, NEW k \in Keys, Call(t, k)
    PROVE  UNCHANGED <<IdleConns, LeaseOf>>
<1>1. /\ pc[t] = "idle"
      /\ pc' = [pc EXCEPT ![t] = "acquiring"]
      /\ want' = [want EXCEPT ![t] = k]
      /\ UNCHANGED <<pools, conn>>
  BY DEF Call
<1>2. /\ \A u \in Tasks : pc'[u] = "h1" <=> pc[u] = "h1"
      /\ \A u \in Tasks : pc[u] = "h1" => want'[u] = want[u] /\ conn'[u] = conn[u]
  BY <1>1 DEF IInv, TypeOK
<1>3. LeaseOf' = LeaseOf
  BY <1>2, LeaseUnchanged
<1>4. QED
  BY <1>1, <1>3 DEF IdleConns, IdleIds

LEMMA InitImplements == Init => Lease!LInit
<1> SUFFICES ASSUME Init PROVE Lease!LInit
  OBVIOUS
<1>1. IdleConns = {}
  BY DEF Init, IdleConns
<1>2. LeaseOf = [t \in Tasks |-> NoConn]
  BY DEF Init, LeaseOf
<1>3. QED
  BY <1>1, <1>2 DEF Lease!LInit

LEMMA NextImplements == IInv /\ [Next]_vars => [Lease!LNext]_(Lease!leaseVars)
<1> SUFFICES ASSUME IInv, [Next]_vars
             PROVE  Lease!LNext \/ UNCHANGED <<IdleConns, LeaseOf>>
  BY DEF Lease!leaseVars
<1>1. CASE UNCHANGED vars
  BY <1>1 DEF vars, taskVars, IdleConns, IdleIds, LeaseOf
<1>2. ASSUME NEW t \in Tasks, NEW k \in Keys, Call(t, k)
      PROVE  UNCHANGED <<IdleConns, LeaseOf>>
  BY <1>2, CallStutters
<1>3. ASSUME NEW t \in Tasks, Acquire(t)
      PROVE  Lease!LNext \/ UNCHANGED <<IdleConns, LeaseOf>>
  BY <1>3, AcquireStutters, ReturnExistingLeases DEF Acquire, Lease!LNext
<1>4. ASSUME NEW t \in Tasks, AfterWait(t)
      PROVE  UNCHANGED <<IdleConns, LeaseOf>>
  BY <1>4, AcquireStutters
<1>5. ASSUME NEW t \in Tasks, Opened(t)
      PROVE  Lease!LNext \/ UNCHANGED <<IdleConns, LeaseOf>>
  <2>1. CASE OpenFails(t)
    BY <2>1, OpenFailsStutters
  <2>2. ASSUME NEW protocol \in Protocols, OpenSucceeds(t, protocol)
        PROVE  Lease!LNext \/ UNCHANGED <<IdleConns, LeaseOf>>
    BY <2>2, OpenSucceedsLeases DEF Lease!LNext
  <2>3. QED
    BY <1>5, <2>1, <2>2 DEF Opened
<1>6. ASSUME NEW t \in Tasks, Finish(t)
      PROVE  Lease!LNext \/ UNCHANGED <<IdleConns, LeaseOf>>
  BY <1>6, ReturnH1GivesBack, RemoveDeadLoses, NotifyH2CompleteStutters
     DEF Finish, Lease!LNext
<1>7. ASSUME NEW t \in Tasks, Abort(t)
      PROVE  Lease!LNext \/ UNCHANGED <<IdleConns, LeaseOf>>
  BY <1>7, AbortLoses DEF Lease!LNext
<1>8. ASSUME NEW k \in Keys, CloseH2(k)
      PROVE  UNCHANGED <<IdleConns, LeaseOf>>
  BY <1>8, CloseH2Stutters
<1>9. QED
  BY <1>1, <1>2, <1>3, <1>4, <1>5, <1>6, <1>7, <1>8 DEF Next, Finished

\* The pool implements the leases of HTTP/1.1 connections (pool.rs:175-243): a
\* connection is leased fresh or from the idle ones, given back to them or lost,
\* and by LeaseSafe it never has two users.
THEOREM Implements == Spec => Lease!LSpec
<1>1. Init => Lease!LInit
  BY InitImplements
<1>2. IInv /\ [Next]_vars => [Lease!LNext]_(Lease!leaseVars)
  BY NextImplements
<1>3. QED
  BY <1>1, <1>2, Invariance, PTL DEF Spec, Lease!LSpec
=============================================================================
