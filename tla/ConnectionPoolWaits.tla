------------------------ MODULE ConnectionPoolWaits ------------------------
(***************************************************************************)
(* Proofs of what a task that waits for a connection may rely on.  The     *)
(* properties of ConnectionPoolProofs hold whatever the configuration is;  *)
(* these need the batch not to drop tasks, or the protocol of a host to be *)
(* the one its entry is pinned to, and each theorem says which.            *)
(*                                                                         *)
(* First what each step does to the entry of its key, and that it does     *)
(* nothing to the others; then one section for each theorem.               *)
(***************************************************************************)
EXTENDS ConnectionPoolProofs

-----------------------------------------------------------------------------
(* What the steps do *)

\* The step of t is confined to the key of t: no other entry changes, no task of
\* another key moves, and another task moves only when it waits: it is woken, or its
\* entry is removed.
KeyStep(t) ==
    /\ want' = want
    /\ \A x \in Keys : x # want[t] => /\ x \in DOMAIN pools' <=> x \in DOMAIN pools
                                      /\ x \in DOMAIN pools => pools'[x] = pools[x]
    /\ \A u \in Tasks : want[u] # want[t] => pc'[u] = pc[u]
    /\ \A u \in Tasks \ {t} : /\ conn'[u] = conn[u]
                              /\ \/ pc'[u] = pc[u]
                                 \/ pc[u] \in Waiting /\ pc'[u] = "woken"
                                 \/ /\ pc[u] \in Waiting /\ pc'[u] = "orphaned"
                                    /\ want[t] \notin DOMAIN pools'

\* The entry of k after a step.
EntryAfter(k, conns, n, protocol) ==
    /\ k \in DOMAIN pools'
    /\ pools'[k].connections = conns
    /\ pools'[k].opening_count = n
    /\ pools'[k].protocol = protocol

\* Writing one entry leaves the others.
LEMMA PutOthers ==
    ASSUME NEW k, NEW hp, pools' = Put(k, hp)
    PROVE  /\ k \in DOMAIN pools'
           /\ pools'[k] = hp
           /\ \A x \in Keys : x # k => /\ x \in DOMAIN pools' <=> x \in DOMAIN pools
                                       /\ x \in DOMAIN pools => pools'[x] = pools[x]
<1>1. pools' = [x \in DOMAIN pools \cup {k} |-> IF x = k THEN hp ELSE pools[x]]
  BY DEF Put
<1>2. /\ DOMAIN pools' = DOMAIN pools \cup {k}
      /\ pools'[k] = hp
      /\ \A x \in DOMAIN pools : x # k => pools'[x] = pools[x]
  BY <1>1
<1>3. QED
  BY <1>2

\* A step in which only t moves and that leaves the entries of the other keys.
LEMMA AloneStep ==
    ASSUME IInv, NEW t \in Tasks, NEW s, pc' = [pc EXCEPT ![t] = s],
           UNCHANGED want,
           \A u \in Tasks \ {t} : conn'[u] = conn[u],
           \/ UNCHANGED pools
           \/ \E hp : pools' = Put(want[t], hp)
    PROVE  KeyStep(t) /\ pc'[t] = s /\ \A u \in Tasks \ {t} : pc'[u] = pc[u]
<1>1. pc'[t] = s /\ \A u \in Tasks \ {t} : pc'[u] = pc[u]
  BY DEF IInv, TypeOK
<1>2. \A x \in Keys : x # want[t] => /\ x \in DOMAIN pools' <=> x \in DOMAIN pools
                                     /\ x \in DOMAIN pools => pools'[x] = pools[x]
  BY PutOthers
<1>3. QED
  BY <1>1, <1>2 DEF KeyStep

\* notify_one after the step of t: the entry is hp but for its permit, and there
\* is a permit or a task that was woken.
LEMMA Notified ==
    ASSUME IInv, NEW t \in Tasks, NEW hp \in HostPool, pc[t] # "parked",
           UNCHANGED <<want, conn>>,
           NotifyOne(want[t], hp, [pc EXCEPT ![t] = "idle"])
    PROVE  /\ KeyStep(t)
           /\ pc'[t] = "idle"
           /\ EntryAfter(want[t], hp.connections, hp.opening_count, hp.protocol)
           /\ pools'[want[t]].permit \/ At(want[t], {"woken"})' # {}
<1> DEFINE k == want[t]
           p == [pc EXCEPT ![t] = "idle"]
<1>1. /\ p \in [Tasks -> PC]
      /\ p[t] = "idle"
      /\ \A u \in Tasks \ {t} : p[u] = pc[u]
  BY DEF IInv, TypeOK, PC
<1>2. CASE \E w \in At(k, {"parked"}) :
             pc' = [p EXCEPT ![w] = "woken"] /\ pools' = Put(k, hp)
  <2>1. PICK w \in At(k, {"parked"}) :
             pc' = [p EXCEPT ![w] = "woken"] /\ pools' = Put(k, hp)
    BY <1>2
  <2>2. w \in Tasks /\ w # t /\ pc[w] = "parked" /\ want[w] = k
    BY <2>1 DEF At
  <2>3. /\ pc'[w] = "woken"
        /\ pc'[t] = "idle"
        /\ \A u \in Tasks \ {t, w} : pc'[u] = pc[u]
    BY <1>1, <2>1, <2>2
  <2>4. w \in At(k, {"woken"})'
    BY <2>2, <2>3 DEF At
  <2>5. KeyStep(t)
    BY <2>1, <2>2, <2>3, PutOthers DEF KeyStep, Waiting
  <2>6. QED
    BY <2>1, <2>3, <2>4, <2>5, PutOthers DEF EntryAfter
<1>3. CASE pc' = p /\ pools' = Put(k, [hp EXCEPT !.permit = TRUE])
  <2> DEFINE hp2 == [hp EXCEPT !.permit = TRUE]
  <2>1. /\ hp2.permit
        /\ hp2.connections = hp.connections
        /\ hp2.opening_count = hp.opening_count
        /\ hp2.protocol = hp.protocol
    BY DEF HostPool
  <2>2. pc' = p /\ pools' = Put(k, hp2)
    BY <1>3
  <2> HIDE DEF hp2
  <2>3. /\ k \in DOMAIN pools'
        /\ pools'[k] = hp2
        /\ \A x \in Keys : x # k => /\ x \in DOMAIN pools' <=> x \in DOMAIN pools
                                    /\ x \in DOMAIN pools => pools'[x] = pools[x]
    BY <2>2, PutOthers
  <2>4. KeyStep(t)
    BY <1>1, <2>2, <2>3 DEF KeyStep
  <2>5. QED
    BY <1>1, <2>1, <2>2, <2>3, <2>4 DEF EntryAfter
<1>4. QED
  BY <1>2, <1>3 DEF NotifyOne

\* Pruning changes the connections of an HTTP/2 entry, and nothing else.
LEMMA PrunedFields ==
    ASSUME NEW hp \in HostPool
    PROVE  /\ Pruned(hp) \in HostPool
           /\ Pruned(hp).connections = IF hp.protocol = "Http2"
                                       THEN {c \in hp.connections : c.sender # "H2Dead"}
                                       ELSE hp.connections
           /\ Pruned(hp).opening_count = hp.opening_count
           /\ Pruned(hp).protocol = hp.protocol
<1> DEFINE C == {c \in hp.connections : c.sender # "H2Dead"}
<1>1. /\ [hp EXCEPT !.connections = C] \in HostPool
      /\ [hp EXCEPT !.connections = C].connections = C
      /\ [hp EXCEPT !.connections = C].opening_count = hp.opening_count
      /\ [hp EXCEPT !.connections = C].protocol = hp.protocol
  BY DEF HostPool
<1>2. QED
  BY <1>1 DEF Pruned

\* The entry of a key that has one.
LEMMA EntryFacts ==
    ASSUME IInv, NEW k \in DOMAIN pools
    PROVE  /\ EntryOK(pools[k])
           /\ pools[k] \in HostPool
           /\ pools[k].connections \subseteq PooledConnection
           /\ pools[k].opening_count \in Nat
           /\ pools[k].protocol \in Protocols
           /\ IsFiniteSet(pools[k].connections)
           /\ Cardinality(pools[k].connections) \in Nat
           /\ Cardinality(pools[k].connections) + pools[k].opening_count <= Limit
<1>1. EntryOK(pools[k])
  BY DEF IInv, EntriesOK
<1>2. Cardinality(pools[k].connections) \in Nat
  BY <1>1, FS_CardinalityType DEF EntryOK
<1>3. QED
  BY <1>1, <1>2 DEF EntryOK, HostPool, TotalCount

LEMMA InsertEntryEffect ==
    ASSUME IInv, NEW t \in Tasks, InsertEntry(t)
    PROVE  /\ KeyStep(t)
           /\ pc[t] = "acquiring" /\ pc'[t] = "opening_first"
           /\ \A u \in Tasks \ {t} : pc'[u] = pc[u]
           /\ want[t] \notin DOMAIN pools
           /\ EntryAfter(want[t], {}, 1, "Http2")
<1>1. /\ pc[t] = "acquiring"
      /\ want[t] \notin DOMAIN pools
      /\ pools' = Put(want[t], FirstEntry)
      /\ pc' = [pc EXCEPT ![t] = "opening_first"]
      /\ UNCHANGED <<want, conn>>
  BY DEF InsertEntry
<1>2. KeyStep(t) /\ pc'[t] = "opening_first" /\ \A u \in Tasks \ {t} : pc'[u] = pc[u]
  BY <1>1, AloneStep
<1>3. want[t] \in DOMAIN pools' /\ pools'[want[t]] = FirstEntry
  BY <1>1, PutOthers
<1>4. QED
  BY <1>1, <1>2, <1>3 DEF EntryAfter, FirstEntry

\* A handle is that of a connection of the pruned entry: one that answers, or an
\* H1 slot, which it empties.
LEMMA ReturnExistingEffect ==
    ASSUME IInv, NEW t \in Tasks, ReturnExisting(t)
    PROVE  LET k == want[t]
               hp == Pruned(pools[k])
           IN  /\ KeyStep(t)
               /\ pc[t] = "acquiring"
               /\ \A u \in Tasks \ {t} : pc'[u] = pc[u]
               /\ k \in DOMAIN pools
               /\ \E c \in hp.connections :
                    /\ conn'[t] = c.id
                    /\ \/ /\ c.sender = "H2Live"
                          /\ hp.protocol = "Http2"
                          /\ pc'[t] = "h2"
                          /\ EntryAfter(k, hp.connections, hp.opening_count, hp.protocol)
                       \/ /\ c.sender = "H1Idle"
                          /\ hp.protocol # "Http2"
                          /\ pc'[t] = "h1"
                          /\ EntryAfter(k, (hp.connections \ {c})
                                             \cup {[id |-> c.id, sender |-> "H1Out"]},
                                        hp.opening_count, hp.protocol)
<1> DEFINE k == want[t]
           hp == Pruned(pools[k])
<1>1. PICK full \in SUBSET InUse(k) :
        LET c == First(Available(hp, full))
        IN  /\ Available(hp, full) # {}
            /\ conn' = [conn EXCEPT ![t] = c.id]
            /\ IF c.sender = "H2Live"
               THEN /\ pc' = [pc EXCEPT ![t] = "h2"]
                    /\ pools' = Put(k, hp)
               ELSE /\ pc' = [pc EXCEPT ![t] = "h1"]
                    /\ pools' = Put(k, WithSender(hp, c, "H1Out"))
  BY DEF ReturnExisting
<1> DEFINE c == First(Available(hp, full))
<1>2. /\ pc[t] = "acquiring"
      /\ k \in DOMAIN pools
      /\ UNCHANGED <<want, attempts, calls>>
  BY DEF ReturnExisting
<1>3. EntryOK(hp)
  BY <1>2, SlotsKept
<1>4. /\ c \in hp.connections
      /\ IF hp.protocol = "Http2" THEN c.sender = "H2Live" ELSE c.sender = "H1Idle"
  <2>1. Available(hp, full) \subseteq PooledConnection
    BY <1>3 DEF Available, EntryOK, HostPool
  <2>2. \E d \in Available(hp, full) : \A e \in Available(hp, full) : d.id <= e.id
    BY <1>1, <2>1, LeastId
  <2>3. c \in Available(hp, full)
    BY <2>2 DEF First
  <2>4. QED
    BY <2>3 DEF Available
<1>5. /\ conn'[t] = c.id
      /\ \A u \in Tasks \ {t} : conn'[u] = conn[u]
  BY <1>1 DEF IInv, TypeOK
<1>6. CASE hp.protocol = "Http2"
  <2>1. pc' = [pc EXCEPT ![t] = "h2"] /\ pools' = Put(k, hp)
    BY <1>1, <1>4, <1>6
  <2>2. KeyStep(t) /\ pc'[t] = "h2" /\ \A u \in Tasks \ {t} : pc'[u] = pc[u]
    BY <1>2, <1>5, <2>1, AloneStep
  <2>3. k \in DOMAIN pools' /\ pools'[k] = hp
    BY <2>1, PutOthers
  <2>4. EntryAfter(k, hp.connections, hp.opening_count, hp.protocol)
    BY <2>3 DEF EntryAfter
  <2>5. QED
    BY <1>2, <1>4, <1>5, <1>6, <2>2, <2>4
<1>7. CASE hp.protocol # "Http2"
  <2> DEFINE hp2 == WithSender(hp, c, "H1Out")
  <2>1. pc' = [pc EXCEPT ![t] = "h1"] /\ pools' = Put(k, hp2)
    BY <1>1, <1>4, <1>7
  <2>2. KeyStep(t) /\ pc'[t] = "h1" /\ \A u \in Tasks \ {t} : pc'[u] = pc[u]
    BY <1>2, <1>5, <2>1, AloneStep
  <2>3. /\ hp2.opening_count = hp.opening_count
        /\ hp2.connections = (hp.connections \ {c}) \cup {[id |-> c.id, sender |-> "H1Out"]}
        /\ hp2.protocol = hp.protocol
    <3>1. "H1Out" \in Senders
      BY DEF Senders
    <3>2. hp2.protocol = hp.protocol
      BY <1>3 DEF WithSender, EntryOK, HostPool
    <3>3. QED
      BY <1>3, <1>4, <3>1, <3>2, ReplaceFacts
  <2> HIDE DEF hp2
  <2>4. k \in DOMAIN pools' /\ pools'[k] = hp2
    BY <2>1, PutOthers
  <2>5. EntryAfter(k, (hp.connections \ {c}) \cup {[id |-> c.id, sender |-> "H1Out"]},
                   hp.opening_count, hp.protocol)
    BY <2>3, <2>4 DEF EntryAfter
  <2>6. QED
    BY <1>2, <1>4, <1>5, <1>7, <2>2, <2>5
<1>8. QED
  BY <1>6, <1>7

LEMMA OpenNewEffect ==
    ASSUME IInv, NEW t \in Tasks, OpenNew(t)
    PROVE  LET k == want[t]
               hp == Pruned(pools[k])
           IN  /\ KeyStep(t)
               /\ pc[t] = "acquiring" /\ pc'[t] = "opening_more"
               /\ \A u \in Tasks \ {t} : pc'[u] = pc[u]
               /\ k \in DOMAIN pools
               /\ \E full \in SUBSET InUse(k) : Available(hp, full) = {}
               /\ TotalCount(hp) < ConnectionsPerHost
               /\ EntryAfter(k, hp.connections, hp.opening_count + 1, hp.protocol)
<1> DEFINE k == want[t]
           hp == Pruned(pools[k])
           hp2 == [hp EXCEPT !.opening_count = @ + 1]
<1>1. /\ pc[t] = "acquiring"
      /\ k \in DOMAIN pools
      /\ \E full \in SUBSET InUse(k) : Available(hp, full) = {}
      /\ TotalCount(hp) < ConnectionsPerHost
      /\ pools' = Put(want[t], hp2)
      /\ pc' = [pc EXCEPT ![t] = "opening_more"]
      /\ UNCHANGED <<want, conn>>
  BY DEF OpenNew, BelowLimit
<1>2. KeyStep(t) /\ pc'[t] = "opening_more" /\ \A u \in Tasks \ {t} : pc'[u] = pc[u]
  BY <1>1, AloneStep
<1>3. /\ hp2.connections = hp.connections
      /\ hp2.opening_count = hp.opening_count + 1
      /\ hp2.protocol = hp.protocol
  <2>1. hp \in HostPool
    BY <1>1, EntryFacts, PrunedFields
  <2>2. QED
    BY <2>1 DEF HostPool
<1> HIDE DEF hp2
<1>4. k \in DOMAIN pools' /\ pools'[k] = hp2
  BY <1>1, PutOthers
<1>5. EntryAfter(k, hp.connections, hp.opening_count + 1, hp.protocol)
  BY <1>3, <1>4 DEF EntryAfter
<1>6. QED
  BY <1>1, <1>2, <1>5

LEMMA WaitEffect ==
    ASSUME IInv, NEW t \in Tasks, Wait(t)
    PROVE  LET k == want[t]
               hp == Pruned(pools[k])
           IN  /\ KeyStep(t)
               /\ pc[t] = "acquiring" /\ pc'[t] = "wait"
               /\ \A u \in Tasks \ {t} : pc'[u] = pc[u]
               /\ k \in DOMAIN pools
               /\ \E full \in SUBSET InUse(k) : Available(hp, full) = {}
               /\ ~ (TotalCount(hp) < ConnectionsPerHost)
               /\ EntryAfter(k, hp.connections, hp.opening_count, hp.protocol)
<1> DEFINE k == want[t]
           hp == Pruned(pools[k])
<1>1. /\ pc[t] = "acquiring"
      /\ k \in DOMAIN pools
      /\ \E full \in SUBSET InUse(k) : Available(hp, full) = {}
      /\ ~ (TotalCount(hp) < ConnectionsPerHost)
      /\ pools' = Put(want[t], hp)
      /\ pc' = [pc EXCEPT ![t] = "wait"]
      /\ UNCHANGED <<want, conn>>
  BY DEF Wait, BelowLimit
<1>2. KeyStep(t) /\ pc'[t] = "wait" /\ \A u \in Tasks \ {t} : pc'[u] = pc[u]
  BY <1>1, AloneStep
<1>3. k \in DOMAIN pools' /\ pools'[k] = hp
  BY <1>1, PutOthers
<1>4. EntryAfter(k, hp.connections, hp.opening_count, hp.protocol)
  BY <1>3 DEF EntryAfter
<1>5. QED
  BY <1>1, <1>2, <1>4

\* The steps that end a wait, or begin it, change nothing of the entry but its
\* permit.
LEMMA AfterWaitEffect ==
    ASSUME IInv, NEW t \in Tasks, AfterWait(t)
    PROVE  /\ KeyStep(t)
           /\ pc[t] \in Waiting
           /\ pc'[t] \in {"idle", "acquiring", "parked"}
           /\ \A u \in Tasks \ {t} : pc'[u] = pc[u]
           /\ pc'[t] = "parked" => pc[t] = "wait" /\ pools' = pools
           /\ pc[t] = "wait" \/ pools' = pools
           /\ pools' = pools
                \/ /\ want[t] \in DOMAIN pools
                   /\ EntryAfter(want[t], pools[want[t]].connections,
                                 pools[want[t]].opening_count, pools[want[t]].protocol)
<1>1. CASE TakePermit(t)
  <2> DEFINE k == want[t]
             hp == [pools[k] EXCEPT !.permit = FALSE]
             s == IF attempts[t] + 1 = MaxAttempts THEN "idle" ELSE "acquiring"
  <2>1. /\ pc[t] = "wait"
        /\ pools' = Put(want[t], hp)
        /\ pc' = [pc EXCEPT ![t] = s]
        /\ UNCHANGED <<want, conn>>
        /\ k \in DOMAIN pools
    BY <1>1 DEF TakePermit, NextIteration, IInv, WaitersHaveEntry
  <2>2. s \in {"idle", "acquiring"}
    OBVIOUS
  <2> HIDE DEF s
  <2>3. KeyStep(t) /\ pc'[t] = s /\ \A u \in Tasks \ {t} : pc'[u] = pc[u]
    BY <2>1, AloneStep
  <2>4. /\ hp.connections = pools[k].connections
        /\ hp.opening_count = pools[k].opening_count
        /\ hp.protocol = pools[k].protocol
    BY <2>1, EntryFacts DEF HostPool
  <2> HIDE DEF hp
  <2>5. k \in DOMAIN pools' /\ pools'[k] = hp
    BY <2>1, PutOthers
  <2>6. EntryAfter(k, pools[k].connections, pools[k].opening_count, pools[k].protocol)
    BY <2>4, <2>5 DEF EntryAfter
  <2>7. QED
    BY <2>1, <2>2, <2>3, <2>6 DEF Waiting
<1>2. CASE Park(t)
  <2>1. /\ pc[t] = "wait"
        /\ pools' = pools
        /\ pc' = [pc EXCEPT ![t] = "parked"]
        /\ UNCHANGED <<want, conn, pools>>
    BY <1>2 DEF Park
  <2>2. KeyStep(t) /\ pc'[t] = "parked" /\ \A u \in Tasks \ {t} : pc'[u] = pc[u]
    BY <2>1, AloneStep
  <2>3. QED
    BY <2>1, <2>2 DEF Waiting
<1>3. CASE Wake(t) \/ WaitTimeout(t)
  <2> DEFINE s == IF attempts[t] + 1 = MaxAttempts THEN "idle" ELSE "acquiring"
  <2>1. /\ pc[t] \in Waiting
        /\ pools' = pools
        /\ pc' = [pc EXCEPT ![t] = s]
        /\ UNCHANGED <<want, conn, pools>>
    BY <1>3 DEF Wake, WaitTimeout, NextIteration, Waiting
  <2>2. s \in {"idle", "acquiring"}
    OBVIOUS
  <2> HIDE DEF s
  <2>3. KeyStep(t) /\ pc'[t] = s /\ \A u \in Tasks \ {t} : pc'[u] = pc[u]
    BY <2>1, AloneStep
  <2>4. QED
    BY <2>1, <2>2, <2>3
<1>4. QED
  BY <1>1, <1>2, <1>3 DEF AfterWait

LEMMA OpenSucceedsEffect ==
    ASSUME IInv, NEW t \in Tasks, NEW protocol \in Protocols, OpenSucceeds(t, protocol)
    PROVE  LET k == want[t]
               hp == pools[k]
           IN  /\ KeyStep(t)
               /\ pc[t] \in Opening
               /\ pc'[t] = IF protocol = "Http2" THEN "h2" ELSE "h1"
               /\ \A u \in Tasks \ {t} : pc'[u] = pc[u]
               /\ k \in DOMAIN pools
               /\ protocol \in Negotiable[k]
               /\ hp.opening_count >= 1
               /\ conn'[t] = hp.next_id
               /\ EntryAfter(k, hp.connections \cup
                                  {[id |-> hp.next_id,
                                    sender |-> IF protocol = "Http2" THEN "H2Live" ELSE "H1Out"]},
                             hp.opening_count - 1,
                             IF pc[t] = "opening_first" THEN protocol ELSE hp.protocol)
<1> DEFINE k == want[t]
           hp == pools[k]
           un == Uncounted(hp)
           pr == ProtocolOf(un, pc[t] = "opening_first", protocol)
           c == [id |-> hp.next_id,
                 sender |-> IF protocol = "Http2" THEN "H2Live" ELSE "H1Out"]
           hp2 == [un EXCEPT !.protocol = pr,
                             !.next_id = @ + 1,
                             !.connections = @ \cup {c}]
           s == IF protocol = "Http2" THEN "h2" ELSE "h1"
<1>1. /\ pc[t] \in Opening
      /\ protocol \in Negotiable[k]
      /\ k \in DOMAIN pools
      /\ hp.opening_count >= 1
      /\ hp \in HostPool
  BY OpenerFindsEntry, EntryFacts DEF OpenSucceeds
<1>2. /\ un \in HostPool
      /\ un.connections = hp.connections
      /\ un.next_id = hp.next_id
      /\ un.opening_count = hp.opening_count - 1
      /\ un.protocol = hp.protocol
  BY <1>1, UncountedFacts DEF Uncounted, HostPool
<1>3. /\ pools' = Put(k, hp2)
      /\ conn' = [conn EXCEPT ![t] = hp.next_id]
      /\ pc' = [pc EXCEPT ![t] = s]
      /\ UNCHANGED want
  BY <1>1, <1>2 DEF OpenSucceeds
<1>4. conn'[t] = hp.next_id /\ \A u \in Tasks \ {t} : conn'[u] = conn[u]
  BY <1>3 DEF IInv, TypeOK
<1> HIDE DEF s, hp2, un
<1>5. KeyStep(t) /\ pc'[t] = s /\ \A u \in Tasks \ {t} : pc'[u] = pc[u]
  BY <1>3, <1>4, AloneStep
<1>6. k \in DOMAIN pools' /\ pools'[k] = hp2
  BY <1>3, PutOthers
<1>7. pr = IF pc[t] = "opening_first" THEN protocol ELSE hp.protocol
  BY <1>2 DEF ProtocolOf
<1> HIDE DEF pr, c
<1>8. /\ hp2.connections = hp.connections \cup {c}
      /\ hp2.opening_count = hp.opening_count - 1
      /\ hp2.protocol = pr
  BY <1>2 DEF hp2, HostPool
<1>9. EntryAfter(k, hp.connections \cup {c}, hp.opening_count - 1, pr)
  BY <1>6, <1>8 DEF EntryAfter
<1>10. QED
  BY <1>1, <1>4, <1>5, <1>7, <1>9 DEF s, c

\* A failed opening removes an entry that is left without connections and openers,
\* and notifies otherwise.
LEMMA OpenFailsEffect ==
    ASSUME IInv, NEW t \in Tasks, OpenFails(t)
    PROVE  LET k == want[t]
               hp == pools[k]
           IN  /\ KeyStep(t)
               /\ pc[t] \in Opening /\ pc'[t] = "idle"
               /\ k \in DOMAIN pools
               /\ hp.opening_count >= 1
               /\ \/ k \notin DOMAIN pools'
                  \/ /\ hp.connections # {} \/ hp.opening_count # 1
                     /\ EntryAfter(k, hp.connections, hp.opening_count - 1, hp.protocol)
                     /\ pools'[k].permit \/ At(k, {"woken"})' # {}
<1> DEFINE k == want[t]
           hp == pools[k]
           un == Uncounted(hp)
           p == [pc EXCEPT ![t] = "idle"]
<1>1. /\ pc[t] \in Opening
      /\ pc[t] # "parked"
      /\ k \in DOMAIN pools
      /\ hp.opening_count >= 1
      /\ hp \in HostPool
      /\ UNCHANGED <<want, conn>>
  BY OpenerFindsEntry, EntryFacts DEF OpenFails, Opening
<1>2. /\ un \in HostPool
      /\ un.connections = hp.connections
      /\ un.opening_count = hp.opening_count - 1
      /\ un.protocol = hp.protocol
  BY <1>1, UncountedFacts DEF Uncounted, HostPool
<1>3. CASE Unused(un)
  <2>1. pools' = Remove(k) /\ pc' = Orphan(k, p)
    BY <1>1, <1>3 DEF OpenFails
  <2>2. /\ k \notin DOMAIN pools'
        /\ \A x \in Keys : x # k => /\ x \in DOMAIN pools' <=> x \in DOMAIN pools
                                    /\ x \in DOMAIN pools => pools'[x] = pools[x]
    BY <2>1 DEF Remove
  <2>3. \A u \in Tasks :
          pc'[u] = IF want[u] = k /\ p[u] \in Waiting THEN "orphaned" ELSE p[u]
    BY <2>1 DEF Orphan
  <2>4. p[t] = "idle" /\ \A u \in Tasks \ {t} : p[u] = pc[u]
    BY DEF IInv, TypeOK
  <2>5. KeyStep(t) /\ pc'[t] = "idle"
    BY <1>1, <2>2, <2>3, <2>4 DEF KeyStep, Waiting
  <2>6. QED
    BY <1>1, <2>2, <2>5
<1>4. CASE ~ Unused(un)
  <2>1. NotifyOne(want[t], un, p)
    BY <1>1, <1>4 DEF OpenFails
  <2>2. /\ KeyStep(t)
        /\ pc'[t] = "idle"
        /\ EntryAfter(want[t], un.connections, un.opening_count, un.protocol)
        /\ pools'[want[t]].permit \/ At(want[t], {"woken"})' # {}
    BY <1>1, <1>2, <2>1, Notified
  <2>3. hp.connections # {} \/ hp.opening_count # 1
    BY <1>1, <1>2, <1>4 DEF Unused, HostPool
  <2>4. QED
    BY <1>1, <1>2, <2>2, <2>3
<1>5. QED
  BY <1>3, <1>4

LEMMA ReturnH1Effect ==
    ASSUME IInv, NEW t \in Tasks, ReturnH1(t)
    PROVE  LET k == want[t]
               hp == pools[k]
               slot == [id |-> conn[t], sender |-> "H1Out"]
           IN  /\ KeyStep(t)
               /\ pc[t] = "h1" /\ pc'[t] = "idle"
               /\ k \in DOMAIN pools
               /\ slot \in hp.connections
               /\ EntryAfter(k, (hp.connections \ {slot})
                                  \cup {[id |-> conn[t], sender |-> "H1Idle"]},
                             hp.opening_count, hp.protocol)
               /\ pools'[k].permit \/ At(k, {"woken"})' # {}
<1> DEFINE k == want[t]
           hp == pools[k]
           mine == {c \in hp.connections : c.id = conn[t] /\ c.sender \in {"H1Idle", "H1Out"}}
           slot == [id |-> conn[t], sender |-> "H1Out"]
           idle == [id |-> conn[t], sender |-> "H1Idle"]
           hp2 == WithSender(hp, slot, "H1Idle")
<1>1. /\ pc[t] = "h1"
      /\ pc[t] # "parked"
      /\ k \in DOMAIN pools
      /\ slot \in hp.connections
      /\ UNCHANGED <<want, conn>>
  BY DEF ReturnH1, IInv, ExclusiveCheckout
<1>2. EntryOK(hp) /\ hp \in HostPool
  BY <1>1, EntryFacts
<1>3. mine = {slot}
  <2>1. slot \in mine
    BY <1>1
  <2>2. ASSUME NEW c \in mine PROVE c = slot
    BY <1>1, <1>2 DEF EntryOK
  <2>3. QED
    BY <2>1, <2>2
<1>4. First(mine) = slot
  <2>1. slot.id <= slot.id
    BY DEF IInv, TypeOK
  <2> HIDE DEF mine, slot
  <2>2. \E c \in mine : \A d \in mine : c.id <= d.id
    BY <1>3, <2>1
  <2>3. First(mine) \in mine
    BY <2>2 DEF First
  <2>4. QED
    BY <1>3, <2>3
<1>5. NotifyOne(want[t], hp2, [pc EXCEPT ![t] = "idle"])
  BY <1>1, <1>3, <1>4 DEF ReturnH1
<1>6. /\ hp2 \in HostPool
      /\ hp2.opening_count = hp.opening_count
      /\ hp2.connections = (hp.connections \ {slot}) \cup {idle}
      /\ hp2.protocol = hp.protocol
  <2>1. "H1Idle" \in Senders /\ slot.id = conn[t]
    BY DEF Senders
  <2>2. hp2.protocol = hp.protocol
    BY <1>2 DEF WithSender, HostPool
  <2> HIDE DEF hp2, slot
  <2>3. QED
    BY <1>1, <1>2, <2>1, <2>2, ReplaceFacts DEF hp2, EntryOK
<1> HIDE DEF hp2, slot, idle
<1>7. /\ KeyStep(t)
      /\ pc'[t] = "idle"
      /\ EntryAfter(want[t], hp2.connections, hp2.opening_count, hp2.protocol)
      /\ pools'[want[t]].permit \/ At(want[t], {"woken"})' # {}
  BY <1>1, <1>5, <1>6, Notified
<1>8. QED
  BY <1>1, <1>6, <1>7 DEF slot, idle

LEMMA RemoveDeadEffect ==
    ASSUME IInv, NEW t \in Tasks, RemoveDead(t)
    PROVE  LET k == want[t]
               hp == pools[k]
           IN  /\ KeyStep(t)
               /\ pc[t] = "h1" /\ pc'[t] = "idle"
               /\ k \in DOMAIN pools
               /\ EntryAfter(k, {c \in hp.connections : c.id # conn[t]},
                             hp.opening_count, hp.protocol)
               /\ pools'[k].permit \/ At(k, {"woken"})' # {}
<1> DEFINE k == want[t]
           hp == pools[k]
           hp2 == Retain(hp, conn[t])
<1>1. /\ pc[t] = "h1"
      /\ pc[t] # "parked"
      /\ k \in DOMAIN pools
      /\ UNCHANGED <<want, conn>>
  BY DEF RemoveDead, IInv, ExclusiveCheckout
<1>2. hp \in HostPool
  BY <1>1, EntryFacts
<1>3. NotifyOne(want[t], hp2, [pc EXCEPT ![t] = "idle"])
  BY <1>1 DEF RemoveDead
<1>4. /\ hp2 \in HostPool
      /\ hp2.opening_count = hp.opening_count
      /\ hp2.connections = {c \in hp.connections : c.id # conn[t]}
      /\ hp2.protocol = hp.protocol
  BY <1>2 DEF Retain, HostPool
<1> HIDE DEF hp2
<1>5. /\ KeyStep(t)
      /\ pc'[t] = "idle"
      /\ EntryAfter(want[t], hp2.connections, hp2.opening_count, hp2.protocol)
      /\ pools'[want[t]].permit \/ At(want[t], {"woken"})' # {}
  BY <1>1, <1>3, <1>4, Notified
<1>6. QED
  BY <1>1, <1>4, <1>5

\* A step that notifies and leaves the entry as it is.
LEMMA PlainNotifyEffect ==
    ASSUME IInv, NEW t \in Tasks, want[t] \in DOMAIN pools, pc[t] # "parked",
           UNCHANGED <<want, conn>>,
           NotifyOne(want[t], pools[want[t]], [pc EXCEPT ![t] = "idle"])
    PROVE  LET k == want[t]
               hp == pools[k]
           IN  /\ KeyStep(t)
               /\ pc'[t] = "idle"
               /\ EntryAfter(k, hp.connections, hp.opening_count, hp.protocol)
               /\ pools'[k].permit \/ At(k, {"woken"})' # {}
<1>1. pools[want[t]] \in HostPool
  BY EntryFacts
<1>2. QED
  BY <1>1, Notified

LEMMA NotifyH2CompleteEffect ==
    ASSUME IInv, NEW t \in Tasks, NotifyH2Complete(t)
    PROVE  LET k == want[t]
               hp == pools[k]
           IN  /\ KeyStep(t)
               /\ pc[t] = "h2" /\ pc'[t] = "idle"
               /\ \/ k \notin DOMAIN pools /\ k \notin DOMAIN pools'
                  \/ /\ k \in DOMAIN pools
                     /\ EntryAfter(k, hp.connections, hp.opening_count, hp.protocol)
                     /\ pools'[k].permit \/ At(k, {"woken"})' # {}
<1>1. pc[t] = "h2" /\ pc[t] # "parked" /\ UNCHANGED <<want, conn>>
  BY DEF NotifyH2Complete
<1>2. CASE want[t] \in DOMAIN pools
  BY <1>1, <1>2, PlainNotifyEffect DEF NotifyH2Complete
<1>3. CASE want[t] \notin DOMAIN pools
  <2>1. pc' = [pc EXCEPT ![t] = "idle"] /\ UNCHANGED pools
    BY <1>3 DEF NotifyH2Complete
  <2>2. KeyStep(t) /\ pc'[t] = "idle"
    BY <1>1, <2>1, AloneStep
  <2>3. QED
    BY <1>1, <1>3, <2>1, <2>2
<1>4. QED
  BY <1>2, <1>3

\* A task that is dropped leaves the entry as it is.
LEMMA AbortEffect ==
    ASSUME IInv, NEW t \in Tasks, Abort(t)
    PROVE  LET k == want[t]
               hp == pools[k]
           IN  /\ KeyStep(t)
               /\ Cancellation
               /\ pc'[t] = "idle"
               /\ \/ pools' = pools
                  \/ /\ k \in DOMAIN pools
                     /\ EntryAfter(k, hp.connections, hp.opening_count, hp.protocol)
<1>1. Cancellation /\ UNCHANGED <<want, conn>>
  BY DEF Abort
<1>2. CASE pc[t] = "woken"
  <2>1. /\ want[t] \in DOMAIN pools
        /\ pc[t] # "parked"
        /\ NotifyOne(want[t], pools[want[t]], [pc EXCEPT ![t] = "idle"])
    BY <1>2 DEF Abort, IInv, WaitersHaveEntry
  <2>2. QED
    BY <1>1, <2>1, PlainNotifyEffect
<1>3. CASE pc[t] # "woken"
  <2>1. pc' = [pc EXCEPT ![t] = "idle"] /\ UNCHANGED pools
    BY <1>3 DEF Abort
  <2>2. KeyStep(t) /\ pc'[t] = "idle"
    BY <1>1, <2>1, AloneStep
  <2>3. QED
    BY <1>1, <2>1, <2>2
<1>4. QED
  BY <1>2, <1>3

LEMMA CallEffect ==
    ASSUME IInv, NEW t \in Tasks, NEW k \in Keys, Call(t, k)
    PROVE  /\ pools' = pools
           /\ pc[t] = "idle" /\ pc'[t] = "acquiring" /\ want'[t] = k
           /\ conn' = conn
           /\ \A u \in Tasks \ {t} : pc'[u] = pc[u] /\ want'[u] = want[u]
BY DEF Call, IInv, TypeOK

LEMMA CloseH2Effect ==
    ASSUME IInv, NEW k \in Keys, CloseH2(k)
    PROVE  LET hp == pools[k]
           IN  /\ UNCHANGED <<pc, want, conn>>
               /\ k \in DOMAIN pools
               /\ \E c \in hp.connections :
                    /\ c.sender = "H2Live"
                    /\ EntryAfter(k, (hp.connections \ {c})
                                       \cup {[id |-> c.id, sender |-> "H2Dead"]},
                                  hp.opening_count, hp.protocol)
               /\ Cardinality(pools'[k].connections) = Cardinality(hp.connections)
               /\ pools'[k].permit = hp.permit
               /\ \A x \in Keys : x # k => /\ x \in DOMAIN pools' <=> x \in DOMAIN pools
                                           /\ x \in DOMAIN pools => pools'[x] = pools[x]
<1> DEFINE hp == pools[k]
<1>1. /\ UNCHANGED <<pc, want, conn>>
      /\ k \in DOMAIN pools
  BY DEF CloseH2, taskVars
<1>2. PICK c \in hp.connections :
         /\ c.sender = "H2Live"
         /\ pools' = Put(k, WithSender(hp, c, "H2Dead"))
  BY DEF CloseH2
<1> DEFINE hp2 == WithSender(hp, c, "H2Dead")
           d == [id |-> c.id, sender |-> "H2Dead"]
<1>3. EntryOK(hp) /\ hp \in HostPool
  BY <1>1, EntryFacts
<1>4. /\ hp2.opening_count = hp.opening_count
      /\ hp2.connections = (hp.connections \ {c}) \cup {d}
      /\ hp2.protocol = hp.protocol
      /\ hp2.permit = hp.permit
  <2>1. "H2Dead" \in Senders
    BY DEF Senders
  <2>2. hp2.protocol = hp.protocol /\ hp2.permit = hp.permit
    BY <1>3 DEF WithSender, HostPool
  <2>3. QED
    BY <1>2, <1>3, <2>1, <2>2, ReplaceFacts
<1>5. Cardinality((hp.connections \ {c}) \cup {d}) = Cardinality(hp.connections)
  <2> DEFINE C == hp.connections \ {c}
  <2>1. /\ IsFiniteSet(C)
        /\ Cardinality(C) = Cardinality(hp.connections) - 1
        /\ Cardinality(hp.connections) \in Nat
    BY <1>2, <1>3, FS_RemoveElement, FS_CardinalityType DEF EntryOK
  <2>2. d \notin C
    BY <1>2, <1>3 DEF EntryOK
  <2>3. Cardinality(C \cup {d}) = Cardinality(C) + 1
    BY <2>1, <2>2, FS_AddElement
  <2>4. QED
    BY <2>1, <2>3
<1> HIDE DEF hp2
<1>6. /\ k \in DOMAIN pools'
      /\ pools'[k] = hp2
      /\ \A x \in Keys : x # k => /\ x \in DOMAIN pools' <=> x \in DOMAIN pools
                                  /\ x \in DOMAIN pools => pools'[x] = pools[x]
  BY <1>2, PutOthers DEF hp2
<1>7. QED
  BY <1>1, <1>2, <1>4, <1>5, <1>6 DEF EntryAfter

-----------------------------------------------------------------------------
(* No slot and no opening is lost: CheckedOutMeansHeld *)

\* The tasks of another key stay where they are.
LEMMA OtherKeysAt ==
    ASSUME NEW t \in Tasks, KeyStep(t), NEW x, x # want[t], NEW places
    PROVE  At(x, places)' = At(x, places)
BY DEF KeyStep, At

\* How the number of the tasks that open follows the step of t.
LEMMA OpenersChange ==
    ASSUME NEW t \in Tasks, KeyStep(t), NEW k, k = want[t]
    PROVE  LET A == At(k, Opening)
               B == At(k, Opening)'
           IN  /\ Cardinality(A) \in Nat
               /\ pc[t] \in Opening /\ pc'[t] \notin Opening
                    => Cardinality(B) = Cardinality(A) - 1
               /\ pc[t] \notin Opening /\ pc'[t] \in Opening
                    => Cardinality(B) = Cardinality(A) + 1
               /\ (pc[t] \in Opening <=> pc'[t] \in Opening) => B = A
<1> DEFINE A == At(k, Opening)
           B == At(k, Opening)'
<1>1. \A u \in Tasks \ {t} : want'[u] = want[u] /\ (pc'[u] \in Opening <=> pc[u] \in Opening)
  BY DEF KeyStep, Opening, Waiting
<1>2. want'[t] = k /\ want[t] = k
  BY DEF KeyStep
<1>3. IsFiniteSet(A) /\ Cardinality(A) \in Nat
  BY AtFinite
<1>4. CASE pc[t] \in Opening /\ pc'[t] \notin Opening
  <2>1. B = A \ {t} /\ t \in A
    BY <1>1, <1>2, <1>4 DEF At, Opening
  <2>2. QED
    BY <1>3, <1>4, <2>1, FS_RemoveElement
<1>5. CASE pc[t] \notin Opening /\ pc'[t] \in Opening
  <2>1. B = A \cup {t} /\ t \notin A
    BY <1>1, <1>2, <1>5 DEF At, Opening
  <2>2. QED
    BY <1>3, <1>5, <2>1, FS_AddElement
<1>6. CASE pc[t] \in Opening <=> pc'[t] \in Opening
  BY <1>1, <1>2, <1>3, <1>6 DEF At, Opening
<1>7. QED
  BY <1>3, <1>4, <1>5, <1>6

\* A step of t keeps CheckedOutMeansHeld when a slot it leaves empty in the entry
\* of its key is its own, or was empty and not its own, and opening_count follows.
LEMMA HeldStep ==
    ASSUME IInv, IInv', CheckedOutMeansHeld, NEW t \in Tasks, KeyStep(t),
           NEW k, k = want[t],
           k \in DOMAIN pools' =>
             /\ \A c \in pools'[k].connections :
                  c.sender = "H1Out" =>
                    \/ pc'[t] = "h1" /\ conn'[t] = c.id
                    \/ /\ k \in DOMAIN pools
                       /\ c \in pools[k].connections
                       /\ ~ (pc[t] = "h1" /\ conn[t] = c.id)
             /\ pools'[k].opening_count = Cardinality(At(k, Opening)')
    PROVE  CheckedOutMeansHeld'
<1> SUFFICES ASSUME NEW x \in DOMAIN pools'
             PROVE  /\ \A c \in pools'[x].connections :
                         c.sender = "H1Out" => \E u \in At(x, {"h1"})' : conn'[u] = c.id
                    /\ pools'[x].opening_count = Cardinality(At(x, Opening)')
  BY DEF CheckedOutMeansHeld
<1>1. CASE x # k
  <2>1. x \in DOMAIN pools /\ pools'[x] = pools[x]
    <3>1. x \in Keys
      BY DEF IInv, TypeOK
    <3>2. QED
      BY <1>1, <3>1 DEF KeyStep
  <2>2. At(x, {"h1"})' = At(x, {"h1"}) /\ At(x, Opening)' = At(x, Opening)
    BY <1>1, OtherKeysAt DEF Opening
  <2>3. \A u \in At(x, {"h1"}) : conn'[u] = conn[u]
    BY <1>1 DEF At, KeyStep
  <2>4. QED
    BY <2>1, <2>2, <2>3 DEF CheckedOutMeansHeld
<1>2. CASE x = k
  <2>1. ASSUME NEW c \in pools'[k].connections, c.sender = "H1Out"
        PROVE  \E u \in At(k, {"h1"})' : conn'[u] = c.id
    <3>1. CASE pc'[t] = "h1" /\ conn'[t] = c.id
      BY <3>1 DEF At, KeyStep
    <3>2. CASE /\ k \in DOMAIN pools
               /\ c \in pools[k].connections
               /\ ~ (pc[t] = "h1" /\ conn[t] = c.id)
      <4>1. PICK u \in At(k, {"h1"}) : conn[u] = c.id
        BY <2>1, <3>2 DEF CheckedOutMeansHeld
      <4>2. u \in Tasks \ {t} /\ want[u] = k /\ pc[u] = "h1"
        BY <3>2, <4>1 DEF At
      <4>3. pc'[u] = "h1" /\ conn'[u] = c.id /\ want'[u] = k
        BY <4>1, <4>2 DEF KeyStep, Waiting
      <4>4. QED
        BY <4>2, <4>3 DEF At
    <3>3. QED
      BY <1>2, <2>1, <3>1, <3>2
  <2>2. QED
    BY <1>2, <2>1
<1>3. QED
  BY <1>1, <1>2

LEMMA AcquireHolds ==
    ASSUME IInv, IInv', CheckedOutMeansHeld, NEW t \in Tasks, Acquire(t)
    PROVE  CheckedOutMeansHeld'
<1>0. PICK k : k = want[t]
  OBVIOUS
<1> USE <1>0
<1> DEFINE hp == pools[k]
           A == At(k, Opening)
           B == At(k, Opening)'
<1>1. CASE InsertEntry(t)
  <2>1. /\ KeyStep(t)
        /\ pc[t] \notin Opening /\ pc'[t] \in Opening
        /\ k \notin DOMAIN pools
        /\ EntryAfter(want[t], {}, 1, "Http2")
    BY <1>1, InsertEntryEffect DEF Opening
  <2>2. Cardinality(B) = Cardinality(A) + 1
    BY <2>1, OpenersChange
  <2>3. Cardinality(A) = 0
    BY <2>1, FS_EmptySet DEF IInv, OpenersAccounted, TypeOK
  <2> HIDE DEF A, B
  <2>4. pools'[k].connections = {} /\ pools'[k].opening_count = Cardinality(B)
    BY <2>1, <2>2, <2>3 DEF EntryAfter
  <2>5. QED
    BY <2>1, <2>4, HeldStep DEF B
<1>2. CASE ReturnExisting(t)
  <2>1. /\ KeyStep(t)
        /\ pc[t] = "acquiring"
        /\ k \in DOMAIN pools
    BY <1>2, ReturnExistingEffect
  <2>2. PICK c \in Pruned(hp).connections :
          /\ conn'[t] = c.id
          /\ \/ /\ pc'[t] = "h2"
                /\ EntryAfter(k, Pruned(hp).connections, Pruned(hp).opening_count,
                              Pruned(hp).protocol)
             \/ /\ pc'[t] = "h1"
                /\ EntryAfter(k, (Pruned(hp).connections \ {c})
                                   \cup {[id |-> c.id, sender |-> "H1Out"]},
                              Pruned(hp).opening_count, Pruned(hp).protocol)
    BY <1>2, ReturnExistingEffect
  <2>3. Pruned(hp).connections \subseteq hp.connections
        /\ Pruned(hp).opening_count = hp.opening_count
    BY <2>1, EntryFacts, PrunedFields
  <2>4. B = A
    BY <2>1, <2>2, OpenersChange DEF Opening
  <2>5. pools'[k].opening_count = Cardinality(B)
    BY <2>1, <2>2, <2>3, <2>4 DEF EntryAfter, CheckedOutMeansHeld
  <2>6. \A d \in pools'[k].connections :
          d.sender = "H1Out" =>
            \/ pc'[t] = "h1" /\ conn'[t] = d.id
            \/ d \in hp.connections
    BY <2>2, <2>3 DEF EntryAfter
  <2>7. QED
    BY <2>1, <2>5, <2>6, HeldStep
<1>3. CASE OpenNew(t)
  <2>1. /\ KeyStep(t)
        /\ pc[t] = "acquiring" /\ pc'[t] = "opening_more"
        /\ k \in DOMAIN pools
        /\ EntryAfter(k, Pruned(hp).connections, Pruned(hp).opening_count + 1,
                      Pruned(hp).protocol)
    BY <1>3, OpenNewEffect
  <2>2. Pruned(hp).connections \subseteq hp.connections
        /\ Pruned(hp).opening_count = hp.opening_count
    BY <2>1, EntryFacts, PrunedFields
  <2>3. Cardinality(B) = Cardinality(A) + 1
    BY <2>1, OpenersChange DEF Opening
  <2>4. pools'[k].opening_count = Cardinality(B)
    BY <2>1, <2>2, <2>3 DEF EntryAfter, CheckedOutMeansHeld
  <2>5. QED
    BY <2>1, <2>2, <2>4, HeldStep DEF EntryAfter
<1>4. CASE Wait(t)
  <2>1. /\ KeyStep(t)
        /\ pc[t] = "acquiring" /\ pc'[t] = "wait"
        /\ k \in DOMAIN pools
        /\ EntryAfter(k, Pruned(hp).connections, Pruned(hp).opening_count,
                      Pruned(hp).protocol)
    BY <1>4, WaitEffect
  <2>2. Pruned(hp).connections \subseteq hp.connections
        /\ Pruned(hp).opening_count = hp.opening_count
    BY <2>1, EntryFacts, PrunedFields
  <2>3. B = A
    BY <2>1, OpenersChange DEF Opening
  <2>4. pools'[k].opening_count = Cardinality(B)
    BY <2>1, <2>2, <2>3 DEF EntryAfter, CheckedOutMeansHeld
  <2>5. QED
    BY <2>1, <2>2, <2>4, HeldStep DEF EntryAfter
<1>5. QED
  BY <1>1, <1>2, <1>3, <1>4 DEF Acquire

LEMMA OpenedHolds ==
    ASSUME IInv, IInv', CheckedOutMeansHeld, NEW t \in Tasks, Opened(t)
    PROVE  CheckedOutMeansHeld'
<1>0. PICK k : k = want[t]
  OBVIOUS
<1> USE <1>0
<1> DEFINE hp == pools[k]
           A == At(k, Opening)
           B == At(k, Opening)'
<1>1. ASSUME NEW protocol \in Protocols, OpenSucceeds(t, protocol)
      PROVE  CheckedOutMeansHeld'
  <2> DEFINE c == [id |-> hp.next_id,
                   sender |-> IF protocol = "Http2" THEN "H2Live" ELSE "H1Out"]
  <2>1. /\ KeyStep(t)
        /\ pc[t] \in Opening
        /\ pc'[t] = IF protocol = "Http2" THEN "h2" ELSE "h1"
        /\ k \in DOMAIN pools
        /\ conn'[t] = hp.next_id
    BY <1>1, OpenSucceedsEffect
  <2>2. \E pr : EntryAfter(k, hp.connections \cup {c}, hp.opening_count - 1, pr)
    BY <1>1, OpenSucceedsEffect
  <2>3. Cardinality(B) = Cardinality(A) - 1
    BY <2>1, OpenersChange DEF Opening
  <2>4. pools'[k].opening_count = Cardinality(B)
    BY <2>1, <2>2, <2>3 DEF EntryAfter, CheckedOutMeansHeld
  <2>5. pools'[k].connections = hp.connections \cup {c}
    BY <2>2 DEF EntryAfter
  <2>6. \A d \in pools'[k].connections :
          d.sender = "H1Out" =>
            \/ pc'[t] = "h1" /\ conn'[t] = d.id
            \/ d \in hp.connections
    BY <2>1, <2>5
  <2>7. pc[t] # "h1"
    BY <2>1 DEF Opening
  <2>8. QED
    BY <2>1, <2>4, <2>6, <2>7, HeldStep
<1>2. CASE OpenFails(t)
  <2>1. /\ KeyStep(t)
        /\ pc[t] \in Opening /\ pc'[t] = "idle"
        /\ k \in DOMAIN pools
        /\ \/ k \notin DOMAIN pools'
           \/ EntryAfter(k, hp.connections, hp.opening_count - 1, hp.protocol)
    BY <1>2, OpenFailsEffect
  <2>2. Cardinality(B) = Cardinality(A) - 1
    BY <2>1, OpenersChange DEF Opening
  <2>3. pc[t] # "h1"
    BY <2>1 DEF Opening
  <2>4. k \in DOMAIN pools' => /\ pools'[k].opening_count = Cardinality(B)
                               /\ pools'[k].connections = hp.connections
    BY <2>1, <2>2 DEF EntryAfter, CheckedOutMeansHeld
  <2>5. QED
    BY <2>1, <2>3, <2>4, HeldStep
<1>3. QED
  BY <1>1, <1>2 DEF Opened

LEMMA FinishHolds ==
    ASSUME IInv, IInv', CheckedOutMeansHeld, NEW t \in Tasks, Finish(t)
    PROVE  CheckedOutMeansHeld'
<1>0. PICK k : k = want[t]
  OBVIOUS
<1> USE <1>0
<1> DEFINE hp == pools[k]
<1>1. KeyStep(t) /\ pc[t] \in Holding /\ pc'[t] = "idle"
  BY ReturnH1Effect, RemoveDeadEffect, NotifyH2CompleteEffect DEF Finish, Holding
<1>2. At(k, Opening)' = At(k, Opening)
  BY <1>1, OpenersChange DEF Opening, Holding
<1>3. k \in DOMAIN pools' => k \in DOMAIN pools /\ pools'[k].opening_count = hp.opening_count
  BY ReturnH1Effect, RemoveDeadEffect, NotifyH2CompleteEffect DEF Finish, EntryAfter
<1>4. k \in DOMAIN pools' => pools'[k].opening_count = Cardinality(At(k, Opening)')
  BY <1>2, <1>3 DEF CheckedOutMeansHeld
<1>5. CASE ReturnH1(t)
  <2>1. pools'[k].connections = (hp.connections \ {[id |-> conn[t], sender |-> "H1Out"]})
                                  \cup {[id |-> conn[t], sender |-> "H1Idle"]}
    BY <1>5, ReturnH1Effect DEF EntryAfter
  <2>2. EntryOK(hp) /\ hp.connections \subseteq PooledConnection /\ k \in DOMAIN pools
    BY <1>5, ReturnH1Effect, EntryFacts
  <2>3. \A c \in pools'[k].connections :
          c.sender = "H1Out" => c \in hp.connections /\ conn[t] # c.id
    BY <2>1, <2>2 DEF PooledConnection
  <2>4. QED
    BY <1>1, <1>4, <2>2, <2>3, HeldStep
<1>6. CASE RemoveDead(t)
  <2>1. pools'[k].connections = {c \in hp.connections : c.id # conn[t]}
        /\ k \in DOMAIN pools
    BY <1>6, RemoveDeadEffect DEF EntryAfter
  <2>2. QED
    BY <1>1, <1>4, <2>1, HeldStep
<1>7. CASE NotifyH2Complete(t)
  <2>1. /\ pc[t] = "h2"
        /\ k \in DOMAIN pools' => pools'[k].connections = hp.connections
    BY <1>7, NotifyH2CompleteEffect DEF EntryAfter
  <2>2. QED
    BY <1>1, <1>3, <1>4, <2>1, HeldStep
<1>8. QED
  BY <1>5, <1>6, <1>7 DEF Finish

LEMMA NextHolds ==
    ASSUME ~ Cancellation, IInv, IInv', CheckedOutMeansHeld, [Next]_vars
    PROVE  CheckedOutMeansHeld'
<1>1. CASE UNCHANGED vars
  BY <1>1 DEF vars, taskVars, CheckedOutMeansHeld, At, Opening
<1>2. ASSUME NEW t \in Tasks, NEW k \in Keys, Call(t, k) PROVE CheckedOutMeansHeld'
  <2>1. /\ pools' = pools
        /\ pc[t] = "idle" /\ pc'[t] = "acquiring"
        /\ conn' = conn
        /\ \A u \in Tasks \ {t} : pc'[u] = pc[u] /\ want'[u] = want[u]
    BY <1>2, CallEffect
  <2>2. \A x : At(x, Opening)' = At(x, Opening) /\ At(x, {"h1"})' = At(x, {"h1"})
    BY <2>1 DEF At, Opening
  <2>3. QED
    BY <2>1, <2>2 DEF CheckedOutMeansHeld
<1>3. ASSUME NEW t \in Tasks, AfterWait(t) PROVE CheckedOutMeansHeld'
  <2>0. PICK k : k = want[t]
    OBVIOUS
  <2> USE <2>0
  <2>1. /\ KeyStep(t)
        /\ pc[t] \in Waiting
        /\ pc'[t] \in {"idle", "acquiring", "parked"}
        /\ k \in DOMAIN pools' => /\ k \in DOMAIN pools
                                  /\ pools'[k].connections = pools[k].connections
                                  /\ pools'[k].opening_count = pools[k].opening_count
    BY <1>3, AfterWaitEffect DEF EntryAfter
  <2>2. At(k, Opening)' = At(k, Opening)
    BY <2>1, OpenersChange DEF Opening, Waiting
  <2>3. pc[t] # "h1"
    BY <2>1 DEF Waiting
  <2>4. k \in DOMAIN pools' => pools'[k].opening_count = Cardinality(At(k, Opening)')
    BY <2>1, <2>2 DEF CheckedOutMeansHeld
  <2>5. QED
    BY <2>1, <2>3, <2>4, HeldStep
<1>4. ASSUME NEW k \in Keys, CloseH2(k) PROVE CheckedOutMeansHeld'
  <2>1. /\ UNCHANGED <<pc, want, conn>>
        /\ k \in DOMAIN pools
        /\ \A x \in Keys : x # k => /\ x \in DOMAIN pools' <=> x \in DOMAIN pools
                                    /\ x \in DOMAIN pools => pools'[x] = pools[x]
    BY <1>4, CloseH2Effect
  <2>2. PICK c \in pools[k].connections :
          EntryAfter(k, (pools[k].connections \ {c}) \cup {[id |-> c.id, sender |-> "H2Dead"]},
                     pools[k].opening_count, pools[k].protocol)
    BY <1>4, CloseH2Effect
  <2>3. /\ pools'[k].opening_count = pools[k].opening_count
        /\ \A d \in pools'[k].connections : d.sender = "H1Out" => d \in pools[k].connections
    BY <2>2 DEF EntryAfter
  <2>4. \A x : At(x, Opening)' = At(x, Opening) /\ At(x, {"h1"})' = At(x, {"h1"})
    BY <2>1 DEF At, Opening
  <2>5. DOMAIN pools' \subseteq Keys
    BY DEF IInv, TypeOK
  <2>6. QED
    BY <2>1, <2>3, <2>4, <2>5 DEF CheckedOutMeansHeld
<1>5. ~ (\E t \in Tasks : Abort(t))
  BY DEF Abort
<1>6. QED
  BY <1>1, <1>2, <1>3, <1>4, <1>5, AcquireHolds, OpenedHolds, FinishHolds DEF Next, Finished

\* Without a batch deadline no slot stays empty for ever and no opening stays
\* counted: an empty H1 slot is that of a handle, and opening_count is the number
\* of the tasks that open (pool.rs:42-44, 321-332).
THEOREM NothingLost ==
    ASSUME ~ Cancellation
    PROVE  Spec => []CheckedOutMeansHeld
<1>1. Init => CheckedOutMeansHeld
  BY DEF Init, CheckedOutMeansHeld
<1>2. IInv /\ IInv' /\ CheckedOutMeansHeld /\ [Next]_vars => CheckedOutMeansHeld'
  BY NextHolds
<1>3. QED
  BY <1>1, <1>2, Invariance, PTL DEF Spec

-----------------------------------------------------------------------------
(* An entry has connections of its protocol: ReturnsExistingIfAvailable *)

\* The configurations in which the protocol of an entry is that of its host: the
\* entry starts as Http2, so that a host of HTTP/1.1 may have one connection only
\* (PoolMispinned shows what a second opener does), and no host has both.
OneProtocol ==
    \A k \in Keys : \/ Negotiable[k] \subseteq {"Http2"}
                    \/ Negotiable[k] \subseteq {"Http1"} /\ ConnectionsPerHost <= 1

\* Of each entry, `more` being the tasks that open another connection for it: its
\* connections are of its protocol, which is that of the host, unless the host is
\* of HTTP/1.1 and the first opener is still under way, alone.
SortedEntry(k, hp, more) ==
    /\ \A c \in hp.connections :
         c.sender \in IF hp.protocol = "Http2" THEN {"H2Live", "H2Dead"}
                                               ELSE {"H1Idle", "H1Out"}
    /\ Negotiable[k] \subseteq {"Http2"} => hp.protocol = "Http2"
    /\ ~ (Negotiable[k] \subseteq {"Http2"}) /\ hp.protocol = "Http2"
         => hp.opening_count >= 1 /\ more = {}

Sorted == \A k \in DOMAIN pools : SortedEntry(k, pools[k], At(k, {"opening_more"}))

\* A step of t keeps Sorted when it keeps it of the entry of its key.
LEMMA SortedStep ==
    ASSUME IInv', Sorted, NEW t \in Tasks, KeyStep(t), NEW k, k = want[t],
           k \in DOMAIN pools' =>
             \E more : /\ SortedEntry(k, pools'[k], more)
                       /\ more = {} => /\ pc'[t] # "opening_more"
                                       /\ At(k, {"opening_more"}) = {}
    PROVE  Sorted'
<1> SUFFICES ASSUME NEW x \in DOMAIN pools'
             PROVE  SortedEntry(x, pools'[x], At(x, {"opening_more"})')
  BY DEF Sorted, SortedEntry
<1>1. CASE x # k
  <2>1. x \in Keys
    BY DEF IInv, TypeOK
  <2>2. x \in DOMAIN pools /\ pools'[x] = pools[x]
    BY <1>1, <2>1 DEF KeyStep
  <2>3. At(x, {"opening_more"})' = At(x, {"opening_more"})
    BY <1>1, OtherKeysAt
  <2>4. QED
    BY <2>2, <2>3 DEF Sorted
<1>2. CASE x = k
  <2>1. PICK more : /\ SortedEntry(k, pools'[k], more)
                    /\ more = {} => /\ pc'[t] # "opening_more"
                                    /\ At(k, {"opening_more"}) = {}
    BY <1>2
  <2>2. more = {} => At(k, {"opening_more"})' = {}
    BY <2>1 DEF KeyStep, Waiting, At
  <2>3. QED
    BY <1>2, <2>1, <2>2 DEF SortedEntry
<1>3. QED
  BY <1>1, <1>2

\* So does a step that keeps the protocol of the entry, counts no opening less and
\* puts connections of that protocol only into it.
LEMMA SameProtocol ==
    ASSUME IInv, IInv', Sorted, NEW t \in Tasks, KeyStep(t), NEW k, k = want[t],
           pc'[t] # "opening_more",
           k \in DOMAIN pools' =>
             /\ k \in DOMAIN pools
             /\ pools'[k].protocol = pools[k].protocol
             /\ pools'[k].opening_count >= pools[k].opening_count
             /\ \A c \in pools'[k].connections :
                  c.sender \in IF pools[k].protocol = "Http2" THEN {"H2Live", "H2Dead"}
                                                              ELSE {"H1Idle", "H1Out"}
    PROVE  Sorted'
<1> SUFFICES ASSUME k \in DOMAIN pools'
             PROVE  \E more : /\ SortedEntry(k, pools'[k], more)
                              /\ more = {} => /\ pc'[t] # "opening_more"
                                              /\ At(k, {"opening_more"}) = {}
  BY SortedStep
<1> DEFINE more == At(k, {"opening_more"})
<1>1. SortedEntry(k, pools[k], more)
  BY DEF Sorted
<1>2. pools'[k].opening_count \in Nat /\ pools[k].opening_count \in Nat
  BY EntryFacts DEF IInv, TypeOK, HostPool
<1>3. SortedEntry(k, pools'[k], more)
  BY <1>1, <1>2 DEF SortedEntry
<1>4. QED
  BY <1>3

LEMMA AcquireSorted ==
    ASSUME OneProtocol, IInv, IInv', Sorted, NEW t \in Tasks, Acquire(t)
    PROVE  Sorted'
<1>0. PICK k \in Keys : k = want[t]
  BY DEF IInv, TypeOK
<1> USE <1>0
<1> DEFINE hp == pools[k]
<1>1. CASE InsertEntry(t)
  <2>1. /\ KeyStep(t)
        /\ pc'[t] = "opening_first"
        /\ k \notin DOMAIN pools
        /\ EntryAfter(k, {}, 1, "Http2")
    BY <1>1, InsertEntryEffect
  <2>2. At(k, {"opening_more"}) = {}
    BY <2>1 DEF IInv, OpenersAccounted, At, Opening
  <2>3. SortedEntry(k, pools'[k], {})
    BY <2>1 DEF SortedEntry, EntryAfter
  <2>4. QED
    BY <2>1, <2>2, <2>3, SortedStep
<1>2. ASSUME k \in DOMAIN pools
      PROVE  /\ SortedEntry(k, hp, At(k, {"opening_more"}))
             /\ Pruned(hp).protocol = hp.protocol
             /\ Pruned(hp).opening_count = hp.opening_count
             /\ Pruned(hp).connections \subseteq hp.connections
             /\ hp.opening_count \in Nat
  BY <1>2, EntryFacts, PrunedFields DEF Sorted
<1>3. CASE ReturnExisting(t)
  <2>1. KeyStep(t) /\ k \in DOMAIN pools
    BY <1>3, ReturnExistingEffect
  <2>2. PICK c \in Pruned(hp).connections :
          /\ pc'[t] \in {"h1", "h2"}
          /\ \/ EntryAfter(k, Pruned(hp).connections, Pruned(hp).opening_count,
                           Pruned(hp).protocol)
             \/ /\ Pruned(hp).protocol # "Http2"
                /\ EntryAfter(k, (Pruned(hp).connections \ {c})
                                   \cup {[id |-> c.id, sender |-> "H1Out"]},
                              Pruned(hp).opening_count, Pruned(hp).protocol)
    BY <1>3, ReturnExistingEffect
  <2>3. /\ pc'[t] # "opening_more"
        /\ pools'[k].protocol = hp.protocol
        /\ pools'[k].opening_count = hp.opening_count
        /\ \A d \in pools'[k].connections :
             d \in hp.connections \/ (hp.protocol # "Http2" /\ d.sender = "H1Out")
    BY <1>2, <2>1, <2>2 DEF EntryAfter
  <2>4. hp.opening_count >= hp.opening_count
    BY <1>2, <2>1
  <2>5. QED
    BY <1>2, <2>1, <2>3, <2>4, SameProtocol DEF SortedEntry
<1>4. CASE OpenNew(t)
  <2>1. /\ KeyStep(t)
        /\ k \in DOMAIN pools
        /\ TotalCount(Pruned(hp)) < ConnectionsPerHost
        /\ EntryAfter(k, Pruned(hp).connections, Pruned(hp).opening_count + 1,
                      Pruned(hp).protocol)
    BY <1>4, OpenNewEffect
  <2>2. IsFiniteSet(Pruned(hp).connections) /\ Cardinality(Pruned(hp).connections) \in Nat
    BY <2>1, SlotsKept, FS_CardinalityType DEF EntryOK
  <2>3. ~ (Negotiable[k] \subseteq {"Http2"}) => hp.protocol # "Http2"
    <3>1. SUFFICES ASSUME ~ (Negotiable[k] \subseteq {"Http2"}), hp.protocol = "Http2"
                   PROVE  FALSE
      OBVIOUS
    <3>2. ConnectionsPerHost <= 1
      BY <3>1 DEF OneProtocol
    <3>3. hp.opening_count >= 1
      BY <1>2, <2>1, <3>1 DEF SortedEntry
    <3>4. QED
      BY <1>2, <2>1, <2>2, <3>2, <3>3, LimitAssumption DEF TotalCount
  <2>4. SortedEntry(k, pools'[k], {t})
    BY <1>2, <2>1, <2>3 DEF SortedEntry, EntryAfter
  <2>5. QED
    BY <2>1, <2>4, SortedStep
<1>5. CASE Wait(t)
  <2>1. /\ KeyStep(t)
        /\ pc'[t] = "wait"
        /\ k \in DOMAIN pools
        /\ EntryAfter(k, Pruned(hp).connections, Pruned(hp).opening_count,
                      Pruned(hp).protocol)
    BY <1>5, WaitEffect
  <2>2. hp.opening_count >= hp.opening_count
    BY <1>2, <2>1
  <2>3. /\ pools'[k].protocol = hp.protocol
        /\ pools'[k].opening_count = hp.opening_count
        /\ pools'[k].connections \subseteq hp.connections
    BY <1>2, <2>1 DEF EntryAfter
  <2>4. QED
    BY <1>2, <2>1, <2>2, <2>3, SameProtocol DEF SortedEntry
<1>6. QED
  BY <1>1, <1>3, <1>4, <1>5 DEF Acquire

\* The first opener of a host of HTTP/1.1 is alone: there is room for it only.
LEMMA FirstAlone ==
    ASSUME OneProtocol, IInv, NEW k \in Keys, k \in DOMAIN pools,
           ~ (Negotiable[k] \subseteq {"Http2"}), pools[k].opening_count >= 1
    PROVE  pools[k].connections = {} /\ pools[k].opening_count = 1
<1>1. Limit = 1
  BY LimitAssumption DEF OneProtocol, Limit
<1>2. /\ Cardinality(pools[k].connections) = 0
      /\ pools[k].opening_count = 1
      /\ IsFiniteSet(pools[k].connections)
  BY <1>1, EntryFacts
<1>3. QED
  BY <1>2, FS_EmptySet

LEMMA OpenedSorted ==
    ASSUME OneProtocol, IInv, IInv', Sorted, NEW t \in Tasks, Opened(t)
    PROVE  Sorted'
<1>0. PICK k \in Keys : k = want[t]
  BY DEF IInv, TypeOK
<1> USE <1>0
<1> DEFINE hp == pools[k]
           more == At(k, {"opening_more"})
<1>1. KeyStep(t) /\ k \in DOMAIN pools /\ hp.opening_count >= 1
  BY OpenSucceedsEffect, OpenFailsEffect DEF Opened
<1>2. SortedEntry(k, hp, more) /\ hp.opening_count \in Nat /\ hp.protocol \in Protocols
  BY <1>1, EntryFacts DEF Sorted
<1>3. ASSUME NEW protocol \in Protocols, OpenSucceeds(t, protocol)
      PROVE  Sorted'
  <2> DEFINE c == [id |-> hp.next_id,
                   sender |-> IF protocol = "Http2" THEN "H2Live" ELSE "H1Out"]
             pr == IF pc[t] = "opening_first" THEN protocol ELSE hp.protocol
  <2>1. /\ pc[t] \in Opening
        /\ pc'[t] \in {"h1", "h2"}
        /\ protocol \in Negotiable[k]
        /\ EntryAfter(k, hp.connections \cup {c}, hp.opening_count - 1, pr)
    BY <1>3, OpenSucceedsEffect
  <2>2. CASE Negotiable[k] \subseteq {"Http2"}
    <3>1. protocol = "Http2" /\ hp.protocol = "Http2" /\ pr = "Http2" /\ c.sender = "H2Live"
      BY <1>2, <2>1, <2>2 DEF SortedEntry
    <3> HIDE DEF c, pr
    <3>2. SortedEntry(k, pools'[k], {t})
      BY <1>2, <2>1, <2>2, <3>1 DEF SortedEntry, EntryAfter
    <3>3. QED
      BY <1>1, <3>2, SortedStep
  <2>3. CASE ~ (Negotiable[k] \subseteq {"Http2"})
    <3>1. protocol = "Http1" /\ c.sender = "H1Out"
      BY <2>1, <2>3 DEF OneProtocol
    <3>2. hp.connections = {}
      BY <1>1, <2>3, FirstAlone
    <3>3. pr = "Http1"
      <4>1. CASE pc[t] = "opening_first"
        BY <3>1, <4>1
      <4>2. CASE pc[t] = "opening_more"
        <5>1. t \in more
          BY <4>2 DEF At
        <5>2. hp.protocol = "Http1"
          BY <1>2, <2>3, <5>1 DEF SortedEntry, Protocols
        <5>3. QED
          BY <4>2, <5>2
      <4>3. QED
        BY <2>1, <4>1, <4>2 DEF Opening
    <3> HIDE DEF c, pr
    <3>4. SortedEntry(k, pools'[k], {t})
      BY <2>1, <2>3, <3>1, <3>2, <3>3 DEF SortedEntry, EntryAfter
    <3>5. QED
      BY <1>1, <3>4, SortedStep
  <2>4. QED
    BY <2>2, <2>3
<1>4. CASE OpenFails(t)
  <2>1. /\ pc'[t] = "idle"
        /\ \/ k \notin DOMAIN pools'
           \/ /\ hp.connections # {} \/ hp.opening_count # 1
              /\ EntryAfter(k, hp.connections, hp.opening_count - 1, hp.protocol)
    BY <1>4, OpenFailsEffect
  <2>2. CASE k \notin DOMAIN pools'
    BY <1>1, <2>2, SortedStep
  <2>3. CASE /\ hp.connections # {} \/ hp.opening_count # 1
             /\ EntryAfter(k, hp.connections, hp.opening_count - 1, hp.protocol)
    <3>1. Negotiable[k] \subseteq {"Http2"}
      BY <1>1, <2>3, FirstAlone
    <3>2. SortedEntry(k, pools'[k], {t})
      BY <1>2, <2>3, <3>1 DEF SortedEntry, EntryAfter
    <3>3. QED
      BY <1>1, <3>2, SortedStep
  <2>4. QED
    BY <2>1, <2>2, <2>3
<1>5. QED
  BY <1>3, <1>4 DEF Opened

LEMMA FinishSorted ==
    ASSUME IInv, IInv', Sorted, NEW t \in Tasks, Finish(t)
    PROVE  Sorted'
<1>0. PICK k \in Keys : k = want[t]
  BY DEF IInv, TypeOK
<1> USE <1>0
<1> DEFINE hp == pools[k]
<1>1. KeyStep(t) /\ pc'[t] # "opening_more"
  BY ReturnH1Effect, RemoveDeadEffect, NotifyH2CompleteEffect DEF Finish
<1>2. k \in DOMAIN pools' => /\ k \in DOMAIN pools
                             /\ pools'[k].protocol = hp.protocol
                             /\ pools'[k].opening_count = hp.opening_count
  BY ReturnH1Effect, RemoveDeadEffect, NotifyH2CompleteEffect DEF Finish, EntryAfter
<1>3. k \in DOMAIN pools =>
        /\ hp.opening_count >= hp.opening_count
        /\ SortedEntry(k, hp, At(k, {"opening_more"}))
  BY EntryFacts DEF Sorted
<1>4. CASE ReturnH1(t)
  <2> DEFINE slot == [id |-> conn[t], sender |-> "H1Out"]
             idle == [id |-> conn[t], sender |-> "H1Idle"]
  <2>1. /\ k \in DOMAIN pools
        /\ slot \in hp.connections
        /\ pools'[k].connections = (hp.connections \ {slot}) \cup {idle}
    BY <1>4, ReturnH1Effect DEF EntryAfter
  <2>2. hp.protocol # "Http2"
    BY <1>3, <2>1 DEF SortedEntry
  <2>3. \A c \in pools'[k].connections : c \in hp.connections \/ c.sender = "H1Idle"
    BY <2>1
  <2>4. QED
    BY <1>1, <1>2, <1>3, <2>1, <2>2, <2>3, SameProtocol DEF SortedEntry
<1>5. CASE RemoveDead(t)
  <2>1. pools'[k].connections \subseteq hp.connections
    BY <1>5, RemoveDeadEffect DEF EntryAfter
  <2>2. QED
    BY <1>1, <1>2, <1>3, <2>1, SameProtocol DEF SortedEntry
<1>6. CASE NotifyH2Complete(t)
  <2>1. k \in DOMAIN pools' => pools'[k].connections = hp.connections
    BY <1>6, NotifyH2CompleteEffect DEF EntryAfter
  <2>2. QED
    BY <1>1, <1>2, <1>3, <2>1, SameProtocol DEF SortedEntry
<1>7. QED
  BY <1>4, <1>5, <1>6 DEF Finish

LEMMA NextSorted ==
    ASSUME OneProtocol, IInv, IInv', Sorted, [Next]_vars
    PROVE  Sorted'
<1>1. CASE UNCHANGED vars
  BY <1>1 DEF vars, taskVars, Sorted, SortedEntry, At
<1>2. ASSUME NEW t \in Tasks, NEW k \in Keys, Call(t, k) PROVE Sorted'
  <2>1. /\ pools' = pools
        /\ pc[t] = "idle" /\ pc'[t] = "acquiring"
        /\ \A u \in Tasks \ {t} : pc'[u] = pc[u] /\ want'[u] = want[u]
    BY <1>2, CallEffect
  <2>2. \A x : At(x, {"opening_more"})' = At(x, {"opening_more"})
    BY <2>1 DEF At
  <2>3. QED
    BY <2>1, <2>2 DEF Sorted, SortedEntry
<1>3. ASSUME NEW t \in Tasks, AfterWait(t) \/ Abort(t) PROVE Sorted'
  <2>0. PICK k \in Keys : k = want[t]
    BY DEF IInv, TypeOK
  <2> USE <2>0
  <2>1. /\ KeyStep(t)
        /\ pc'[t] # "opening_more"
        /\ \/ pools' = pools
           \/ /\ k \in DOMAIN pools
              /\ EntryAfter(k, pools[k].connections, pools[k].opening_count,
                            pools[k].protocol)
    BY <1>3, AfterWaitEffect, AbortEffect
  <2>2. k \in DOMAIN pools' =>
          /\ k \in DOMAIN pools
          /\ pools'[k].protocol = pools[k].protocol
          /\ pools'[k].opening_count = pools[k].opening_count
          /\ pools'[k].connections = pools[k].connections
    BY <2>1 DEF EntryAfter
  <2>3. k \in DOMAIN pools =>
          /\ pools[k].opening_count >= pools[k].opening_count
          /\ SortedEntry(k, pools[k], At(k, {"opening_more"}))
    BY EntryFacts DEF Sorted
  <2>4. QED
    BY <2>1, <2>2, <2>3, SameProtocol DEF SortedEntry
<1>4. ASSUME NEW k \in Keys, CloseH2(k) PROVE Sorted'
  <2>1. /\ UNCHANGED <<pc, want>>
        /\ k \in DOMAIN pools
        /\ \A x \in Keys : x # k => /\ x \in DOMAIN pools' <=> x \in DOMAIN pools
                                    /\ x \in DOMAIN pools => pools'[x] = pools[x]
    BY <1>4, CloseH2Effect
  <2>2. PICK c \in pools[k].connections :
          /\ c.sender = "H2Live"
          /\ EntryAfter(k, (pools[k].connections \ {c})
                             \cup {[id |-> c.id, sender |-> "H2Dead"]},
                        pools[k].opening_count, pools[k].protocol)
    BY <1>4, CloseH2Effect
  <2>3. \A x : At(x, {"opening_more"})' = At(x, {"opening_more"})
    BY <2>1 DEF At
  <2>4. SortedEntry(k, pools[k], At(k, {"opening_more"}))
    BY <2>1 DEF Sorted
  <2>5. pools[k].protocol = "Http2"
    BY <2>2, <2>4 DEF SortedEntry
  <2>6. \A d \in pools'[k].connections : d \in pools[k].connections \/ d.sender = "H2Dead"
    BY <2>2 DEF EntryAfter
  <2>7. SortedEntry(k, pools'[k], At(k, {"opening_more"})')
    BY <2>2, <2>3, <2>4, <2>5, <2>6 DEF SortedEntry, EntryAfter
  <2>8. DOMAIN pools' \subseteq Keys
    BY DEF IInv, TypeOK
  <2>9. ASSUME NEW x \in DOMAIN pools'
        PROVE  SortedEntry(x, pools'[x], At(x, {"opening_more"})')
    <3>1. CASE x = k
      BY <2>7, <3>1
    <3>2. CASE x # k
      BY <2>1, <2>3, <2>8, <3>2 DEF Sorted
    <3>3. QED
      BY <3>1, <3>2
  <2>10. QED
    BY <2>9 DEF Sorted, SortedEntry
<1>5. QED
  BY <1>1, <1>2, <1>3, <1>4, AcquireSorted, OpenedSorted, FinishSorted DEF Next, Finished

LEMMA SortedInvariant ==
    ASSUME OneProtocol
    PROVE  Spec => []Sorted
<1>1. Init => Sorted
  BY DEF Init, Sorted
<1>2. IInv /\ IInv' /\ Sorted /\ [Next]_vars => Sorted'
  BY NextSorted
<1>3. QED
  BY <1>1, <1>2, Invariance, PTL DEF Spec

\* A task begins to open or to wait for an entry that is there by scale_or_wait.
LEMMA BeginsByScaleOrWait ==
    ASSUME IInv, [Next]_vars, NEW t \in Tasks, pc[t] = "acquiring",
           pc'[t] \in Opening \cup {"wait"}
    PROVE  InsertEntry(t) \/ OpenNew(t) \/ Wait(t)
<1>1. pc'[t] # pc[t]
  BY DEF Opening
<1>2. ASSUME NEW u \in Tasks, KeyStep(u) PROVE u = t
  BY <1>1, <1>2 DEF KeyStep, Waiting
<1>3. ASSUME NEW u \in Tasks, NEW k \in Keys, Call(u, k) PROVE FALSE
  BY <1>1, <1>3, CallEffect
<1>4. ASSUME NEW u \in Tasks, Acquire(u) PROVE InsertEntry(t) \/ OpenNew(t) \/ Wait(t)
  <2>1. u = t
    BY <1>2, <1>4, InsertEntryEffect, ReturnExistingEffect, OpenNewEffect, WaitEffect DEF Acquire
  <2>2. ~ ReturnExisting(t)
    BY ReturnExistingEffect DEF Opening
  <2>3. QED
    BY <1>4, <2>1, <2>2 DEF Acquire
<1>5. ASSUME NEW u \in Tasks, AfterWait(u) PROVE FALSE
  <2>1. KeyStep(u) /\ pc'[u] \in {"idle", "acquiring", "parked"}
    BY <1>5, AfterWaitEffect
  <2>2. QED
    BY <1>2, <2>1 DEF Opening
<1>6. ASSUME NEW u \in Tasks, Opened(u) PROVE FALSE
  <2>1. KeyStep(u) /\ pc'[u] \in {"idle", "h1", "h2"}
    BY <1>6, OpenSucceedsEffect, OpenFailsEffect DEF Opened
  <2>2. QED
    BY <1>2, <2>1 DEF Opening
<1>7. ASSUME NEW u \in Tasks, Finish(u) \/ Abort(u) PROVE FALSE
  <2>1. KeyStep(u) /\ pc'[u] = "idle"
    BY <1>7, ReturnH1Effect, RemoveDeadEffect, NotifyH2CompleteEffect, AbortEffect DEF Finish
  <2>2. QED
    BY <1>2, <2>1 DEF Opening
<1>8. ~ (\E k \in Keys : CloseH2(k)) /\ ~ UNCHANGED vars
  BY <1>1, CloseH2Effect DEF vars, taskVars
<1>9. QED
  BY <1>3, <1>4, <1>5, <1>6, <1>7, <1>8 DEF Next, Finished

\* What scale_or_wait knows of a connection that is left when nothing can be
\* returned: it is in use, by a handle of H2 or as an empty H1 slot.
LEMMA NothingIdle ==
    ASSUME IInv, Sorted, NEW k \in DOMAIN pools,
           \E full \in SUBSET InUse(k) : Available(Pruned(pools[k]), full) = {}
    PROVE  /\ \A c \in pools[k].connections :
                /\ c.sender # "H1Idle"
                /\ c.sender = "H2Live" => c.id \in InUse(k)
           /\ \A c \in Pruned(pools[k]).connections :
                c.sender = "H1Out" \/ c.id \in InUse(k)
<1> DEFINE hp == pools[k]
<1>1. PICK full \in SUBSET InUse(k) : Available(Pruned(hp), full) = {}
  OBVIOUS
<1>2. /\ SortedEntry(k, hp, At(k, {"opening_more"}))
      /\ Pruned(hp).protocol = hp.protocol
      /\ Pruned(hp).connections = IF hp.protocol = "Http2"
                                  THEN {c \in hp.connections : c.sender # "H2Dead"}
                                  ELSE hp.connections
  BY EntryFacts, PrunedFields DEF Sorted
<1>3. CASE hp.protocol = "Http2"
  <2>1. \A c \in hp.connections : c.sender \in {"H2Live", "H2Dead"}
    BY <1>2, <1>3 DEF SortedEntry
  <2>2. \A c \in hp.connections : c.sender = "H2Live" => c.id \in InUse(k)
    BY <1>1, <1>2, <1>3 DEF Available
  <2>3. QED
    BY <1>2, <1>3, <2>1, <2>2
<1>4. CASE hp.protocol # "Http2"
  <2>1. \A c \in hp.connections : c.sender \in {"H1Idle", "H1Out"}
    BY <1>2, <1>4 DEF SortedEntry
  <2>2. \A c \in hp.connections : c.sender # "H1Idle"
    BY <1>1, <1>2, <1>4 DEF Available
  <2>3. QED
    BY <1>2, <1>4, <2>1, <2>2
<1>5. QED
  BY <1>3, <1>4

\* acquire returns an existing connection if one is available (pool.rs:173): a
\* task opens another, or waits, only when no slot of the host is idle and every
\* H2 connection is in use.  It needs the protocol of the host to be the one its
\* entry is pinned to, and holds with tasks dropped by a deadline as without.
THEOREM ExistingReturned ==
    ASSUME OneProtocol
    PROVE  Spec => ReturnsExistingIfAvailable
<1>1. ASSUME IInv, Sorted, [Next]_vars,
             NEW t \in Tasks, pc[t] = "acquiring", pc'[t] \in Opening \cup {"wait"},
             want[t] \in DOMAIN pools
      PROVE  \A c \in pools[want[t]].connections :
               /\ c.sender # "H1Idle"
               /\ c.sender = "H2Live" => c.id \in InUse(want[t])
  <2>1. OpenNew(t) \/ Wait(t)
    BY <1>1, BeginsByScaleOrWait, InsertEntryEffect
  <2>2. \E full \in SUBSET InUse(want[t]) : Available(Pruned(pools[want[t]]), full) = {}
    BY <1>1, <2>1, OpenNewEffect, WaitEffect
  <2>3. QED
    BY <1>1, <2>2, NothingIdle
<1>2. IInv /\ Sorted /\ [Next]_vars =>
        [\A t \in Tasks :
           pc[t] = "acquiring" /\ pc'[t] \in Opening \cup {"wait"} /\ want[t] \in DOMAIN pools
             => \A c \in pools[want[t]].connections :
                  /\ c.sender # "H1Idle"
                  /\ c.sender = "H2Live" => c.id \in InUse(want[t])]_vars
  BY <1>1
<1>3. QED
  BY <1>2, Invariance, SortedInvariant, PTL DEF Spec, ReturnsExistingIfAvailable

-----------------------------------------------------------------------------
(* Who waits does so for somebody: BlocksOnlyWhenBusy *)

\* As many tasks hold a connection of the entry as it has connections, when each
\* of them is in use.
LEMMA HoldersCover ==
    ASSUME NEW k, NEW C, \A c, d \in C : c.id = d.id => c = d,
           \A c \in C : \E u \in At(k, Holding) : conn[u] = c.id
    PROVE  Cardinality(C) <= Cardinality(At(k, Holding))
<1> DEFINE H == At(k, Holding)
           f == [c \in C |-> CHOOSE u \in H : conn[u] = c.id]
<1>1. \A c \in C : f[c] \in H /\ conn[f[c]] = c.id
  OBVIOUS
<1>2. f \in Injection(C, H)
  <2>1. f \in [C -> H]
    BY <1>1
  <2>2. \A c, d \in C : f[c] = f[d] => c = d
    BY <1>1
  <2> HIDE DEF f
  <2>3. QED
    BY <2>1, <2>2 DEF Injection, IsInjective
<1>3. IsFiniteSet(H)
  BY AtFinite
<1> HIDE DEF H, f
<1>4. QED
  BY <1>2, <1>3, FS_Injection DEF H

\* The tasks that hold and those that open are different tasks.
LEMMA HoldersAndOpeners ==
    ASSUME NEW k
    PROVE  Cardinality(At(k, Holding \cup Opening))
             = Cardinality(At(k, Holding)) + Cardinality(At(k, Opening))
<1> DEFINE X == At(k, Holding)
           Y == At(k, Opening)
<1>1. At(k, Holding \cup Opening) = X \cup Y /\ X \cap Y = {}
  BY DEF At, Holding, Opening
<1>2. /\ IsFiniteSet(X) /\ IsFiniteSet(Y)
      /\ Cardinality(X) \in Nat /\ Cardinality(Y) \in Nat
  BY AtFinite
<1> HIDE DEF X, Y
<1>3. Cardinality(X \cup Y) = Cardinality(X) + Cardinality(Y) - Cardinality(X \cap Y)
  BY <1>2, FS_Union
<1>4. Cardinality(X \cap Y) = 0
  BY <1>1, FS_EmptySet
<1>5. Cardinality(X \cup Y) = Cardinality(X) + Cardinality(Y)
  BY <1>2, <1>3, <1>4
<1>6. QED
  BY <1>1, <1>5 DEF X, Y

\* acquire blocks only if all connections are busy and the pool is at capacity
\* (pool.rs:174): when a task begins to wait, as many tasks as the limit hold or
\* open a connection to the host.  It needs that no deadline drops tasks, which
\* leave slots that are nobody's, and that the entry is pinned to the protocol of
\* the host, as idle connections of the other are not found.
THEOREM OnlyBusyBlocks ==
    ASSUME OneProtocol, ~ Cancellation
    PROVE  Spec => BlocksOnlyWhenBusy
<1>1. ASSUME IInv, Sorted, CheckedOutMeansHeld, [Next]_vars,
             NEW t \in Tasks, pc[t] = "acquiring", pc'[t] = "wait"
      PROVE  Cardinality(At(want[t], Holding \cup Opening)) >= ConnectionsPerHost
  <2>0. PICK k \in Keys : k = want[t]
    BY <1>1 DEF IInv, TypeOK
  <2> DEFINE hp == pools[k]
             C == Pruned(hp).connections
  <2>1. Wait(t)
    BY <1>1, BeginsByScaleOrWait, InsertEntryEffect, OpenNewEffect
  <2>2. /\ k \in DOMAIN pools
        /\ \E full \in SUBSET InUse(k) : Available(Pruned(hp), full) = {}
        /\ ~ (TotalCount(Pruned(hp)) < ConnectionsPerHost)
    BY <1>1, <2>0, <2>1, WaitEffect
  <2>3. /\ C \subseteq hp.connections
        /\ Pruned(hp).opening_count = hp.opening_count
        /\ IsFiniteSet(C)
        /\ Cardinality(C) \in Nat
        /\ hp.opening_count \in Nat
        /\ \A c, d \in C : c.id = d.id => c = d
    BY <1>1, <2>2, EntryFacts, PrunedFields, SlotsKept, FS_CardinalityType DEF EntryOK
  <2>4. ASSUME NEW c \in C PROVE \E u \in At(k, Holding) : conn[u] = c.id
    <3>1. c.sender = "H1Out" \/ c.id \in InUse(k)
      BY <1>1, <2>2, NothingIdle
    <3>2. CASE c.sender = "H1Out"
      <4>1. PICK u \in At(k, {"h1"}) : conn[u] = c.id
        BY <1>1, <2>2, <2>3, <3>2 DEF CheckedOutMeansHeld
      <4>2. QED
        BY <4>1 DEF At, Holding
    <3>3. CASE c.id \in InUse(k)
      BY <3>3 DEF InUse, At, Holding
    <3>4. QED
      BY <3>1, <3>2, <3>3
  <2>5. Cardinality(C) <= Cardinality(At(k, Holding))
    BY <2>3, <2>4, HoldersCover
  <2>6. hp.opening_count = Cardinality(At(k, Opening))
    BY <1>1, <2>2 DEF CheckedOutMeansHeld
  <2>7. Cardinality(At(k, Holding)) \in Nat /\ Cardinality(At(k, Opening)) \in Nat
    BY AtFinite
  <2>8. Cardinality(C) + hp.opening_count >= ConnectionsPerHost
    BY <2>2, <2>3, LimitAssumption DEF TotalCount
  <2>9. Cardinality(At(k, Holding)) + Cardinality(At(k, Opening)) >= ConnectionsPerHost
    <3> HIDE DEF C
    <3>1. QED
      BY <2>3, <2>5, <2>6, <2>7, <2>8, LimitAssumption
  <2>10. QED
    BY <2>0, <2>9, HoldersAndOpeners
<1>2. IInv /\ Sorted /\ CheckedOutMeansHeld /\ [Next]_vars =>
        [\A t \in Tasks :
           pc[t] = "acquiring" /\ pc'[t] = "wait"
             => Cardinality(At(want[t], Holding \cup Opening)) >= ConnectionsPerHost]_vars
  BY <1>1
<1>3. QED
  BY <1>2, Invariance, SortedInvariant, NothingLost, PTL DEF Spec, BlocksOnlyWhenBusy

-----------------------------------------------------------------------------
(* The wake-up of a task that waits is not lost: WakeupKept *)

\* A task waits at the key although its host could serve it; the wake-up of such a
\* task is under way.
Needed(k) == HasRoom(k) /\ At(k, {"wait", "parked"}) # {}
WakeupUnderWay(k) == Needed(k) => Signalled(k)

\* With room for one connection, an entry with one that is out or being opened is
\* at its limit and has none that is idle.
LEMMA FullEntry ==
    ASSUME ConnectionsPerHost <= 1, NEW k, NEW C, NEW n \in Nat, NEW pr,
           EntryAfter(k, C, n, pr),
           \/ C = {} /\ n = 1
           \/ \E c : C = {c} /\ c.sender # "H1Idle" /\ n = 0
    PROVE  ~ Needed(k)'
<1>1. Cardinality(C) + n = 1
  <2>1. CASE C = {} /\ n = 1
    BY <2>1, FS_EmptySet
  <2>2. ASSUME NEW c, C = {c}, n = 0 PROVE Cardinality(C) + n = 1
    <3>1. Cardinality({c}) = 1
      BY FS_Singleton
    <3>2. QED
      BY <2>2, <3>1
  <2>3. QED
    BY <2>1, <2>2
<1>2. ~ (\E c \in C : c.sender = "H1Idle")
  OBVIOUS
<1>3. TotalCount(pools[k])' = 1
  BY <1>1 DEF EntryAfter, TotalCount
<1>4. QED
  BY <1>2, <1>3, LimitAssumption DEF Needed, HasRoom, EntryAfter

\* An entry within the limit that has a connection, or counts an opening, has
\* nothing else.
LEMMA OneOnly ==
    ASSUME ConnectionsPerHost <= 1, NEW hp, EntryOK(hp)
    PROVE  /\ \A c \in hp.connections : hp.connections = {c} /\ hp.opening_count = 0
           /\ hp.opening_count >= 1 => hp.connections = {} /\ hp.opening_count = 1
<1>1. Limit = 1
  BY LimitAssumption DEF Limit
<1>2. /\ IsFiniteSet(hp.connections)
      /\ Cardinality(hp.connections) \in Nat
      /\ hp.opening_count \in Nat
      /\ Cardinality(hp.connections) + hp.opening_count <= 1
  BY <1>1, FS_CardinalityType DEF EntryOK, HostPool, TotalCount
<1>3. ASSUME NEW c \in hp.connections
      PROVE  hp.connections = {c} /\ hp.opening_count = 0
  <2>1. Cardinality(hp.connections) # 0
    BY <1>2, <1>3, FS_EmptySet
  <2>2. Cardinality(hp.connections) = 1 /\ hp.opening_count = 0
    BY <1>2, <2>1
  <2>3. \E d : hp.connections = {d}
    BY <1>2, <2>2, FS_Singleton
  <2>4. QED
    BY <1>3, <2>2, <2>3
<1>4. ASSUME hp.opening_count >= 1
      PROVE  hp.connections = {} /\ hp.opening_count = 1
  BY <1>2, <1>4, FS_EmptySet
<1>5. QED
  BY <1>3, <1>4

\* What a step of t does to the wake-up under way at its own key.
LEMMA OwnKeyWakeup ==
    ASSUME ConnectionsPerHost <= 1, IInv, NEW t \in Tasks, NEW k \in Keys, k = want[t],
           Acquire(t) \/ AfterWait(t) \/ Opened(t) \/ Finish(t),
           WakeupUnderWay(k)
    PROVE  \/ Needed(k)' => Signalled(k)'
           \/ GivesUp(k)
<1> DEFINE hp == pools[k]
<1>1. CASE InsertEntry(t)
  <2>1. EntryAfter(k, {}, 1, "Http2")
    BY <1>1, InsertEntryEffect
  <2>2. QED
    BY <2>1, FullEntry
<1>2. CASE ReturnExisting(t)
  <2>1. k \in DOMAIN pools
    BY <1>2, ReturnExistingEffect
  <2>2. EntryOK(Pruned(hp)) /\ Pruned(hp).opening_count \in Nat
    BY <2>1, SlotsKept DEF EntryOK, HostPool
  <2>3. PICK c \in Pruned(hp).connections :
          \/ /\ c.sender = "H2Live"
             /\ EntryAfter(k, Pruned(hp).connections, Pruned(hp).opening_count,
                           Pruned(hp).protocol)
          \/ EntryAfter(k, (Pruned(hp).connections \ {c})
                             \cup {[id |-> c.id, sender |-> "H1Out"]},
                        Pruned(hp).opening_count, Pruned(hp).protocol)
    BY <1>2, ReturnExistingEffect
  <2>4. Pruned(hp).connections = {c} /\ Pruned(hp).opening_count = 0
    BY <2>2, OneOnly
  <2>5. CASE c.sender = "H2Live" /\ EntryAfter(k, {c}, 0, Pruned(hp).protocol)
    BY <2>5, FullEntry
  <2>6. CASE EntryAfter(k, {[id |-> c.id, sender |-> "H1Out"]}, 0, Pruned(hp).protocol)
    <3> DEFINE d == [id |-> c.id, sender |-> "H1Out"]
    <3>1. d.sender # "H1Idle" /\ EntryAfter(k, {d}, 0, Pruned(hp).protocol)
      BY <2>6
    <3> HIDE DEF d
    <3>2. QED
      BY <3>1, FullEntry
  <2>7. ({c} \ {c}) \cup {[id |-> c.id, sender |-> "H1Out"]}
          = {[id |-> c.id, sender |-> "H1Out"]}
    OBVIOUS
  <2>8. QED
    BY <2>3, <2>4, <2>5, <2>6, <2>7
<1>3. CASE OpenNew(t)
  <2>1. /\ k \in DOMAIN pools
        /\ TotalCount(Pruned(hp)) < ConnectionsPerHost
        /\ EntryAfter(k, Pruned(hp).connections, Pruned(hp).opening_count + 1,
                      Pruned(hp).protocol)
    BY <1>3, OpenNewEffect
  <2>2. /\ IsFiniteSet(Pruned(hp).connections)
        /\ Cardinality(Pruned(hp).connections) \in Nat
        /\ Pruned(hp).opening_count \in Nat
    BY <2>1, SlotsKept, FS_CardinalityType DEF EntryOK, HostPool
  <2>3. Cardinality(Pruned(hp).connections) = 0 /\ Pruned(hp).opening_count = 0
    BY <2>1, <2>2, LimitAssumption DEF TotalCount
  <2>4. EntryAfter(k, {}, 1, Pruned(hp).protocol)
    <3>1. Pruned(hp).connections = {} /\ Pruned(hp).opening_count + 1 = 1
      BY <2>2, <2>3, FS_EmptySet
    <3>2. QED
      BY <2>1, <3>1
  <2>5. QED
    BY <2>4, FullEntry
<1>4. CASE Wait(t)
  <2>1. /\ k \in DOMAIN pools
        /\ \E full \in SUBSET InUse(k) : Available(Pruned(hp), full) = {}
        /\ ~ (TotalCount(Pruned(hp)) < ConnectionsPerHost)
        /\ EntryAfter(k, Pruned(hp).connections, Pruned(hp).opening_count,
                      Pruned(hp).protocol)
    BY <1>4, WaitEffect
  <2>2. ~ (TotalCount(pools[k])' < ConnectionsPerHost)
    BY <2>1 DEF TotalCount, EntryAfter
  <2>3. pools'[k].protocol = "Http1" =>
          ~ (\E c \in pools'[k].connections : c.sender = "H1Idle")
    BY <2>1 DEF EntryAfter, Available
  <2>4. QED
    BY <2>2, <2>3 DEF Needed, HasRoom
<1>5. CASE AfterWait(t)
  <2>1. /\ KeyStep(t)
        /\ pc[t] \in Waiting
        /\ pc'[t] \in {"idle", "acquiring", "parked"}
        /\ \A u \in Tasks \ {t} : pc'[u] = pc[u]
        /\ pc'[t] = "parked" => pc[t] = "wait" /\ pools' = pools
        /\ pc[t] = "wait" \/ pools' = pools
    BY <1>5, AfterWaitEffect
  <2>2. CASE pc'[t] = "acquiring"
    BY <2>1, <2>2 DEF Signalled, At, KeyStep
  <2>3. CASE pc'[t] = "idle" /\ pc[t] \in {"woken", "wait"}
    BY <2>3 DEF At, GivesUp
  <2>4. CASE pc'[t] = "parked" \/ (pc'[t] = "idle" /\ pc[t] \notin {"woken", "wait"})
    <3>1. pools' = pools /\ want' = want
      BY <2>1, <2>4 DEF KeyStep
    <3>2. At(k, {"wait", "parked"})' \subseteq At(k, {"wait", "parked"})
      BY <2>1, <2>4, <3>1 DEF At
    <3>3. At(k, {"acquiring", "woken"})' = At(k, {"acquiring", "woken"})
      BY <2>1, <2>4, <3>1 DEF At, Waiting
    <3>4. Needed(k)' => Needed(k)
      BY <3>1, <3>2 DEF Needed, HasRoom, TotalCount
    <3>5. Signalled(k) => Signalled(k)'
      BY <3>1, <3>3 DEF Signalled
    <3>6. QED
      BY <3>4, <3>5 DEF WakeupUnderWay
  <2>5. QED
    BY <2>1, <2>2, <2>3, <2>4
<1>6. ASSUME NEW protocol \in Protocols, OpenSucceeds(t, protocol)
      PROVE  ~ Needed(k)'
  <2> DEFINE c == [id |-> hp.next_id,
                   sender |-> IF protocol = "Http2" THEN "H2Live" ELSE "H1Out"]
             pr == IF pc[t] = "opening_first" THEN protocol ELSE hp.protocol
  <2>1. /\ k \in DOMAIN pools
        /\ hp.opening_count >= 1
        /\ EntryAfter(k, hp.connections \cup {c}, hp.opening_count - 1, pr)
    BY <1>6, OpenSucceedsEffect
  <2>2. hp.connections = {} /\ hp.opening_count = 1
    BY <2>1, EntryFacts, OneOnly
  <2>3. hp.connections \cup {c} = {c} /\ hp.opening_count - 1 = 0
    BY <2>2
  <2>4. c.sender # "H1Idle"
    OBVIOUS
  <2> HIDE DEF c, pr
  <2>5. EntryAfter(k, {c}, 0, pr)
    BY <2>1, <2>3
  <2>6. QED
    BY <2>4, <2>5, FullEntry
<1>7. CASE OpenFails(t) \/ Finish(t)
  <2>1. /\ KeyStep(t)
        /\ \/ k \notin DOMAIN pools'
           \/ pools'[k].permit
           \/ At(want[t], {"woken"})' # {}
    BY <1>7, OpenFailsEffect, ReturnH1Effect, RemoveDeadEffect, NotifyH2CompleteEffect
       DEF Finish
  <2>2. At(want[t], {"woken"})' \subseteq At(k, {"acquiring", "woken"})'
    BY <2>1 DEF At, KeyStep
  <2>3. QED
    BY <2>1, <2>2 DEF Needed, HasRoom, Signalled
<1>8. QED
  BY <1>1, <1>2, <1>3, <1>4, <1>5, <1>6, <1>7 DEF Acquire, Opened

\* At a key whose entry stays as it is, and whose tasks stay where they are or
\* begin to acquire, the wake-up stays under way.
LEMMA OtherKeyWakeup ==
    ASSUME NEW x \in Keys, WakeupUnderWay(x),
           x \in DOMAIN pools' => x \in DOMAIN pools /\ pools'[x] = pools[x],
           At(x, {"wait", "parked"})' = At(x, {"wait", "parked"}),
           At(x, {"acquiring", "woken"}) \subseteq At(x, {"acquiring", "woken"})'
    PROVE  Needed(x)' => Signalled(x)'
<1>1. Needed(x)' => Needed(x)
  BY DEF Needed, HasRoom, TotalCount
<1>2. Needed(x)' /\ Signalled(x) => Signalled(x)'
  BY DEF Needed, HasRoom, Signalled
<1>3. QED
  BY <1>1, <1>2 DEF WakeupUnderWay

\* Every step of a task in acquire, or of one that returns its handle, is confined
\* to its key.
LEMMA KeySteps ==
    ASSUME IInv, NEW t \in Tasks, Acquire(t) \/ AfterWait(t) \/ Opened(t) \/ Finish(t)
    PROVE  KeyStep(t)
<1>1. CASE Acquire(t)
  BY <1>1, InsertEntryEffect, ReturnExistingEffect, OpenNewEffect, WaitEffect DEF Acquire
<1>2. CASE AfterWait(t)
  BY <1>2, AfterWaitEffect
<1>3. CASE Opened(t)
  BY <1>3, OpenSucceedsEffect, OpenFailsEffect DEF Opened
<1>4. CASE Finish(t)
  BY <1>4, ReturnH1Effect, RemoveDeadEffect, NotifyH2CompleteEffect DEF Finish
<1>5. QED
  BY <1>1, <1>2, <1>3, <1>4

\* A task that is in a call of acquire keeps to the key it asked for.
LEMMA WaiterStays ==
    ASSUME IInv, [Next]_vars, ~ Cancellation, NEW t \in Tasks, pc[t] # "idle"
    PROVE  want'[t] = want[t] /\ want[t] \in Keys
<1>1. ASSUME NEW u \in Tasks, NEW k \in Keys, Call(u, k) PROVE want'[t] = want[t]
  BY <1>1, CallEffect
<1>2. ASSUME NEW u \in Tasks, Acquire(u) \/ AfterWait(u) \/ Opened(u) \/ Finish(u)
      PROVE  want'[t] = want[t]
  BY <1>2, KeySteps DEF KeyStep
<1>3. ASSUME NEW k \in Keys, CloseH2(k) PROVE want'[t] = want[t]
  BY <1>3, CloseH2Effect
<1>4. UNCHANGED vars => want'[t] = want[t]
  BY DEF vars, taskVars
<1>5. ~ (\E u \in Tasks : Abort(u))
  BY DEF Abort
<1>6. QED
  BY <1>1, <1>2, <1>3, <1>4, <1>5 DEF Next, Finished, IInv, TypeOK

\* What a step does to the wake-up under way at a key, when no task is dropped.
LEMMA WakeupStep ==
    ASSUME ConnectionsPerHost <= 1, ~ Cancellation, IInv, [Next]_vars,
           NEW x \in Keys, WakeupUnderWay(x)
    PROVE  \/ Needed(x)' => Signalled(x)'
           \/ GivesUp(x)
<1>1. CASE UNCHANGED vars
  BY <1>1 DEF vars, taskVars, WakeupUnderWay, Needed, HasRoom, Signalled, TotalCount, At
<1>2. ASSUME NEW t \in Tasks, NEW k \in Keys, Call(t, k)
      PROVE  Needed(x)' => Signalled(x)'
  <2>1. /\ pools' = pools
        /\ pc[t] = "idle" /\ pc'[t] = "acquiring" /\ want'[t] = k
        /\ \A u \in Tasks \ {t} : pc'[u] = pc[u] /\ want'[u] = want[u]
    BY <1>2, CallEffect
  <2>2. /\ At(x, {"wait", "parked"})' = At(x, {"wait", "parked"})
        /\ At(x, {"acquiring", "woken"}) \subseteq At(x, {"acquiring", "woken"})'
    BY <2>1 DEF At
  <2>3. QED
    BY <2>1, <2>2, OtherKeyWakeup
<1>3. ASSUME NEW t \in Tasks, Acquire(t) \/ AfterWait(t) \/ Opened(t) \/ Finish(t)
      PROVE  \/ Needed(x)' => Signalled(x)'
             \/ GivesUp(x)
  <2>1. CASE x = want[t]
    BY <1>3, <2>1, OwnKeyWakeup
  <2>2. CASE x # want[t]
    <3>1. KeyStep(t)
      BY <1>3, KeySteps
    <3>2. /\ At(x, {"wait", "parked"})' = At(x, {"wait", "parked"})
          /\ At(x, {"acquiring", "woken"})' = At(x, {"acquiring", "woken"})
      BY <2>2, <3>1, OtherKeysAt
    <3>3. x \in DOMAIN pools' => x \in DOMAIN pools /\ pools'[x] = pools[x]
      BY <2>2, <3>1 DEF KeyStep
    <3>4. QED
      BY <3>2, <3>3, OtherKeyWakeup
  <2>3. QED
    BY <2>1, <2>2
<1>4. ASSUME NEW k \in Keys, CloseH2(k)
      PROVE  Needed(x)' => Signalled(x)'
  <2>1. /\ UNCHANGED <<pc, want>>
        /\ k \in DOMAIN pools
        /\ Cardinality(pools'[k].connections) = Cardinality(pools[k].connections)
        /\ pools'[k].permit = pools[k].permit
        /\ x # k => /\ x \in DOMAIN pools' <=> x \in DOMAIN pools
                    /\ x \in DOMAIN pools => pools'[x] = pools[x]
    BY <1>4, CloseH2Effect
  <2>2. PICK c \in pools[k].connections :
          EntryAfter(k, (pools[k].connections \ {c})
                          \cup {[id |-> c.id, sender |-> "H2Dead"]},
                     pools[k].opening_count, pools[k].protocol)
    BY <1>4, CloseH2Effect
  <2>3. /\ pools'[k].protocol = pools[k].protocol
        /\ pools'[k].opening_count = pools[k].opening_count
        /\ \A d \in pools'[k].connections :
             d \in pools[k].connections \/ d.sender = "H2Dead"
    BY <2>2 DEF EntryAfter
  <2>4. \A places : At(x, places)' = At(x, places)
    BY <2>1 DEF At
  <2>5. CASE x = k
    <3>1. Needed(x)' => Needed(x)
      BY <2>1, <2>3, <2>4, <2>5 DEF Needed, HasRoom, TotalCount
    <3>2. Signalled(x) => Signalled(x)'
      BY <2>1, <2>4, <2>5 DEF Signalled
    <3>3. QED
      BY <3>1, <3>2 DEF WakeupUnderWay
  <2>6. CASE x # k
    <3>1. x \in DOMAIN pools' => x \in DOMAIN pools /\ pools'[x] = pools[x]
      BY <2>1, <2>6
    <3>2. QED
      BY <2>4, <3>1, OtherKeyWakeup
  <2>7. QED
    BY <2>5, <2>6
<1>5. ~ (\E t \in Tasks : Abort(t))
  BY DEF Abort
<1>6. QED
  BY <1>1, <1>2, <1>3, <1>4, <1>5 DEF Next, Finished

\* A task begins to wait only when its host could not serve it.
LEMMA WaitsForNothing ==
    ASSUME IInv, [Next]_vars, ~ Cancellation, NEW t \in Tasks,
           pc[t] \notin {"wait", "parked"}, pc'[t] \in {"wait", "parked"}
    PROVE  ~ HasRoom(want[t])' /\ want'[t] = want[t]
<1>1. CASE Wait(t)
  <2> DEFINE hp == Pruned(pools[want[t]])
  <2>1. /\ KeyStep(t)
        /\ \E full \in SUBSET InUse(want[t]) : Available(hp, full) = {}
        /\ ~ (TotalCount(hp) < ConnectionsPerHost)
        /\ EntryAfter(want[t], hp.connections, hp.opening_count, hp.protocol)
    BY <1>1, WaitEffect
  <2>2. ~ (TotalCount(pools[want[t]])' < ConnectionsPerHost)
    BY <2>1 DEF TotalCount, EntryAfter, KeyStep
  <2>3. pools'[want[t]].protocol = "Http1" =>
          ~ (\E c \in pools'[want[t]].connections : c.sender = "H1Idle")
    BY <2>1 DEF EntryAfter, Available
  <2>4. want'[t] = want[t]
    BY <2>1 DEF KeyStep
  <2>5. QED
    BY <2>2, <2>3, <2>4 DEF HasRoom
<1>2. ASSUME NEW u \in Tasks, NEW k \in Keys, Call(u, k) PROVE FALSE
  BY <1>2, CallEffect
<1>3. ASSUME NEW u \in Tasks, Acquire(u) \/ AfterWait(u) \/ Opened(u) \/ Finish(u), ~ Wait(t)
      PROVE  FALSE
  <2>1. KeyStep(u)
    BY <1>3, KeySteps
  <2>2. CASE u # t
    BY <2>1, <2>2 DEF KeyStep
  <2>3. CASE u = t
    <3>1. CASE Acquire(t)
      BY <1>3, <3>1, InsertEntryEffect, ReturnExistingEffect, OpenNewEffect DEF Acquire
    <3>2. CASE AfterWait(t)
      BY <3>2, AfterWaitEffect
    <3>3. CASE Opened(t)
      BY <3>3, OpenSucceedsEffect, OpenFailsEffect DEF Opened
    <3>4. CASE Finish(t)
      BY <3>4, ReturnH1Effect, RemoveDeadEffect, NotifyH2CompleteEffect DEF Finish
    <3>5. QED
      BY <1>3, <2>3, <3>1, <3>2, <3>3, <3>4
  <2>4. QED
    BY <2>2, <2>3
<1>4. ASSUME NEW k \in Keys, CloseH2(k) PROVE FALSE
  BY <1>4, CloseH2Effect
<1>5. ~ UNCHANGED vars /\ ~ (\E u \in Tasks : Abort(u))
  BY DEF vars, taskVars, Abort
<1>6. QED
  BY <1>1, <1>2, <1>3, <1>4, <1>5 DEF Next, Finished

\* Only the last opener of an entry orphans the tasks that wait on it, by failing.
LEMMA OrphanedByOpener ==
    ASSUME IInv, [Next]_vars, ~ Cancellation, NEW t \in Tasks,
           pc[t] # "orphaned", pc'[t] = "orphaned"
    PROVE  LastOpenerFails(want[t])
<1>1. ASSUME NEW u \in Tasks, NEW k \in Keys, Call(u, k) PROVE FALSE
  BY <1>1, CallEffect
<1>2. ASSUME NEW u \in Tasks, Acquire(u) \/ AfterWait(u) \/ Opened(u) \/ Finish(u)
      PROVE  LastOpenerFails(want[t])
  <2>1. KeyStep(u)
    BY <1>2, KeySteps
  <2>2. CASE Acquire(u)
    BY <2>2, InsertEntryEffect, ReturnExistingEffect, OpenNewEffect, WaitEffect DEF Acquire
  <2>3. CASE AfterWait(u)
    BY <2>3, AfterWaitEffect
  <2>4. ASSUME NEW protocol \in Protocols, OpenSucceeds(u, protocol) PROVE FALSE
    BY <2>4, OpenSucceedsEffect
  <2>5. CASE OpenFails(u) \/ Finish(u)
    <3>1. pc'[u] = "idle"
      BY <2>5, OpenFailsEffect, ReturnH1Effect, RemoveDeadEffect, NotifyH2CompleteEffect
         DEF Finish
    <3>2. /\ pc[t] \in Waiting
          /\ want[u] = want[t]
          /\ want[t] \notin DOMAIN pools'
      BY <2>1, <3>1 DEF KeyStep
    <3>3. want[t] \in DOMAIN pools
      BY <3>2 DEF IInv, WaitersHaveEntry, Waiting
    <3>4. CASE OpenFails(u)
      <4>1. pc[u] \in Opening
        BY <3>4, OpenFailsEffect
      <4>2. QED
        BY <3>1, <3>2, <4>1 DEF LastOpenerFails, At
    <3>5. CASE Finish(u)
      BY <3>2, <3>3, <3>5, ReturnH1Effect, RemoveDeadEffect, NotifyH2CompleteEffect
         DEF Finish, EntryAfter
    <3>6. QED
      BY <2>5, <3>4, <3>5
  <2>6. QED
    BY <1>2, <2>2, <2>3, <2>4, <2>5 DEF Opened
<1>3. ASSUME NEW k \in Keys, CloseH2(k) PROVE FALSE
  BY <1>3, CloseH2Effect
<1>4. ~ UNCHANGED vars /\ ~ (\E u \in Tasks : Abort(u))
  BY DEF vars, taskVars, Abort
<1>5. QED
  BY <1>1, <1>2, <1>3, <1>4 DEF Next, Finished

\* With one connection per host, the default, and no deadline that drops tasks, the
\* wake-up of a task that waits although its host could serve it is taken away by a
\* task that gives up after its last attempt (pool.rs:177-196) or with the entry, by
\* the last opener that fails (pool.rs:385-386), and by nothing else.  With more
\* connections, an entry pinned to the other protocol loses it.
THEOREM WakeupNotLost ==
    ASSUME ConnectionsPerHost <= 1, ~ Cancellation
    PROVE  Spec => WakeupKept
<1>1. ASSUME IInv, [Next]_vars, NEW t \in Tasks, Unattended(t)', ~ Unattended(t)
      PROVE  GivesUp(want[t]) \/ LastOpenerFails(want[t])
  <2>1. CASE pc'[t] = "orphaned"
    BY <1>1, <2>1, OrphanedByOpener DEF Unattended
  <2>2. CASE pc'[t] \in {"wait", "parked"} /\ pc[t] \notin {"wait", "parked"}
    BY <1>1, <2>2, WaitsForNothing DEF Unattended
  <2>3. CASE pc'[t] \in {"wait", "parked"} /\ pc[t] \in {"wait", "parked"}
    <3>1. want'[t] = want[t] /\ want[t] \in Keys
      BY <1>1, <2>3, WaiterStays
    <3>2. WakeupUnderWay(want[t])
      BY <1>1, <2>3 DEF Unattended, WakeupUnderWay, Needed
    <3>3. Needed(want[t])' /\ ~ Signalled(want[t])'
      BY <1>1, <2>3 DEF Unattended, Needed, At
    <3>4. QED
      BY <1>1, <3>1, <3>2, <3>3, WakeupStep
  <2>4. QED
    BY <1>1, <2>1, <2>2, <2>3 DEF Unattended
<1>2. IInv /\ [Next]_vars =>
        [\A t \in Tasks :
           Unattended(t)' /\ ~ Unattended(t)
             => GivesUp(want[t]) \/ LastOpenerFails(want[t])]_vars
  BY <1>1
<1>3. QED
  BY <1>2, Invariance, PTL DEF Spec, WakeupKept

=============================================================================
