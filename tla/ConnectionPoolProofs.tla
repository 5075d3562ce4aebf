------------------------ MODULE ConnectionPoolProofs ------------------------
(***************************************************************************)
(* Proofs about ConnectionPool, for every set of keys and tasks, every     *)
(* limit and every server, with tasks dropped by a batch deadline or not.  *)
(*                                                                         *)
(* None of the safety properties is inductive.  That a late return cannot  *)
(* hit the slot of another connection rests on the ids of an entry being   *)
(* distinct and below next_id, and on the entry not being removed while a  *)
(* handle is out; the latter because OpenFails removes an entry without    *)
(* connections only, the former because nobody puts an entry in the place  *)
(* of another.  IInv is the conjunction of these facts.                    *)
(***************************************************************************)
EXTENDS ConnectionPool, FiniteSetTheorems, WellFoundedInduction, TLAPS

\* What every entry of the pool satisfies, whatever the tasks do.
EntryOK(hp) ==
    /\ hp \in HostPool
    /\ IsFiniteSet(hp.connections)
    /\ \A c \in hp.connections : c.id < hp.next_id
    /\ \A c, d \in hp.connections : c.id = d.id => c = d
    /\ TotalCount(hp) <= Limit

EntriesOK == \A k \in DOMAIN pools : EntryOK(pools[k])

WaitersHaveEntry ==
    \A t \in Tasks : pc[t] \in {"wait", "parked", "woken"} => want[t] \in DOMAIN pools

OpenersAccounted ==
    \A k \in Keys : IF k \in DOMAIN pools
                    THEN Cardinality(At(k, Opening)) <= pools[k].opening_count
                    ELSE At(k, Opening) = {}

IInv ==
    /\ TypeOK
    /\ EntriesOK
    /\ ExclusiveCheckout
    /\ WaitersHaveEntry
    /\ OpenersAccounted

-----------------------------------------------------------------------------
(* Finite sets and the operators on entries *)

\* A part of a finite set is finite and no larger.
LEMMA PartCard ==
    ASSUME NEW S, NEW T, IsFiniteSet(S), T \subseteq S
    PROVE  /\ IsFiniteSet(T)
           /\ Cardinality(T) \in Nat
           /\ Cardinality(S) \in Nat
           /\ Cardinality(T) <= Cardinality(S)
BY FS_Subset, FS_CardinalityType

\* The tasks at a place are finitely many.
LEMMA AtFinite ==
    ASSUME NEW k, NEW places
    PROVE  /\ IsFiniteSet(At(k, places))
           /\ Cardinality(At(k, places)) \in Nat
BY KeysAssumption, PartCard, At(k, places) \subseteq Tasks DEF At

\* Pruning leaves an entry well formed, with the count and the slots it had.
LEMMA PrunedFacts ==
    ASSUME NEW hp, EntryOK(hp)
    PROVE  /\ EntryOK(Pruned(hp))
           /\ Pruned(hp).opening_count = hp.opening_count
           /\ \A c \in hp.connections : c.sender = "H1Out" => c \in Pruned(hp).connections
<1>1. CASE hp.protocol # "Http2"
  BY <1>1 DEF Pruned
<1>2. CASE hp.protocol = "Http2"
  <2> DEFINE C == {c \in hp.connections : c.sender # "H2Dead"}
  <2>1. Pruned(hp) = [hp EXCEPT !.connections = C]
    BY <1>2 DEF Pruned
  <2>2. /\ Pruned(hp) \in HostPool
        /\ Pruned(hp).connections = C
        /\ Pruned(hp).opening_count = hp.opening_count
        /\ Pruned(hp).next_id = hp.next_id
    BY <2>1 DEF EntryOK, HostPool
  <2>3. /\ IsFiniteSet(C)
        /\ Cardinality(C) \in Nat
        /\ Cardinality(hp.connections) \in Nat
        /\ Cardinality(C) <= Cardinality(hp.connections)
    BY PartCard, C \subseteq hp.connections DEF EntryOK
  <2>4. TotalCount(Pruned(hp)) <= Limit
    BY <2>2, <2>3, LimitAssumption DEF EntryOK, TotalCount, Limit, HostPool
  <2>5. QED
    BY <2>2, <2>3, <2>4 DEF EntryOK
<1>3. QED
  BY <1>1, <1>2

\* Changing the sender of one connection leaves the entry well formed.
LEMMA ReplaceFacts ==
    ASSUME NEW hp, EntryOK(hp), NEW c \in hp.connections, NEW s \in Senders
    PROVE  /\ EntryOK(WithSender(hp, c, s))
           /\ WithSender(hp, c, s).opening_count = hp.opening_count
           /\ WithSender(hp, c, s).connections
                = (hp.connections \ {c}) \cup {[id |-> c.id, sender |-> s]}
<1> DEFINE d == [c EXCEPT !.sender = s]
           hp2 == WithSender(hp, c, s)
           C == hp.connections \ {c}
<1>1. c \in PooledConnection /\ d \in PooledConnection /\ d.id = c.id
      /\ d = [id |-> c.id, sender |-> s]
  BY DEF EntryOK, HostPool, PooledConnection
<1>2. /\ hp2 \in HostPool
      /\ hp2.connections = C \cup {d}
      /\ hp2.opening_count = hp.opening_count
      /\ hp2.next_id = hp.next_id
  BY <1>1 DEF EntryOK, HostPool, WithSender
<1>3. /\ IsFiniteSet(C)
      /\ Cardinality(C) = Cardinality(hp.connections) - 1
      /\ Cardinality(hp.connections) \in Nat
      /\ Cardinality(C) \in Nat
  BY FS_RemoveElement, FS_CardinalityType DEF EntryOK
<1>4. d \notin C
  BY <1>1 DEF EntryOK
<1>5. /\ IsFiniteSet(C \cup {d})
      /\ Cardinality(C \cup {d}) = Cardinality(hp.connections)
  <2>1. Cardinality(C \cup {d}) = Cardinality(C) + 1 /\ IsFiniteSet(C \cup {d})
    BY <1>3, <1>4, FS_AddElement
  <2>2. QED
    BY <2>1, <1>3
<1>6. TotalCount(hp2) <= Limit
  BY <1>2, <1>5 DEF EntryOK, TotalCount
<1>7. /\ \A x \in hp2.connections : x.id < hp2.next_id
      /\ \A x, y \in hp2.connections : x.id = y.id => x = y
  BY <1>1, <1>2 DEF EntryOK
<1>8. QED
  BY <1>1, <1>2, <1>5, <1>6, <1>7 DEF EntryOK

\* A set of connections that is not empty has a first one.
LEMMA LeastId ==
    ASSUME NEW C, C \subseteq PooledConnection, C # {}
    PROVE  \E c \in C : \A d \in C : c.id <= d.id
<1> DEFINE Ids == {c.id : c \in C}
<1>1. Ids \in SUBSET Nat /\ Ids # {}
  BY DEF PooledConnection
<1> DEFINE R == OpToRel(<, Nat)
<1>2. \A m, n \in Nat : m < n => <<m, n>> \in R
  BY Zenon DEF OpToRel
<1>3. IsWellFoundedOn(R, Nat)
  BY NatLessThanWellFounded
<1> HIDE DEF R
<1>4. PICK n \in Ids : \A m \in Ids : ~ (<<m, n>> \in R)
  BY <1>1, <1>3, WFMin
<1>5. ASSUME NEW m \in Ids PROVE n <= m
  <2>1. m \in Nat /\ n \in Nat
    BY <1>1
  <2>2. ~ (m < n)
    BY <2>1, <1>2, <1>4, Zenon
  <2>3. QED
    BY <2>1, <2>2
<1>6. QED
  BY <1>5

-----------------------------------------------------------------------------
(* The two shapes of a step of a task *)

PC == {"idle"} \cup Acquiring \cup Holding

\* Every task but t stays where it is, or is woken while it is parked.
OthersStay(t) ==
    /\ \A u \in Tasks \ {t} : pc'[u] = pc[u] \/ (pc[u] = "parked" /\ pc'[u] = "woken")
    /\ \A u \in Tasks \ {t} : conn'[u] = conn[u]

\* A step of t that writes the entry of its key keeps IInv when the new entry is
\* well formed, keeps the slots of the handles that are out, t's own included,
\* and still counts the tasks that open.
LEMMA EntryStep ==
    ASSUME IInv, NEW t \in Tasks, NEW hp, EntryOK(hp),
           pools' = Put(want[t], hp),
           UNCHANGED <<want, calls>>,
           attempts' \in [Tasks -> Nat],
           pc' \in [Tasks -> PC],
           conn' \in [Tasks -> Nat],
           OthersStay(t),
           \A u \in Tasks \ {t} :
              pc[u] = "h1" /\ want[u] = want[t]
                => /\ [id |-> conn[u], sender |-> "H1Out"] \in hp.connections
                   /\ pc'[t] = "h1" => conn[u] # conn'[t],
           pc'[t] = "h1" => [id |-> conn'[t], sender |-> "H1Out"] \in hp.connections,
           Cardinality({u \in Tasks : want[u] = want[t] /\ pc'[u] \in Opening})
             <= hp.opening_count
    PROVE  IInv'
<1> DEFINE k == want[t]
<1>1. k \in Keys
  BY DEF IInv, TypeOK
<1>2. /\ DOMAIN pools' = DOMAIN pools \cup {k}
      /\ pools' = [x \in DOMAIN pools' |-> pools'[x]]
      /\ pools'[k] = hp
      /\ \A x \in DOMAIN pools : x # k => pools'[x] = pools[x]
  <2>1. pools' = [x \in DOMAIN pools \cup {k} |-> IF x = k THEN hp ELSE pools[x]]
    BY DEF Put
  <2>2. QED
    BY <2>1
<1>3. EntriesOK'
  <2> SUFFICES ASSUME NEW x \in DOMAIN pools' PROVE EntryOK(pools'[x])
    BY DEF EntriesOK, EntryOK, TotalCount, Limit, HostPool, PooledConnection
  <2> QED BY <1>2 DEF IInv, EntriesOK
<1>4. TypeOK'
  <2>1. \A x \in DOMAIN pools' : pools'[x] \in HostPool
    BY <1>2 DEF IInv, TypeOK, EntryOK
  <2>2. QED
    BY <1>1, <1>2, <2>1 DEF IInv, TypeOK, PC
<1>5. ExclusiveCheckout'
  <2>1. ASSUME NEW u \in Tasks, pc'[u] = "h1"
        PROVE  /\ want'[u] \in DOMAIN pools'
               /\ [id |-> conn'[u], sender |-> "H1Out"] \in pools'[want'[u]].connections
    <3>1. CASE u = t
      BY <3>1, <2>1, <1>2
    <3>2. CASE u # t
      <4>1. pc[u] = "h1" /\ conn'[u] = conn[u]
        BY <3>2, <2>1 DEF OthersStay
      <4>2. QED
        BY <3>2, <4>1, <1>2 DEF IInv, ExclusiveCheckout
    <3>3. QED BY <3>1, <3>2
  <2>2. ASSUME NEW u \in Tasks, NEW v \in Tasks, u # v, pc'[u] = "h1", pc'[v] = "h1",
               want[u] = want[v], u # t
        PROVE  conn'[u] # conn'[v]
    <3>1. pc[u] = "h1" /\ conn'[u] = conn[u]
      BY <2>2 DEF OthersStay
    <3>2. CASE v = t
      BY <3>1, <3>2, <2>2
    <3>3. CASE v # t
      <4>1. pc[v] = "h1" /\ conn'[v] = conn[v]
        BY <2>2, <3>3 DEF OthersStay
      <4>2. QED
        BY <3>1, <4>1, <2>2 DEF IInv, ExclusiveCheckout
    <3>4. QED BY <3>2, <3>3
  <2>3. ASSUME NEW u \in Tasks, NEW v \in Tasks, u # v, pc'[u] = "h1", pc'[v] = "h1",
               want[u] = want[v]
        PROVE  conn'[u] # conn'[v]
    <3>1. CASE u # t
      BY <3>1, <2>2, <2>3
    <3>2. CASE u = t
      <4>1. conn'[v] # conn'[u]
        BY <3>2, <2>2, <2>3
      <4>2. QED BY <4>1
    <3>3. QED BY <3>1, <3>2
  <2>4. QED
    BY <2>1, <2>3 DEF ExclusiveCheckout
<1>6. WaitersHaveEntry'
  <2> SUFFICES ASSUME NEW u \in Tasks, pc'[u] \in {"wait", "parked", "woken"}
               PROVE  want[u] \in DOMAIN pools'
    BY DEF WaitersHaveEntry
  <2>1. CASE u = t
    BY <2>1, <1>2
  <2>2. CASE u # t
    <3>1. pc[u] \in {"wait", "parked", "woken"}
      BY <2>2 DEF OthersStay
    <3>2. QED
      BY <3>1, <1>2 DEF IInv, WaitersHaveEntry
  <2>3. QED BY <2>1, <2>2
<1>7. OpenersAccounted'
  <2> SUFFICES ASSUME NEW x \in Keys
               PROVE  IF x \in DOMAIN pools'
                      THEN Cardinality(At(x, Opening)') <= pools'[x].opening_count
                      ELSE At(x, Opening)' = {}
    BY DEF OpenersAccounted
  <2>1. CASE x = k
    <3>1. At(x, Opening)' = {u \in Tasks : want[u] = want[t] /\ pc'[u] \in Opening}
      BY <2>1 DEF At, Opening
    <3>2. QED
      BY <2>1, <3>1, <1>2
  <2>2. CASE x # k
    <3>1. ASSUME NEW u \in Tasks, want[u] = x
          PROVE  pc'[u] \in Opening <=> pc[u] \in Opening
      <4>1. u # t
        BY <2>2, <3>1
      <4>2. QED
        BY <4>1 DEF OthersStay, Opening
    <3>2. At(x, Opening)' = At(x, Opening)
      BY <3>1 DEF At, Opening
    <3>3. QED
      BY <2>2, <3>2, <1>2 DEF IInv, OpenersAccounted
  <2>3. QED BY <2>1, <2>2
<1>8. QED
  BY <1>3, <1>4, <1>5, <1>6, <1>7 DEF IInv

\* A step of t that leaves the pool alone keeps IInv when t gets no handle, does
\* not begin to open, and waits only on an entry that is there.
LEMMA LocalStep ==
    ASSUME IInv, NEW t \in Tasks,
           pools' = pools,
           want' \in [Tasks -> Keys],
           \A u \in Tasks \ {t} : want'[u] = want[u] /\ pc'[u] = pc[u] /\ conn'[u] = conn[u],
           attempts' \in [Tasks -> Nat],
           calls' \in [Tasks -> Nat],
           conn' \in [Tasks -> Nat],
           pc' \in [Tasks -> PC],
           pc'[t] \notin Opening \cup {"h1"},
           pc'[t] \in {"wait", "parked", "woken"} => want'[t] \in DOMAIN pools
    PROVE  IInv'
<1>1. EntriesOK'
  BY DEF IInv, EntriesOK, EntryOK, TotalCount, Limit, HostPool, PooledConnection
<1>2. TypeOK'
  BY DEF IInv, TypeOK, PC
<1>3. ExclusiveCheckout'
  BY DEF IInv, ExclusiveCheckout
<1>4. WaitersHaveEntry'
  BY DEF IInv, WaitersHaveEntry
<1>5. OpenersAccounted'
  <2> SUFFICES ASSUME NEW x \in Keys
               PROVE  IF x \in DOMAIN pools
                      THEN Cardinality(At(x, Opening)') <= pools[x].opening_count
                      ELSE At(x, Opening)' = {}
    BY DEF OpenersAccounted
  <2>1. At(x, Opening)' \subseteq At(x, Opening)
    BY DEF At, Opening
  <2>2. CASE x \notin DOMAIN pools
    BY <2>1, <2>2 DEF IInv, OpenersAccounted
  <2>3. CASE x \in DOMAIN pools
    <3>1. /\ Cardinality(At(x, Opening)') <= Cardinality(At(x, Opening))
          /\ Cardinality(At(x, Opening)') \in Nat
          /\ Cardinality(At(x, Opening)) \in Nat
      BY <2>1, AtFinite, PartCard
    <3>2. pools[x].opening_count \in Nat
      BY <2>3 DEF IInv, EntriesOK, EntryOK, HostPool
    <3>3. Cardinality(At(x, Opening)) <= pools[x].opening_count
      BY <2>3 DEF IInv, OpenersAccounted
    <3>4. QED
      BY <2>3, <3>1, <3>2, <3>3
  <2>4. QED BY <2>2, <2>3
<1>6. QED
  BY <1>1, <1>2, <1>3, <1>4, <1>5 DEF IInv

\* The tasks that open for the key of t after a step of t in which it stops, or
\* does not begin, to open: no more than before, and one less if t was one.
LEMMA OpenersAfter ==
    ASSUME IInv, NEW t \in Tasks, want[t] \in DOMAIN pools, OthersStay(t),
           pc'[t] \notin Opening
    PROVE  LET S == {u \in Tasks : want[u] = want[t] /\ pc'[u] \in Opening}
               n == pools[want[t]].opening_count
           IN  /\ n \in Int
               /\ Cardinality(S) \in Nat
               /\ Cardinality(S) <= n
               /\ pc[t] \in Opening => Cardinality(S) <= n - 1
<1> DEFINE S == {u \in Tasks : want[u] = want[t] /\ pc'[u] \in Opening}
           A == At(want[t], Opening)
           n == pools[want[t]].opening_count
<1>1. S \subseteq A \ {t}
  BY DEF OthersStay, At, Opening
<1>2. n \in Int /\ Cardinality(A) <= n
  BY DEF IInv, EntriesOK, EntryOK, HostPool, OpenersAccounted, TypeOK
<1>3. IsFiniteSet(A) /\ Cardinality(A) \in Nat
  BY AtFinite
<1>4. /\ IsFiniteSet(A \ {t})
      /\ Cardinality(A \ {t}) = IF t \in A THEN Cardinality(A) - 1 ELSE Cardinality(A)
  BY <1>3, FS_RemoveElement
<1>5. /\ Cardinality(S) \in Nat
      /\ Cardinality(S) <= Cardinality(A \ {t})
      /\ Cardinality(A \ {t}) \in Nat
  BY <1>1, <1>4, PartCard
<1>6. pc[t] \in Opening => t \in A
  BY DEF At
<1>7. /\ Cardinality(S) <= n
      /\ pc[t] \in Opening => Cardinality(S) <= n - 1
  BY <1>2, <1>3, <1>4, <1>5, <1>6
<1>8. QED
  BY <1>2, <1>5, <1>7

\* notify_one after the step of t: the entry of the key is hp, but for its permit,
\* and no task moves but t and at most one that is parked.
LEMMA NotifyFacts ==
    ASSUME IInv, NEW t \in Tasks, NEW k, NEW hp, EntryOK(hp), pc[t] # "parked",
           UNCHANGED conn,
           NotifyOne(k, hp, [pc EXCEPT ![t] = "idle"])
    PROVE  /\ pc' \in [Tasks -> PC]
           /\ pc'[t] = "idle"
           /\ OthersStay(t)
           /\ \E hp2 : /\ EntryOK(hp2)
                        /\ hp2.connections = hp.connections
                        /\ hp2.opening_count = hp.opening_count
                        /\ pools' = Put(k, hp2)
<1> DEFINE p == [pc EXCEPT ![t] = "idle"]
<1>1. /\ p \in [Tasks -> PC]
      /\ p[t] = "idle"
      /\ \A u \in Tasks \ {t} : p[u] = pc[u]
  BY DEF IInv, TypeOK, PC
<1>2. CASE \E w \in At(k, {"parked"}) :
             pc' = [p EXCEPT ![w] = "woken"] /\ pools' = Put(k, hp)
  <2>1. PICK w \in At(k, {"parked"}) :
             pc' = [p EXCEPT ![w] = "woken"] /\ pools' = Put(k, hp)
    BY <1>2
  <2>2. w \in Tasks /\ w # t /\ pc[w] = "parked"
    BY <2>1 DEF At
  <2>3. pc' \in [Tasks -> PC]
    BY <1>1, <2>1 DEF PC, Acquiring, Waiting
  <2>4. pc'[t] = "idle" /\ OthersStay(t)
    BY <1>1, <2>1, <2>2 DEF OthersStay
  <2>5. QED
    BY <2>1, <2>3, <2>4
<1>3. CASE pc' = p /\ pools' = Put(k, [hp EXCEPT !.permit = TRUE])
  <2> DEFINE hp2 == [hp EXCEPT !.permit = TRUE]
  <2>1. /\ hp2 \in HostPool
        /\ hp2.connections = hp.connections
        /\ hp2.opening_count = hp.opening_count
        /\ hp2.next_id = hp.next_id
    BY DEF EntryOK, HostPool
  <2>2. EntryOK(hp2)
    BY <2>1 DEF EntryOK, TotalCount
  <2>3. OthersStay(t)
    BY <1>1, <1>3 DEF OthersStay
  <2>4. QED
    BY <1>1, <1>3, <2>1, <2>2, <2>3
<1>4. QED
  BY <1>2, <1>3 DEF NotifyOne

\* Any step of t that ends its use of the pool and notifies keeps IInv when the
\* entry it leaves is well formed, keeps the slots of the others and counts the
\* other tasks that open.
LEMMA NotifyingStep ==
    ASSUME IInv, NEW t \in Tasks, NEW hp, EntryOK(hp),
           want[t] \in DOMAIN pools,
           pc[t] # "parked",
           NotifyOne(want[t], hp, [pc EXCEPT ![t] = "idle"]),
           UNCHANGED <<want, attempts, conn, calls>>,
           \A u \in Tasks \ {t} :
              pc[u] = "h1" /\ want[u] = want[t]
                => [id |-> conn[u], sender |-> "H1Out"] \in hp.connections,
           hp.opening_count = IF pc[t] \in Opening
                              THEN pools[want[t]].opening_count - 1
                              ELSE pools[want[t]].opening_count
    PROVE  IInv'
<1>1. UNCHANGED conn
  OBVIOUS
<1>2. /\ pc' \in [Tasks -> PC]
      /\ pc'[t] = "idle"
      /\ OthersStay(t)
      /\ \E hp2 : /\ EntryOK(hp2)
                   /\ hp2.connections = hp.connections
                   /\ hp2.opening_count = hp.opening_count
                   /\ pools' = Put(want[t], hp2)
  BY <1>1, NotifyFacts
<1>3. PICK hp2 : /\ EntryOK(hp2)
                 /\ hp2.connections = hp.connections
                 /\ hp2.opening_count = hp.opening_count
                 /\ pools' = Put(want[t], hp2)
  BY <1>2
<1>4. Cardinality({u \in Tasks : want[u] = want[t] /\ pc'[u] \in Opening})
        <= hp2.opening_count
  BY <1>2, <1>3, OpenersAfter DEF Opening
<1>5. attempts' \in [Tasks -> Nat] /\ conn' \in [Tasks -> Nat]
  BY DEF IInv, TypeOK
<1>6. /\ \A u \in Tasks \ {t} :
           pc[u] = "h1" /\ want[u] = want[t]
             => /\ [id |-> conn[u], sender |-> "H1Out"] \in hp2.connections
                /\ pc'[t] = "h1" => conn[u] # conn'[t]
      /\ pc'[t] = "h1" => [id |-> conn'[t], sender |-> "H1Out"] \in hp2.connections
      /\ UNCHANGED <<want, calls>>
  BY <1>2, <1>3
<1>7. QED
  BY <1>2, <1>3, <1>4, <1>5, <1>6, EntryStep

-----------------------------------------------------------------------------
(* The actions of acquire *)

LEMMA CallStep ==
    ASSUME IInv, NEW t \in Tasks, NEW k \in Keys, Call(t, k)
    PROVE  IInv'
<1>1. /\ pools' = pools
      /\ want' \in [Tasks -> Keys]
      /\ \A u \in Tasks \ {t} : want'[u] = want[u] /\ pc'[u] = pc[u] /\ conn'[u] = conn[u]
      /\ attempts' \in [Tasks -> Nat]
      /\ calls' \in [Tasks -> Nat]
      /\ conn' \in [Tasks -> Nat]
      /\ pc' \in [Tasks -> PC]
      /\ pc'[t] = "acquiring"
  BY DEF Call, IInv, TypeOK, PC, Acquiring
<1>2. QED
  BY <1>1, LocalStep DEF Opening

\* The tasks that open for the key of t when t joins them.
LEMMA OpenersJoined ==
    ASSUME IInv, NEW t \in Tasks, NEW s \in Opening, pc' = [pc EXCEPT ![t] = s]
    PROVE  LET S == {u \in Tasks : want[u] = want[t] /\ pc'[u] \in Opening}
           IN  /\ Cardinality(S) \in Nat
               /\ Cardinality(S) <= Cardinality(At(want[t], Opening)) + 1
<1> DEFINE S == {u \in Tasks : want[u] = want[t] /\ pc'[u] \in Opening}
           A == At(want[t], Opening)
<1>1. S = A \cup {t}
  BY DEF At, IInv, TypeOK
<1>2. IsFiniteSet(A) /\ Cardinality(A) \in Nat
  BY AtFinite
<1>3. /\ IsFiniteSet(A \cup {t})
      /\ Cardinality(A \cup {t}) = IF t \in A THEN Cardinality(A) ELSE Cardinality(A) + 1
  BY <1>2, FS_AddElement
<1>4. QED
  BY <1>1, <1>2, <1>3

LEMMA InsertEntryStep ==
    ASSUME IInv, NEW t \in Tasks, InsertEntry(t)
    PROVE  IInv'
<1> DEFINE hp == FirstEntry
<1>1. /\ pools' = Put(want[t], hp)
      /\ pc' = [pc EXCEPT ![t] = "opening_first"]
      /\ want[t] \notin DOMAIN pools
      /\ want[t] \in Keys
      /\ UNCHANGED <<want, attempts, conn, calls>>
  BY DEF InsertEntry, IInv, TypeOK
<1>2. EntryOK(hp)
  <2>1. hp \in HostPool
    BY DEF FirstEntry, HostPool, Protocols
  <2>2. IsFiniteSet(hp.connections) /\ Cardinality(hp.connections) = 0
    BY FS_EmptySet DEF FirstEntry
  <2>3. TotalCount(hp) <= Limit
    BY <2>2, LimitAssumption DEF TotalCount, Limit, FirstEntry
  <2>4. QED
    BY <2>1, <2>2, <2>3 DEF EntryOK, FirstEntry
<1>3. /\ attempts' \in [Tasks -> Nat]
      /\ conn' \in [Tasks -> Nat]
      /\ pc' \in [Tasks -> PC]
      /\ pc'[t] = "opening_first"
      /\ OthersStay(t)
  BY <1>1 DEF IInv, TypeOK, PC, Acquiring, Opening, OthersStay
<1>4. Cardinality({u \in Tasks : want[u] = want[t] /\ pc'[u] \in Opening})
        <= hp.opening_count
  <2>1. Cardinality(At(want[t], Opening)) = 0
    BY <1>1, FS_EmptySet DEF IInv, OpenersAccounted
  <2>2. "opening_first" \in Opening
    BY DEF Opening
  <2>3. pc' = [pc EXCEPT ![t] = "opening_first"]
    BY <1>1
  <2>4. Cardinality({u \in Tasks : want[u] = want[t] /\ pc'[u] \in Opening}) <= 0 + 1
    BY <2>1, <2>2, <2>3, OpenersJoined
  <2>5. QED
    BY <2>4 DEF FirstEntry
<1>5. \A u \in Tasks : ~ (pc[u] = "h1" /\ want[u] = want[t])
  BY <1>1 DEF IInv, ExclusiveCheckout
<1>6. QED
  BY <1>1, <1>2, <1>3, <1>4, <1>5, EntryStep

\* The slots of the handles that are out stay in the entry when it is pruned.
LEMMA SlotsKept ==
    ASSUME IInv, NEW k \in DOMAIN pools
    PROVE  /\ EntryOK(pools[k])
           /\ EntryOK(Pruned(pools[k]))
           /\ Pruned(pools[k]).opening_count = pools[k].opening_count
           /\ \A u \in Tasks :
                pc[u] = "h1" /\ want[u] = k
                  => /\ [id |-> conn[u], sender |-> "H1Out"] \in pools[k].connections
                     /\ [id |-> conn[u], sender |-> "H1Out"] \in Pruned(pools[k]).connections
<1>1. EntryOK(pools[k])
  BY DEF IInv, EntriesOK
<1>2. /\ EntryOK(Pruned(pools[k]))
      /\ Pruned(pools[k]).opening_count = pools[k].opening_count
      /\ \A c \in pools[k].connections :
           c.sender = "H1Out" => c \in Pruned(pools[k]).connections
  BY <1>1, PrunedFacts
<1>3. QED
  BY <1>1, <1>2 DEF IInv, ExclusiveCheckout

LEMMA ReturnExistingStep ==
    ASSUME IInv, NEW t \in Tasks, ReturnExisting(t)
    PROVE  IInv'
<1> DEFINE k == want[t]
           hp == Pruned(pools[k])
<1>1. PICK full \in SUBSET InUse(k) :
        LET c == First(Available(hp, full))
        IN  /\ Available(hp, full) # {}
            /\ conn' = [conn EXCEPT ![t] = c.id]
            /\ IF c.sender = "H2Live"
               THEN /\ pc' = [pc EXCEPT ![t] = "h2"]
                    /\ pools' = Put(k, hp)
               ELSE /\ pc' = [pc EXCEPT ![t] = "h1"]
                    /\ pools' = Put(k, WithSender(hp, c, "H1Out"))
  BY DEF ReturnExisting
<1> DEFINE c == First(Available(hp, full))
<1>2. /\ pc[t] = "acquiring"
      /\ k \in DOMAIN pools
      /\ UNCHANGED <<want, attempts, calls>>
  BY DEF ReturnExisting
<1>3. /\ EntryOK(hp)
      /\ hp.opening_count = pools[k].opening_count
      /\ \A u \in Tasks : pc[u] = "h1" /\ want[u] = k
           => [id |-> conn[u], sender |-> "H1Out"] \in hp.connections
  BY <1>2, SlotsKept
<1>4. /\ c \in hp.connections
      /\ c.sender \in {"H2Live", "H1Idle"}
      /\ c.id \in Nat
  <2>1. c \in Available(hp, full)
    <3>1. Available(hp, full) \subseteq PooledConnection
      BY <1>3 DEF Available, EntryOK, HostPool
    <3>2. \E d \in Available(hp, full) : \A e \in Available(hp, full) : d.id <= e.id
      BY <1>1, <3>1, LeastId
    <3>3. QED
      BY <3>2 DEF First
  <2>2. QED
    BY <1>3, <2>1 DEF Available, EntryOK, HostPool, PooledConnection
<1>5. attempts' \in [Tasks -> Nat] /\ conn' \in [Tasks -> Nat]
  BY <1>1, <1>2, <1>4 DEF IInv, TypeOK
<1>6. CASE c.sender = "H2Live"
  <2>1. pc' = [pc EXCEPT ![t] = "h2"] /\ pools' = Put(k, hp)
    BY <1>1, <1>6
  <2>2. pc' \in [Tasks -> PC] /\ pc'[t] = "h2" /\ OthersStay(t)
    BY <1>1, <2>1 DEF IInv, TypeOK, PC, Holding, OthersStay
  <2>3. Cardinality({u \in Tasks : want[u] = want[t] /\ pc'[u] \in Opening})
          <= hp.opening_count
    BY <1>2, <1>3, <2>2, OpenersAfter DEF Opening
  <2>4. QED
    BY <1>2, <1>3, <1>5, <2>1, <2>2, <2>3, EntryStep
<1>7. CASE c.sender = "H1Idle"
  <2> DEFINE hp2 == WithSender(hp, c, "H1Out")
  <2>1. pc' = [pc EXCEPT ![t] = "h1"] /\ pools' = Put(k, hp2) /\ conn'[t] = c.id
    BY <1>1, <1>7 DEF IInv, TypeOK
  <2>2. pc' \in [Tasks -> PC] /\ pc'[t] = "h1" /\ OthersStay(t)
    BY <1>1, <2>1 DEF IInv, TypeOK, PC, Holding, OthersStay
  <2>3. /\ EntryOK(hp2)
        /\ hp2.opening_count = hp.opening_count
        /\ hp2.connections = (hp.connections \ {c}) \cup {[id |-> c.id, sender |-> "H1Out"]}
    <3>1. "H1Out" \in Senders
      BY DEF Senders
    <3>2. QED
      BY <1>3, <1>4, <3>1, ReplaceFacts
  <2>4. Cardinality({u \in Tasks : want[u] = want[t] /\ pc'[u] \in Opening})
          <= hp2.opening_count
    BY <1>2, <1>3, <2>2, <2>3, OpenersAfter DEF Opening
  <2>5. ASSUME NEW u \in Tasks \ {t}, pc[u] = "h1", want[u] = want[t]
        PROVE  /\ [id |-> conn[u], sender |-> "H1Out"] \in hp2.connections
               /\ conn[u] # conn'[t]
    <3>1. [id |-> conn[u], sender |-> "H1Out"] \in hp.connections
      BY <1>3, <2>5
    <3>2. conn[u] # c.id
      BY <1>3, <1>4, <1>7, <3>1 DEF EntryOK
    <3>3. QED
      BY <2>1, <2>3, <1>7, <3>1, <3>2
  <2>6. [id |-> conn'[t], sender |-> "H1Out"] \in hp2.connections
    BY <2>1, <2>3
  <2>7. QED
    BY <1>2, <1>5, <2>1, <2>2, <2>3, <2>4, <2>5, <2>6, EntryStep
<1>8. QED
  BY <1>4, <1>6, <1>7

LEMMA OpenNewStep ==
    ASSUME IInv, NEW t \in Tasks, OpenNew(t)
    PROVE  IInv'
<1> DEFINE k == want[t]
           hp == Pruned(pools[k])
           hp2 == [hp EXCEPT !.opening_count = @ + 1]
<1>1. /\ k \in DOMAIN pools
      /\ TotalCount(hp) < ConnectionsPerHost
      /\ pools' = Put(want[t], hp2)
      /\ pc' = [pc EXCEPT ![t] = "opening_more"]
      /\ UNCHANGED <<want, attempts, conn, calls>>
  BY DEF OpenNew, BelowLimit
<1>2. /\ EntryOK(hp)
      /\ hp.opening_count = pools[k].opening_count
      /\ \A u \in Tasks : pc[u] = "h1" /\ want[u] = k
           => [id |-> conn[u], sender |-> "H1Out"] \in hp.connections
  BY <1>1, SlotsKept
<1>3. /\ hp2 \in HostPool
      /\ hp2.connections = hp.connections
      /\ hp2.next_id = hp.next_id
      /\ hp2.opening_count = hp.opening_count + 1
      /\ hp.opening_count \in Nat
  BY <1>2 DEF EntryOK, HostPool
<1>4. EntryOK(hp2)
  <2>1. Cardinality(hp.connections) \in Nat
    BY <1>2, FS_CardinalityType DEF EntryOK
  <2>2. TotalCount(hp2) <= Limit
    BY <1>1, <1>3, <2>1, LimitAssumption DEF TotalCount, Limit
  <2>3. QED
    BY <1>2, <1>3, <2>2 DEF EntryOK
<1>5. /\ attempts' \in [Tasks -> Nat]
      /\ conn' \in [Tasks -> Nat]
      /\ pc' \in [Tasks -> PC]
      /\ pc'[t] = "opening_more"
      /\ OthersStay(t)
  BY <1>1 DEF IInv, TypeOK, PC, Acquiring, Opening, OthersStay
<1>6. Cardinality({u \in Tasks : want[u] = want[t] /\ pc'[u] \in Opening})
        <= hp2.opening_count
  <2>1. /\ Cardinality(At(want[t], Opening)) <= pools[k].opening_count
        /\ Cardinality(At(want[t], Opening)) \in Nat
    BY <1>1, AtFinite DEF IInv, TypeOK, OpenersAccounted
  <2>2. "opening_more" \in Opening
    BY DEF Opening
  <2>3. pc' = [pc EXCEPT ![t] = "opening_more"]
    BY <1>1
  <2> DEFINE S == {u \in Tasks : want[u] = want[t] /\ pc'[u] \in Opening}
  <2>4. /\ Cardinality(S) \in Nat
        /\ Cardinality(S) <= Cardinality(At(want[t], Opening)) + 1
    BY <2>2, <2>3, OpenersJoined
  <2> HIDE DEF S
  <2>5. Cardinality(S) <= hp2.opening_count
    BY <1>2, <1>3, <2>1, <2>4
  <2>6. QED
    BY <2>5 DEF S
<1>7. QED
  BY <1>1, <1>2, <1>3, <1>4, <1>5, <1>6, EntryStep

LEMMA WaitStep ==
    ASSUME IInv, NEW t \in Tasks, Wait(t)
    PROVE  IInv'
<1> DEFINE k == want[t]
           hp == Pruned(pools[k])
<1>1. /\ k \in DOMAIN pools
      /\ pools' = Put(want[t], hp)
      /\ pc' = [pc EXCEPT ![t] = "wait"]
      /\ UNCHANGED <<want, attempts, conn, calls>>
  BY DEF Wait
<1>2. /\ EntryOK(hp)
      /\ hp.opening_count = pools[k].opening_count
      /\ \A u \in Tasks : pc[u] = "h1" /\ want[u] = k
           => [id |-> conn[u], sender |-> "H1Out"] \in hp.connections
  BY <1>1, SlotsKept
<1>3. /\ attempts' \in [Tasks -> Nat]
      /\ conn' \in [Tasks -> Nat]
      /\ pc' \in [Tasks -> PC]
      /\ pc'[t] = "wait"
      /\ OthersStay(t)
  BY <1>1 DEF IInv, TypeOK, PC, Acquiring, Waiting, OthersStay
<1>4. Cardinality({u \in Tasks : want[u] = want[t] /\ pc'[u] \in Opening})
        <= hp.opening_count
  BY <1>1, <1>2, <1>3, OpenersAfter DEF Opening
<1>5. QED
  BY <1>1, <1>2, <1>3, <1>4, EntryStep

\* The attempt that is counted, for the actions that end a wait.
LEMMA NextIterationFacts ==
    ASSUME IInv, NEW t \in Tasks, NextIteration(t)
    PROVE  /\ attempts' \in [Tasks -> Nat]
           /\ conn' \in [Tasks -> Nat]
           /\ calls' \in [Tasks -> Nat]
           /\ want' \in [Tasks -> Keys]
           /\ UNCHANGED <<want, conn, calls>>
           /\ pc' \in [Tasks -> PC]
           /\ pc'[t] \in {"idle", "acquiring"}
           /\ \A u \in Tasks \ {t} : pc'[u] = pc[u]
BY DEF IInv, TypeOK, NextIteration, PC, Acquiring

LEMMA AfterWaitStep ==
    ASSUME IInv, NEW t \in Tasks, AfterWait(t)
    PROVE  IInv'
<1>1. CASE TakePermit(t)
  <2> DEFINE k == want[t]
             hp == [pools[k] EXCEPT !.permit = FALSE]
  <2>1. k \in DOMAIN pools /\ pools' = Put(want[t], hp) /\ NextIteration(t)
    BY <1>1 DEF TakePermit, IInv, WaitersHaveEntry
  <2>2. /\ attempts' \in [Tasks -> Nat]
        /\ conn' \in [Tasks -> Nat]
        /\ UNCHANGED <<want, conn, calls>>
        /\ pc' \in [Tasks -> PC]
        /\ pc'[t] \in {"idle", "acquiring"}
        /\ OthersStay(t)
    BY <2>1, NextIterationFacts DEF OthersStay
  <2>3. /\ EntryOK(pools[k])
        /\ \A u \in Tasks : pc[u] = "h1" /\ want[u] = k
             => [id |-> conn[u], sender |-> "H1Out"] \in pools[k].connections
    BY <2>1, SlotsKept
  <2>4. /\ hp \in HostPool
        /\ hp.connections = pools[k].connections
        /\ hp.next_id = pools[k].next_id
        /\ hp.opening_count = pools[k].opening_count
    BY <2>3 DEF EntryOK, HostPool
  <2>5. EntryOK(hp)
    BY <2>3, <2>4 DEF EntryOK, TotalCount
  <2>6. Cardinality({u \in Tasks : want[u] = want[t] /\ pc'[u] \in Opening})
          <= hp.opening_count
    BY <2>1, <2>2, <2>4, OpenersAfter DEF Opening
  <2>7. QED
    BY <2>1, <2>2, <2>3, <2>4, <2>5, <2>6, EntryStep
<1>2. CASE Park(t)
  <2>1. /\ pools' = pools
        /\ want' \in [Tasks -> Keys]
        /\ \A u \in Tasks \ {t} : want'[u] = want[u] /\ pc'[u] = pc[u] /\ conn'[u] = conn[u]
        /\ attempts' \in [Tasks -> Nat]
        /\ calls' \in [Tasks -> Nat]
        /\ conn' \in [Tasks -> Nat]
        /\ pc' \in [Tasks -> PC]
        /\ pc'[t] = "parked"
        /\ want'[t] \in DOMAIN pools
    BY <1>2 DEF Park, IInv, TypeOK, PC, Acquiring, Waiting, WaitersHaveEntry
  <2>2. QED
    BY <2>1, LocalStep DEF Opening
<1>3. CASE Wake(t) \/ WaitTimeout(t)
  <2>1. pools' = pools /\ NextIteration(t)
    BY <1>3 DEF Wake, WaitTimeout
  <2>2. QED
    BY <2>1, NextIterationFacts, LocalStep DEF Opening
<1>4. QED
  BY <1>1, <1>2, <1>3 DEF AfterWait

-----------------------------------------------------------------------------
(* The actions of open_and_insert *)

\* A task that opens finds the entry of its key, which counts it: the else of
\* pool.rs:345 is never taken.
LEMMA OpenerFindsEntry ==
    ASSUME IInv, NEW t \in Tasks, pc[t] \in Opening
    PROVE  want[t] \in DOMAIN pools /\ pools[want[t]].opening_count >= 1
<1> DEFINE A == At(want[t], Opening)
<1>1. t \in A /\ want[t] \in Keys
  BY DEF At, IInv, TypeOK
<1>2. want[t] \in DOMAIN pools
  BY <1>1 DEF IInv, OpenersAccounted
<1>3. /\ Cardinality(A) <= pools[want[t]].opening_count
      /\ pools[want[t]].opening_count \in Nat
  BY <1>1, <1>2 DEF IInv, OpenersAccounted, EntriesOK, EntryOK, HostPool
<1>4. Cardinality(A) \in Nat /\ Cardinality(A) # 0
  BY <1>1, AtFinite, FS_EmptySet
<1>5. QED
  BY <1>2, <1>3, <1>4

\* What uncounting an opening does to an entry that counts one.
LEMMA UncountedFacts ==
    ASSUME NEW hp \in HostPool, hp.opening_count >= 1
    PROVE  /\ Uncounted(hp) \in HostPool
           /\ Uncounted(hp).connections = hp.connections
           /\ Uncounted(hp).next_id = hp.next_id
           /\ Uncounted(hp).opening_count = hp.opening_count - 1
           /\ hp.opening_count \in Nat
<1>1. hp.opening_count \in Nat /\ hp.opening_count - 1 \in Nat
  BY DEF HostPool
<1>2. QED
  BY <1>1 DEF Uncounted, HostPool

LEMMA OpenSucceedsStep ==
    ASSUME IInv, NEW t \in Tasks, NEW protocol \in Protocols, OpenSucceeds(t, protocol)
    PROVE  IInv'
<1> DEFINE k == want[t]
           hp == pools[k]
           pr == ProtocolOf(Uncounted(hp), pc[t] = "opening_first", protocol)
           c == [id |-> Uncounted(hp).next_id,
                 sender |-> IF protocol = "Http2" THEN "H2Live" ELSE "H1Out"]
           hp2 == [Uncounted(hp) EXCEPT
                     !.protocol = pr,
                     !.next_id = @ + 1,
                     !.connections = @ \cup {c}]
<1>1. /\ pc[t] \in Opening
      /\ k \in DOMAIN pools
      /\ hp.opening_count >= 1
  BY OpenerFindsEntry DEF OpenSucceeds
<1>2. /\ EntryOK(hp)
      /\ \A u \in Tasks : pc[u] = "h1" /\ want[u] = k
           => [id |-> conn[u], sender |-> "H1Out"] \in hp.connections
  BY <1>1, SlotsKept
<1>3. /\ Uncounted(hp) \in HostPool
      /\ Uncounted(hp).connections = hp.connections
      /\ Uncounted(hp).next_id = hp.next_id
      /\ Uncounted(hp).opening_count = hp.opening_count - 1
      /\ hp.opening_count \in Nat
  BY <1>1, <1>2, UncountedFacts DEF EntryOK
<1>4. /\ hp.next_id \in Nat
      /\ c \in PooledConnection
      /\ c.id = hp.next_id
      /\ hp.connections \subseteq PooledConnection
      /\ pr \in Protocols
  BY <1>2, <1>3 DEF EntryOK, HostPool, PooledConnection, Senders, ProtocolOf
<1>5. /\ hp2 \in HostPool
      /\ hp2.connections = hp.connections \cup {c}
      /\ hp2.opening_count = hp.opening_count - 1
      /\ hp2.next_id = hp.next_id + 1
  <2> DEFINE C == hp.connections \cup {c}
             un == Uncounted(hp)
  <2>1. hp2 = [un EXCEPT !.protocol = pr, !.next_id = hp.next_id + 1, !.connections = C]
    BY <1>3
  <2>2. C \in SUBSET PooledConnection /\ hp.next_id + 1 \in Nat
    BY <1>4
  <2> HIDE DEF C, un, pr, hp2
  <2>3. /\ hp2 \in HostPool
        /\ hp2.connections = C
        /\ hp2.opening_count = un.opening_count
        /\ hp2.next_id = hp.next_id + 1
    BY <1>3, <1>4, <2>1, <2>2 DEF HostPool, un
  <2>4. QED
    BY <1>3, <2>3 DEF C, un
<1>6. /\ pools' = Put(want[t], hp2)
      /\ conn' = [conn EXCEPT ![t] = hp.next_id]
      /\ pc' = [pc EXCEPT ![t] = IF protocol = "Http2" THEN "h2" ELSE "h1"]
      /\ UNCHANGED <<want, attempts, calls>>
  BY <1>1, <1>3 DEF OpenSucceeds
<1> HIDE DEF hp2
<1>7. /\ c \notin hp.connections
      /\ IsFiniteSet(hp.connections \cup {c})
      /\ Cardinality(hp.connections \cup {c}) = Cardinality(hp.connections) + 1
      /\ Cardinality(hp.connections) \in Nat
  <2>1. c \notin hp.connections
    BY <1>2, <1>4 DEF EntryOK
  <2>2. QED
    BY <1>2, <2>1, FS_AddElement, FS_CardinalityType DEF EntryOK
<1>8. EntryOK(hp2)
  <2>1. TotalCount(hp2) = TotalCount(hp)
    BY <1>3, <1>5, <1>7 DEF TotalCount
  <2>2. \A d \in hp2.connections : d.id < hp2.next_id
    BY <1>2, <1>4, <1>5 DEF EntryOK, PooledConnection
  <2>3. \A d, e \in hp2.connections : d.id = e.id => d = e
    BY <1>2, <1>4, <1>5 DEF EntryOK, PooledConnection
  <2>4. QED
    BY <1>2, <1>5, <1>7, <2>1, <2>2, <2>3 DEF EntryOK
<1>9. /\ attempts' \in [Tasks -> Nat]
      /\ conn' \in [Tasks -> Nat]
      /\ conn'[t] = hp.next_id
      /\ pc' \in [Tasks -> PC]
      /\ pc'[t] = IF protocol = "Http2" THEN "h2" ELSE "h1"
      /\ OthersStay(t)
  BY <1>4, <1>6 DEF IInv, TypeOK, PC, Holding, OthersStay
<1>10. Cardinality({u \in Tasks : want[u] = want[t] /\ pc'[u] \in Opening})
         <= hp2.opening_count
  <2>1. pc'[t] \notin Opening
    BY <1>9 DEF Opening
  <2>2. QED
    BY <1>1, <1>5, <1>9, <2>1, OpenersAfter
<1>11. ASSUME NEW u \in Tasks \ {t}, pc[u] = "h1", want[u] = want[t]
       PROVE  /\ [id |-> conn[u], sender |-> "H1Out"] \in hp2.connections
              /\ conn[u] # conn'[t]
  <2>1. [id |-> conn[u], sender |-> "H1Out"] \in hp.connections
    BY <1>2, <1>11
  <2>2. conn[u] < hp.next_id
    BY <1>2, <2>1 DEF EntryOK
  <2>3. conn[u] \in Nat
    BY DEF IInv, TypeOK
  <2>4. QED
    BY <1>4, <1>5, <1>9, <2>1, <2>2, <2>3
<1>12. pc'[t] = "h1" => [id |-> conn'[t], sender |-> "H1Out"] \in hp2.connections
  BY <1>4, <1>5, <1>9
<1>13. QED
  BY <1>6, <1>8, <1>9, <1>10, <1>11, <1>12, EntryStep

LEMMA OpenFailsStep ==
    ASSUME IInv, NEW t \in Tasks, OpenFails(t)
    PROVE  IInv'
<1> DEFINE k == want[t]
           hp == Uncounted(pools[k])
           p == [pc EXCEPT ![t] = "idle"]
<1>1. /\ pc[t] \in Opening
      /\ k \in DOMAIN pools
      /\ k \in Keys
      /\ pools[k].opening_count >= 1
      /\ UNCHANGED <<want, attempts, conn, calls>>
  BY OpenerFindsEntry DEF OpenFails, IInv, TypeOK
<1>2. /\ EntryOK(pools[k])
      /\ \A u \in Tasks : pc[u] = "h1" /\ want[u] = k
           => [id |-> conn[u], sender |-> "H1Out"] \in pools[k].connections
  BY <1>1, SlotsKept
<1>3. /\ hp \in HostPool
      /\ hp.connections = pools[k].connections
      /\ hp.next_id = pools[k].next_id
      /\ hp.opening_count = pools[k].opening_count - 1
      /\ pools[k].opening_count \in Nat
  BY <1>1, <1>2, UncountedFacts DEF EntryOK
<1>4. CASE hp.connections = {} /\ hp.opening_count = 0
  <2>1. pools' = Remove(k) /\ pc' = Orphan(k, p)
    BY <1>1, <1>4 DEF OpenFails, Unused
  <2>2. /\ DOMAIN pools' = DOMAIN pools \ {k}
        /\ pools' = [x \in DOMAIN pools' |-> pools'[x]]
        /\ \A x \in DOMAIN pools' : pools'[x] = pools[x]
    BY <2>1 DEF Remove
  <2>3. \A u \in Tasks :
          pc'[u] = IF want[u] = k /\ p[u] \in Waiting THEN "orphaned" ELSE p[u]
    BY <2>1 DEF Orphan
  <2>4. p[t] = "idle" /\ \A u \in Tasks \ {t} : p[u] = pc[u]
    BY DEF IInv, TypeOK
  <2>5. pc' \in [Tasks -> PC]
    BY <2>1, <2>4 DEF Orphan, IInv, TypeOK, PC, Acquiring, Waiting
  <2>6. TypeOK'
    BY <1>1, <2>2, <2>5 DEF IInv, TypeOK, PC
  <2>7. EntriesOK'
    BY <2>2 DEF IInv, EntriesOK, EntryOK, TotalCount, Limit, HostPool, PooledConnection
  <2>8. \A u \in Tasks : pc'[u] = "h1" => pc[u] = "h1" /\ want[u] # k
    BY <1>2, <1>3, <1>4, <2>3, <2>4
  <2>9. ExclusiveCheckout'
    BY <1>1, <2>2, <2>8 DEF IInv, ExclusiveCheckout
  <2>10. WaitersHaveEntry'
    BY <1>1, <2>2, <2>3, <2>4 DEF IInv, WaitersHaveEntry, Waiting
  <2>11. \A u \in Tasks : pc'[u] \in Opening => pc[u] \in Opening /\ u # t
    BY <2>3, <2>4 DEF Opening
  <2>12. At(k, Opening) \ {t} = {}
    <3> DEFINE A == At(k, Opening)
    <3>1. t \in A /\ IsFiniteSet(A) /\ Cardinality(A) \in Nat
      BY <1>1, AtFinite DEF At
    <3>2. Cardinality(A) <= 1
      BY <1>1, <1>3, <1>4 DEF IInv, OpenersAccounted
    <3>3. IsFiniteSet(A \ {t}) /\ Cardinality(A \ {t}) = Cardinality(A) - 1
      BY <3>1, FS_RemoveElement
    <3>4. Cardinality(A \ {t}) \in Nat
      BY <3>3, FS_CardinalityType
    <3>5. Cardinality(A \ {t}) = 0
      BY <3>1, <3>2, <3>3, <3>4
    <3>6. QED
      BY <3>3, <3>5, FS_EmptySet
  <2>13. OpenersAccounted'
    <3> SUFFICES ASSUME NEW x \in Keys
                 PROVE  IF x \in DOMAIN pools'
                        THEN Cardinality(At(x, Opening)') <= pools'[x].opening_count
                        ELSE At(x, Opening)' = {}
      BY DEF OpenersAccounted
    <3>1. CASE x = k
      <4>1. At(x, Opening)' \subseteq At(k, Opening) \ {t}
        BY <1>1, <2>11, <3>1 DEF At, Opening
      <4>2. QED
        BY <2>2, <2>12, <3>1, <4>1
    <3>2. CASE x # k
      <4>1. At(x, Opening)' = At(x, Opening)
        BY <1>1, <2>3, <2>4, <3>2 DEF At, Opening
      <4>2. QED
        BY <2>2, <3>2, <4>1 DEF IInv, OpenersAccounted
    <3>3. QED BY <3>1, <3>2
  <2>14. QED
    BY <2>6, <2>7, <2>9, <2>10, <2>13 DEF IInv
<1>5. CASE ~ (hp.connections = {} /\ hp.opening_count = 0)
  <2>1. NotifyOne(k, hp, p)
    BY <1>1, <1>5 DEF OpenFails, Unused
  <2>2. EntryOK(hp)
    <3>1. Cardinality(hp.connections) \in Nat
      BY <1>2, <1>3, FS_CardinalityType DEF EntryOK
    <3>2. TotalCount(hp) <= Limit
      BY <1>2, <1>3, <3>1, LimitAssumption DEF EntryOK, TotalCount, Limit
    <3>3. QED
      BY <1>1, <1>2, <1>3, <3>2 DEF EntryOK
  <2>3. pc[t] # "parked"
    BY <1>1 DEF Opening
  <2>4. hp.opening_count = IF pc[t] \in Opening
                           THEN pools[want[t]].opening_count - 1
                           ELSE pools[want[t]].opening_count
    BY <1>1, <1>3
  <2>5. QED
    BY <1>1, <1>2, <1>3, <2>1, <2>2, <2>3, <2>4, NotifyingStep
<1>6. QED
  BY <1>4, <1>5

-----------------------------------------------------------------------------
(* finish_connection, the server and the batch deadline *)

LEMMA ReturnH1Step ==
    ASSUME IInv, NEW t \in Tasks, ReturnH1(t)
    PROVE  IInv'
<1> DEFINE k == want[t]
           hp == pools[k]
           mine == {c \in hp.connections : c.id = conn[t] /\ c.sender \in {"H1Idle", "H1Out"}}
           hp2 == IF mine = {} THEN hp ELSE WithSender(hp, First(mine), "H1Idle")
           slot == [id |-> conn[t], sender |-> "H1Out"]
<1>1. /\ pc[t] = "h1"
      /\ k \in DOMAIN pools
      /\ slot \in hp.connections
      /\ UNCHANGED <<want, attempts, conn, calls>>
  BY DEF ReturnH1, IInv, ExclusiveCheckout
<1>2. NotifyOne(want[t], hp2, [pc EXCEPT ![t] = "idle"])
  BY <1>1 DEF ReturnH1
<1>3. /\ EntryOK(hp)
      /\ \A u \in Tasks : pc[u] = "h1" /\ want[u] = k
           => [id |-> conn[u], sender |-> "H1Out"] \in hp.connections
  BY <1>1, SlotsKept
<1>4. mine = {slot}
  <2>1. slot \in mine
    BY <1>1
  <2>2. ASSUME NEW c \in mine PROVE c = slot
    BY <1>1, <1>3 DEF EntryOK
  <2>3. QED
    BY <2>1, <2>2
<1>5. First(mine) = slot
  <2>1. slot.id <= slot.id
    BY DEF IInv, TypeOK
  <2> HIDE DEF mine, slot
  <2>2. \E c \in mine : \A d \in mine : c.id <= d.id
    BY <1>4, <2>1
  <2>3. First(mine) \in mine
    BY <2>2 DEF First
  <2>4. QED
    BY <1>4, <2>3
<1>6. hp2 = WithSender(hp, slot, "H1Idle")
  BY <1>4, <1>5
<1>7. /\ EntryOK(hp2)
      /\ hp2.opening_count = hp.opening_count
      /\ hp2.connections = (hp.connections \ {slot}) \cup {[id |-> slot.id, sender |-> "H1Idle"]}
  <2>1. "H1Idle" \in Senders
    BY DEF Senders
  <2> HIDE DEF hp2, slot
  <2>2. QED
    BY <1>1, <1>3, <1>6, <2>1, ReplaceFacts
<1>8. ASSUME NEW u \in Tasks \ {t}, pc[u] = "h1", want[u] = want[t]
      PROVE  [id |-> conn[u], sender |-> "H1Out"] \in hp2.connections
  <2>1. conn[u] # conn[t]
    BY <1>1, <1>8 DEF IInv, ExclusiveCheckout
  <2>2. QED
    BY <1>3, <1>7, <1>8, <2>1
<1>9. hp2.opening_count = IF pc[t] \in Opening
                          THEN pools[want[t]].opening_count - 1
                          ELSE pools[want[t]].opening_count
  BY <1>1, <1>7 DEF Opening
<1> HIDE DEF hp2
<1>10. QED
  BY <1>1, <1>2, <1>7, <1>8, <1>9, NotifyingStep

LEMMA RemoveDeadStep ==
    ASSUME IInv, NEW t \in Tasks, RemoveDead(t)
    PROVE  IInv'
<1> DEFINE k == want[t]
           hp == pools[k]
           C == {c \in hp.connections : c.id # conn[t]}
           hp2 == Retain(hp, conn[t])
<1>1. /\ pc[t] = "h1"
      /\ k \in DOMAIN pools
      /\ UNCHANGED <<want, attempts, conn, calls>>
  BY DEF RemoveDead, IInv, ExclusiveCheckout
<1>2. NotifyOne(want[t], hp2, [pc EXCEPT ![t] = "idle"])
  BY <1>1 DEF RemoveDead
<1>3. /\ EntryOK(hp)
      /\ \A u \in Tasks : pc[u] = "h1" /\ want[u] = k
           => [id |-> conn[u], sender |-> "H1Out"] \in hp.connections
  BY <1>1, SlotsKept
<1>4. /\ hp2 \in HostPool
      /\ hp2.connections = C
      /\ hp2.opening_count = hp.opening_count
      /\ hp2.next_id = hp.next_id
      /\ hp.opening_count \in Nat
  BY <1>3 DEF EntryOK, HostPool, Retain
<1>5. /\ IsFiniteSet(C)
      /\ Cardinality(C) \in Nat
      /\ Cardinality(hp.connections) \in Nat
      /\ Cardinality(C) <= Cardinality(hp.connections)
  BY <1>3, PartCard, C \subseteq hp.connections DEF EntryOK
<1>6. EntryOK(hp2)
  <2>1. TotalCount(hp2) <= Limit
    BY <1>3, <1>4, <1>5, LimitAssumption DEF EntryOK, TotalCount, Limit
  <2>2. QED
    BY <1>3, <1>4, <1>5, <2>1 DEF EntryOK
<1>7. ASSUME NEW u \in Tasks \ {t}, pc[u] = "h1", want[u] = want[t]
      PROVE  [id |-> conn[u], sender |-> "H1Out"] \in hp2.connections
  <2>1. conn[u] # conn[t]
    BY <1>1, <1>7 DEF IInv, ExclusiveCheckout
  <2>2. QED
    BY <1>3, <1>4, <1>7, <2>1
<1>8. hp2.opening_count = IF pc[t] \in Opening
                          THEN pools[want[t]].opening_count - 1
                          ELSE pools[want[t]].opening_count
  BY <1>1, <1>4 DEF Opening
<1> HIDE DEF hp2
<1>9. QED
  BY <1>1, <1>2, <1>6, <1>7, <1>8, NotifyingStep

\* A step that only ends the use of the pool and notifies.
LEMMA PlainNotifyStep ==
    ASSUME IInv, NEW t \in Tasks, want[t] \in DOMAIN pools,
           pc[t] \notin {"parked"} \cup Opening,
           NotifyOne(want[t], pools[want[t]], [pc EXCEPT ![t] = "idle"]),
           UNCHANGED <<want, attempts, conn, calls>>
    PROVE  IInv'
<1>1. /\ EntryOK(pools[want[t]])
      /\ \A u \in Tasks : pc[u] = "h1" /\ want[u] = want[t]
           => [id |-> conn[u], sender |-> "H1Out"] \in pools[want[t]].connections
  BY SlotsKept
<1>2. QED
  BY <1>1, NotifyingStep

\* A step that ends the use of the pool and leaves it as it is.
LEMMA LeaveStep ==
    ASSUME IInv, NEW t \in Tasks, pc' = [pc EXCEPT ![t] = "idle"], UNCHANGED pools,
           UNCHANGED <<want, attempts, conn, calls>>
    PROVE  IInv'
<1>1. /\ want' \in [Tasks -> Keys]
      /\ \A u \in Tasks \ {t} : want'[u] = want[u] /\ pc'[u] = pc[u] /\ conn'[u] = conn[u]
      /\ attempts' \in [Tasks -> Nat]
      /\ calls' \in [Tasks -> Nat]
      /\ conn' \in [Tasks -> Nat]
      /\ pc' \in [Tasks -> PC]
      /\ pc'[t] = "idle"
  BY DEF IInv, TypeOK, PC
<1>2. QED
  BY <1>1, LocalStep DEF Opening

LEMMA NotifyH2CompleteStep ==
    ASSUME IInv, NEW t \in Tasks, NotifyH2Complete(t)
    PROVE  IInv'
<1>1. CASE want[t] \in DOMAIN pools
  BY <1>1, PlainNotifyStep DEF NotifyH2Complete, Opening
<1>2. CASE want[t] \notin DOMAIN pools
  BY <1>2, LeaveStep DEF NotifyH2Complete
<1>3. QED
  BY <1>1, <1>2

LEMMA AbortStep ==
    ASSUME IInv, NEW t \in Tasks, Abort(t)
    PROVE  IInv'
<1>1. CASE pc[t] = "woken"
  <2>1. want[t] \in DOMAIN pools
    BY <1>1 DEF IInv, WaitersHaveEntry
  <2>2. QED
    BY <1>1, <2>1, PlainNotifyStep DEF Abort, Opening
<1>2. CASE pc[t] # "woken"
  BY <1>2, LeaveStep DEF Abort
<1>3. QED
  BY <1>1, <1>2

LEMMA CloseH2Step ==
    ASSUME IInv, NEW k \in Keys, CloseH2(k)
    PROVE  IInv'
<1>1. PICK c \in pools[k].connections :
         /\ c.sender = "H2Live"
         /\ pools' = Put(k, WithSender(pools[k], c, "H2Dead"))
  BY DEF CloseH2
<1> DEFINE hp == WithSender(pools[k], c, "H2Dead")
<1>2. /\ k \in DOMAIN pools
      /\ UNCHANGED <<pc, want, attempts, conn, calls>>
  BY DEF CloseH2, taskVars
<1>3. /\ EntryOK(hp)
      /\ hp.opening_count = pools[k].opening_count
      /\ hp.connections
           = (pools[k].connections \ {c}) \cup {[id |-> c.id, sender |-> "H2Dead"]}
  <2>1. "H2Dead" \in Senders
    BY DEF Senders
  <2>2. QED
    BY <1>1, <1>2, <2>1, ReplaceFacts DEF IInv, EntriesOK
<1> HIDE DEF hp
<1>4. /\ DOMAIN pools' = DOMAIN pools
      /\ pools' = [x \in DOMAIN pools' |-> pools'[x]]
      /\ pools'[k] = hp
      /\ \A x \in DOMAIN pools : x # k => pools'[x] = pools[x]
  <2>1. pools' = [x \in DOMAIN pools \cup {k} |-> IF x = k THEN hp ELSE pools[x]]
    BY <1>1 DEF Put, hp
  <2>2. QED
    BY <1>2, <2>1
<1>5. TypeOK'
  BY <1>2, <1>3, <1>4 DEF IInv, TypeOK, EntryOK
<1>6. EntriesOK'
  <2> SUFFICES ASSUME NEW x \in DOMAIN pools' PROVE EntryOK(pools'[x])
    BY DEF EntriesOK, EntryOK, TotalCount, Limit, HostPool, PooledConnection
  <2> QED BY <1>3, <1>4 DEF IInv, EntriesOK
<1>7. ExclusiveCheckout'
  <2>1. ASSUME NEW u \in Tasks, pc[u] = "h1"
        PROVE  /\ want[u] \in DOMAIN pools'
               /\ [id |-> conn[u], sender |-> "H1Out"] \in pools'[want[u]].connections
    <3>1. /\ want[u] \in DOMAIN pools
          /\ [id |-> conn[u], sender |-> "H1Out"] \in pools[want[u]].connections
      BY <2>1 DEF IInv, ExclusiveCheckout
    <3>2. QED
      BY <1>1, <1>3, <1>4, <3>1
  <2>2. QED
    BY <1>2, <2>1 DEF IInv, ExclusiveCheckout
<1>8. WaitersHaveEntry'
  BY <1>2, <1>4 DEF IInv, WaitersHaveEntry
<1>9. OpenersAccounted'
  <2>1. \A x \in Keys : At(x, Opening)' = At(x, Opening)
    BY <1>2 DEF At, Opening
  <2>2. QED
    BY <1>2, <1>3, <1>4, <2>1 DEF IInv, OpenersAccounted
<1>10. QED
  BY <1>5, <1>6, <1>7, <1>8, <1>9 DEF IInv

-----------------------------------------------------------------------------
(* The theorems *)

LEMMA InitIInv == Init => IInv
<1> SUFFICES ASSUME Init PROVE IInv
  OBVIOUS
<1>1. DOMAIN pools = {} /\ pools = [k \in DOMAIN pools |-> pools[k]]
  BY DEF Init
<1>2. TypeOK
  BY <1>1 DEF Init, TypeOK
<1>3. \A k \in Keys : At(k, Opening) = {}
  BY DEF Init, At, Opening
<1>4. EntriesOK /\ ExclusiveCheckout /\ WaitersHaveEntry
  BY <1>1 DEF Init, EntriesOK, ExclusiveCheckout, WaitersHaveEntry
<1>5. OpenersAccounted
  BY <1>1, <1>3 DEF OpenersAccounted
<1>6. QED
  BY <1>2, <1>4, <1>5 DEF IInv

LEMMA NextIInv == IInv /\ [Next]_vars => IInv'
<1> SUFFICES ASSUME IInv, [Next]_vars PROVE IInv'
  OBVIOUS
<1>1. CASE UNCHANGED vars
  <2>1. /\ TypeOK' /\ EntriesOK' /\ ExclusiveCheckout' /\ WaitersHaveEntry'
    BY <1>1 DEF vars, taskVars, IInv, TypeOK, EntriesOK, EntryOK, TotalCount, Limit,
                HostPool, PooledConnection, ExclusiveCheckout, WaitersHaveEntry
  <2>2. \A k \in Keys : At(k, Opening)' = At(k, Opening)
    BY <1>1 DEF vars, taskVars, At, Opening
  <2>3. OpenersAccounted'
    BY <1>1, <2>2 DEF vars, taskVars, IInv, OpenersAccounted
  <2>4. QED
    BY <2>1, <2>3 DEF IInv
<1>2. ASSUME NEW t \in Tasks, NEW k \in Keys, Call(t, k) PROVE IInv'
  BY <1>2, CallStep
<1>3. ASSUME NEW t \in Tasks, Acquire(t) PROVE IInv'
  BY <1>3, InsertEntryStep, ReturnExistingStep, OpenNewStep, WaitStep DEF Acquire
<1>4. ASSUME NEW t \in Tasks, AfterWait(t) PROVE IInv'
  BY <1>4, AfterWaitStep
<1>5. ASSUME NEW t \in Tasks, Opened(t) PROVE IInv'
  BY <1>5, OpenSucceedsStep, OpenFailsStep DEF Opened
<1>6. ASSUME NEW t \in Tasks, Finish(t) PROVE IInv'
  BY <1>6, ReturnH1Step, RemoveDeadStep, NotifyH2CompleteStep DEF Finish
<1>7. ASSUME NEW t \in Tasks, Abort(t) PROVE IInv'
  BY <1>7, AbortStep
<1>8. ASSUME NEW k \in Keys, CloseH2(k) PROVE IInv'
  BY <1>8, CloseH2Step
<1>9. QED
  BY <1>1, <1>2, <1>3, <1>4, <1>5, <1>6, <1>7, <1>8 DEF Next, Finished

\* IInv holds of every reachable state, whatever the constants are.
THEOREM Invariance == Spec => []IInv
<1>1. Init => IInv
  BY InitIInv
<1>2. IInv /\ [Next]_vars => IInv'
  BY NextIInv
<1>3. QED
  BY <1>1, <1>2, PTL DEF Spec

\* The variables of the pool and of its tasks keep their types (pool.rs:47-60).
THEOREM TypeCorrect == Spec => []TypeOK
<1>1. IInv => TypeOK
  BY DEF IInv
<1>2. QED
  BY <1>1, Invariance, PTL

\* An HTTP/1.1 connection carries one request at a time, and a handle always
\* finds its own, empty slot to go back to (pool.rs:211-232, 305-318).
THEOREM CheckoutExclusive == Spec => []ExclusiveCheckout
<1>1. IInv => ExclusiveCheckout
  BY DEF IInv
<1>2. QED
  BY <1>1, Invariance, PTL

\* opening_count covers the tasks that open, whose entry is always there: the
\* subtraction of pool.rs:350 and 384 cannot underflow, and the error of
\* pool.rs:345-349 is unreachable.
THEOREM OpenersAlwaysCounted == Spec => []OpenersCounted
<1>1. IInv => OpenersCounted
  BY DEF IInv, OpenersAccounted, OpenersCounted
<1>2. QED
  BY <1>1, Invariance, PTL

\* A host never has more connections, open or being opened, than the limit, or
\* than one when the limit is 0 (pool.rs:259-269, 321-332).
THEOREM LimitKept == Spec => []WithinLimit
<1>1. IInv => WithinLimit
  BY DEF IInv, EntriesOK, EntryOK, WithinLimit
<1>2. QED
  BY <1>1, Invariance, PTL
=============================================================================
