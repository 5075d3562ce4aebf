--------------------------- MODULE DnsCacheProofs ---------------------------
(***************************************************************************)
(* Proof that the cache answers with nothing older than it promises, for   *)
(* every number of callers and every ttl.  AnswersFresh is not inductive:  *)
(* it rests on what entries and lookups under way satisfy (EntriesDated,   *)
(* LookupsDated), in particular on a lookup never storing an entry that    *)
(* expires later than one lifetime after the lookup ended, however often   *)
(* concurrent lookups overwrite each other.                                *)
(***************************************************************************)
EXTENDS DnsCache, TLAPS

EntriesDated ==
    \A h \in DOMAIN cache :
       cache[h].expires_at <= cache[h].seen + MaxLookup + Lifetime(cache[h].result)

LookupsDated ==
    \A c \in Callers :
       /\ caller[c].pc = "looking" => now <= caller[c].since + MaxLookup
       /\ caller[c].pc = "storing" => /\ caller[c].since <= caller[c].seen
                                      /\ now <= caller[c].since + MaxLookup

LookupsBegun ==
    \A c \in Callers : caller[c].pc \in {"looking", "storing"} => caller[c].since <= now

DInv == TypeOK /\ EntriesDated /\ LookupsBegun /\ LookupsDated /\ AnswersFresh

LEMMA LifetimeNat ==
    /\ \A r : Lifetime(r) \in Nat
    /\ \A r : TtlOf(r) = Lifetime(r)
    /\ MaxLookup \in Nat
BY TtlAssumption, ClockAssumption DEF Lifetime, TtlOf

LEMMA InitDInv == Init => DInv
BY DEF Init, DInv, TypeOK, EntriesDated, LookupsBegun, LookupsDated, AnswersFresh, Caller, Outcome

\* A step of one caller that leaves the clock alone keeps the facts about all
\* callers when the caller's new state satisfies them.
LEMMA CallerStep ==
    ASSUME DInv, NEW c \in Callers, NEW new \in Caller,
           caller' = [caller EXCEPT ![c] = new],
           UNCHANGED <<now, zone>>,
           new.pc \in {"looking", "storing"} => new.since <= now,
           new.pc = "looking" => now <= new.since + MaxLookup,
           new.pc = "storing" => new.since <= new.seen /\ now <= new.since + MaxLookup,
           new.pc = "returned" => FreshAnswer(new),
           DOMAIN cache' \subseteq Hosts,
           \A h \in DOMAIN cache' : cache'[h] \in CacheEntry,
           EntriesDated'
    PROVE  DInv'
<1>1. \A d \in Callers : caller'[d] = IF d = c THEN new ELSE caller[d]
  BY DEF DInv, TypeOK
<1>2. TypeOK'
  BY DEF DInv, TypeOK
<1>3. LookupsDated'
  BY <1>1 DEF DInv, LookupsDated
<1>4. AnswersFresh'
  BY <1>1 DEF DInv, AnswersFresh, FreshAnswer
<1>5. LookupsBegun'
  BY <1>1 DEF DInv, LookupsBegun
<1>6. QED
  BY <1>2, <1>3, <1>4, <1>5 DEF DInv

LEMMA ResolveHitStep ==
    ASSUME DInv, NEW c \in Callers, NEW h \in Hosts, NEW p \in Ports, ResolveHit(c, h, p)
    PROVE  DInv'
<1> DEFINE e == cache[h]
           new == [pc |-> "returned", host |-> h, port |-> p, since |-> now,
                   result |-> e.result, seen |-> e.seen]
<1>1. /\ h \in DOMAIN cache
      /\ ~ (now >= e.expires_at)
      /\ caller' = [caller EXCEPT ![c] = new]
      /\ UNCHANGED <<cache, now, zone>>
  BY DEF ResolveHit, Hit, Expired
<1>2. /\ e \in CacheEntry
      /\ now \in Nat
      /\ e.expires_at <= e.seen + MaxLookup + Lifetime(e.result)
  BY <1>1 DEF DInv, TypeOK, EntriesDated
<1>3. new \in Caller
  BY <1>2 DEF Caller, CacheEntry
<1>4. now < e.seen + MaxLookup + Lifetime(e.result)
  BY <1>1, <1>2, LifetimeNat DEF CacheEntry
<1>5. new.pc = "returned" => FreshAnswer(new)
  BY <1>4 DEF FreshAnswer
<1>6. EntriesDated' /\ DOMAIN cache' \subseteq Hosts
        /\ \A x \in DOMAIN cache' : cache'[x] \in CacheEntry
  BY <1>1 DEF DInv, TypeOK, EntriesDated
<1>7. new.pc \notin {"looking", "storing"}
  OBVIOUS
<1> HIDE DEF new
<1>8. QED
  BY <1>1, <1>3, <1>5, <1>6, <1>7, CallerStep

LEMMA ResolveMissStep ==
    ASSUME DInv, NEW c \in Callers, NEW h \in Hosts, NEW p \in Ports, ResolveMiss(c, h, p)
    PROVE  DInv'
<1> DEFINE new == [pc |-> "looking", host |-> h, port |-> p, since |-> now,
                   result |-> Failed, seen |-> now]
<1>1. /\ caller' = [caller EXCEPT ![c] = new]
      /\ UNCHANGED <<cache, now, zone>>
  BY DEF ResolveMiss
<1>2. now \in Nat
  BY DEF DInv, TypeOK
<1>3. new \in Caller
  BY <1>2 DEF Caller, Outcome
<1>4. /\ new.pc = "looking"
      /\ new.since <= now
      /\ now <= new.since + MaxLookup
  BY <1>2, LifetimeNat
<1>5. EntriesDated' /\ DOMAIN cache' \subseteq Hosts
        /\ \A x \in DOMAIN cache' : cache'[x] \in CacheEntry
  BY <1>1 DEF DInv, TypeOK, EntriesDated
<1> HIDE DEF new
<1>6. QED
  BY <1>1, <1>3, <1>4, <1>5, CallerStep

LEMMA LookupEndsStep ==
    ASSUME DInv, NEW c \in Callers, LookupEnds(c)
    PROVE  DInv'
<1> DEFINE old == caller[c]
           ip == zone[old.host]
           r == Answer(ip, old.port)
           new == [old EXCEPT !.pc = "storing", !.result = r, !.seen = now]
<1>1. /\ old.pc = "looking"
      /\ caller' = [caller EXCEPT ![c] = new]
      /\ UNCHANGED <<cache, now, zone>>
  BY DEF LookupEnds
<1>2. /\ old \in Caller
      /\ now \in Nat
      /\ old.since <= now
      /\ now <= old.since + MaxLookup
  BY <1>1 DEF DInv, TypeOK, LookupsBegun, LookupsDated
<1>3. r \in Outcome
  BY <1>2 DEF DInv, TypeOK, Answer, Outcome, SocketAddr, Caller
<1> HIDE DEF r
<1>4. /\ new \in Caller
      /\ new.pc = "storing"
      /\ new.since = old.since
      /\ new.seen = now
  BY <1>2, <1>3 DEF Caller
<1>5. EntriesDated' /\ DOMAIN cache' \subseteq Hosts
        /\ \A x \in DOMAIN cache' : cache'[x] \in CacheEntry
  BY <1>1 DEF DInv, TypeOK, EntriesDated
<1> HIDE DEF new
<1>6. QED
  BY <1>1, <1>2, <1>4, <1>5, CallerStep

LEMMA StoreStep ==
    ASSUME DInv, NEW c \in Callers, Store(c)
    PROVE  DInv'
<1> DEFINE old == caller[c]
           h == old.host
           entry == [result |-> old.result, seen |-> old.seen,
                     expires_at |-> now + TtlOf(old.result)]
           new == [old EXCEPT !.pc = "returned"]
<1>1. /\ old.pc = "storing"
      /\ cache' = [x \in DOMAIN cache \cup {h} |-> IF x = h THEN entry ELSE cache[x]]
      /\ caller' = [caller EXCEPT ![c] = new]
      /\ UNCHANGED <<now, zone>>
  BY DEF Store
<1>2. /\ old \in Caller
      /\ now \in Nat
      /\ old.since <= old.seen
      /\ now <= old.since + MaxLookup
  BY <1>1 DEF DInv, TypeOK, LookupsDated
<1>3. /\ new \in Caller
      /\ new.pc = "returned"
      /\ FreshAnswer(new)
  BY <1>2 DEF Caller, FreshAnswer
<1>4. /\ entry \in CacheEntry
      /\ entry.expires_at <= entry.seen + MaxLookup + Lifetime(entry.result)
  <2>1. now + TtlOf(old.result) <= old.seen + MaxLookup + Lifetime(old.result)
    BY <1>2, LifetimeNat DEF Caller
  <2>2. now + TtlOf(old.result) \in Nat
    BY <1>2, LifetimeNat
  <2>3. QED
    BY <1>2, <2>1, <2>2 DEF Caller, CacheEntry
<1> HIDE DEF entry, new
<1>5. \A x \in DOMAIN cache' : cache'[x] = IF x = h THEN entry ELSE cache[x]
  BY <1>1
<1>6. /\ DOMAIN cache' \subseteq Hosts
      /\ \A x \in DOMAIN cache' : cache'[x] \in CacheEntry
  BY <1>1, <1>2, <1>4, <1>5 DEF DInv, TypeOK, Caller
<1>7. EntriesDated'
  BY <1>1, <1>4, <1>5 DEF DInv, EntriesDated
<1>8. QED
  BY <1>1, <1>3, <1>6, <1>7, CallerStep

LEMMA LeaveStep ==
    ASSUME DInv, NEW c \in Callers, Leave(c)
    PROVE  DInv'
<1> DEFINE new == [caller[c] EXCEPT !.pc = "idle"]
<1>1. /\ caller' = [caller EXCEPT ![c] = new]
      /\ UNCHANGED <<cache, now, zone>>
  BY DEF Leave
<1>2. new \in Caller /\ new.pc = "idle"
  BY DEF DInv, TypeOK, Caller
<1>3. EntriesDated' /\ DOMAIN cache' \subseteq Hosts
        /\ \A x \in DOMAIN cache' : cache'[x] \in CacheEntry
  BY <1>1 DEF DInv, TypeOK, EntriesDated
<1> HIDE DEF new
<1>4. QED
  BY <1>1, <1>2, <1>3, CallerStep

LEMMA TickStep ==
    ASSUME DInv, Tick
    PROVE  DInv'
<1>1. /\ now' = now + 1
      /\ now \in Nat
      /\ UNCHANGED <<cache, zone, caller>>
      /\ \A c \in Callers :
           /\ caller[c].pc \in {"looking", "storing"} => now < caller[c].since + MaxLookup
           /\ caller[c].pc # "returned"
           /\ caller[c].since \in Nat
  BY DEF Tick, DInv, TypeOK, Caller
<1>2. TypeOK' /\ EntriesDated'
  BY <1>1 DEF DInv, TypeOK, EntriesDated
<1>3. LookupsDated'
  BY <1>1, LifetimeNat DEF DInv, LookupsDated
<1>4. AnswersFresh'
  BY <1>1 DEF AnswersFresh
<1>5. LookupsBegun'
  BY <1>1 DEF DInv, LookupsBegun
<1>6. QED
  BY <1>2, <1>3, <1>4, <1>5 DEF DInv

LEMMA NextDInv == DInv /\ [Next]_vars => DInv'
<1> SUFFICES ASSUME DInv, [Next]_vars PROVE DInv'
  OBVIOUS
<1>1. CASE UNCHANGED vars
  BY <1>1 DEF vars, DInv, TypeOK, EntriesDated, LookupsBegun, LookupsDated, AnswersFresh,
              FreshAnswer
<1>2. ASSUME NEW c \in Callers, NEW h \in Hosts, NEW p \in Ports,
             ResolveHit(c, h, p) \/ ResolveMiss(c, h, p)
      PROVE  DInv'
  BY <1>2, ResolveHitStep, ResolveMissStep
<1>3. ASSUME NEW c \in Callers, LookupEnds(c) \/ Store(c) \/ Leave(c) PROVE DInv'
  BY <1>3, LookupEndsStep, StoreStep, LeaveStep
<1>4. ASSUME NEW h \in Hosts, NEW a \in {Failed} \cup Addresses, ZoneChanges(h, a)
      PROVE  DInv'
  BY <1>4 DEF ZoneChanges, DInv, TypeOK, EntriesDated, LookupsBegun, LookupsDated,
              AnswersFresh, FreshAnswer
<1>5. CASE Tick
  BY <1>5, TickStep
<1>6. QED
  BY <1>1, <1>2, <1>3, <1>4, <1>5 DEF Next

\* The age of an answer is bounded by its lifetime in the cache and one lookup
\* (dns.rs:47-102), for every ttl and however lookups overtake one another.
THEOREM FreshAlways == Spec => []AnswersFresh
<1>1. Init => DInv
  BY InitDInv
<1>2. DInv /\ [Next]_vars => DInv'
  BY NextDInv
<1>3. DInv => AnswersFresh
  BY DEF DInv
<1>4. QED
  BY <1>1, <1>2, <1>3, PTL DEF Spec

\* The cache maps hosts to entries of their type, and each caller is at one of the
\* awaits of resolve with the values that await needs (dns.rs:16-102).
THEOREM TypeCorrect == Spec => []TypeOK
<1>1. DInv => TypeOK
  BY DEF DInv
<1>2. QED
  BY <1>1, InitDInv, NextDInv, PTL DEF Spec
=============================================================================
