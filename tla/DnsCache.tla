------------------------------ MODULE DnsCache ------------------------------
(***************************************************************************)
(* The DNS cache of the pool (dns.rs): resolve() answers from an entry     *)
(* that has not expired, or looks the host up and stores what came back,   *)
(* addresses or failure.  Lookups of several callers for one host run side *)
(* by side and store in any order; a caller may be dropped at any await.   *)
(*                                                                         *)
(* The resolver is external: a lookup gives what the zone holds at some    *)
(* moment before it ends, and ends within MaxLookup.                       *)
(***************************************************************************)
EXTENDS Integers

CONSTANTS
    Hosts,
    Ports,
    Callers,      \* the tasks that open connections
    Addresses,    \* IP addresses
    Failed,       \* the zone has no address, or the lookup fails
    ttl,          \* config.dns_cache_ttl
    negative_ttl, \* 30 seconds
    MaxLookup,    \* the longest time a lookup takes
    MaxNow        \* BOUND: the last instant

ASSUME TtlAssumption == ttl \in Nat /\ negative_ttl \in Nat
ASSUME ClockAssumption == MaxLookup \in Nat /\ MaxNow \in Nat
ASSUME AddressAssumption == Failed \notin Addresses

VARIABLES
    cache,  \* host -> CacheEntry
    now,    \* tokio's clock
    zone,   \* host -> what a lookup finds now
    caller  \* where each caller is in resolve_inner

vars == <<cache, now, zone, caller>>

\* An address is an IP with the port of the lookup that found it: the SocketAddr
\* of lookup_host("host:port").
SocketAddr == [ip : Addresses, port : Ports]
Outcome == {Failed} \cup SocketAddr

\* seen is history: when the resolver saw what the entry or the caller holds.
CacheEntry == [result : Outcome, expires_at : Nat, seen : Nat]

Caller == [pc : {"idle", "looking", "storing", "returned"},
           host : Hosts, port : Ports, since : Nat,
           result : Outcome, seen : Nat]

TypeOK ==
    /\ DOMAIN cache \subseteq Hosts
    /\ \A h \in DOMAIN cache : cache[h] \in CacheEntry
    /\ now \in Nat
    /\ zone \in [Hosts -> {Failed} \cup Addresses]
    /\ caller \in [Callers -> Caller]

Init ==
    /\ cache = [h \in {} |-> {}]
    /\ now = 0
    /\ zone \in [Hosts -> {Failed} \cup Addresses]
    /\ caller \in [Callers -> [pc : {"idle"}, host : Hosts, port : Ports, since : {0},
                               result : {Failed}, seen : {0}]]

-----------------------------------------------------------------------------
ExpiredLate(e) == now > e.expires_at   \* a mistake: <= for <
Expired(e) == now >= e.expires_at
Hit(h) == h \in DOMAIN cache /\ ~ Expired(cache[h])

\* resolve() finds an entry that has not expired.
ResolveHit(c, h, p) ==
    /\ caller[c].pc = "idle"
    /\ Hit(h)
    /\ caller' = [caller EXCEPT ![c] = [pc |-> "returned", host |-> h, port |-> p,
                                        since |-> now, result |-> cache[h].result,
                                        seen |-> cache[h].seen]]
    /\ UNCHANGED <<cache, now, zone>>

\* resolve() finds none, lets the read lock go and starts a lookup.
ResolveMiss(c, h, p) ==
    /\ caller[c].pc = "idle"
    /\ ~ Hit(h)
    /\ caller' = [caller EXCEPT ![c] = [pc |-> "looking", host |-> h, port |-> p,
                                        since |-> now, result |-> Failed, seen |-> now]]
    /\ UNCHANGED <<cache, now, zone>>

\* The resolver sees the zone; its answer is under way.
AnswerAlways(ip, port) == [ip |-> ip, port |-> port]   \* a mistake: Err is not matched
Answer(ip, port) == IF ip = Failed THEN Failed ELSE [ip |-> ip, port |-> port]

LookupEnds(c) ==
    /\ caller[c].pc = "looking"
    /\ caller' = [caller EXCEPT
                    ![c].pc = "storing",
                    ![c].result = Answer(zone[caller[c].host], caller[c].port),
                    ![c].seen = now]
    /\ UNCHANGED <<cache, now, zone>>

\* The answer is stored for the host, whatever the port and whatever was stored
\* meanwhile, and returned.
TtlOfAll(result) == ttl   \* a mistake: a failure is kept as long as an address
TtlOf(result) == IF result = Failed THEN negative_ttl ELSE ttl

Store(c) ==
    LET h == caller[c].host
        entry == [result |-> caller[c].result, seen |-> caller[c].seen,
                  expires_at |-> now + TtlOf(caller[c].result)]
    IN  /\ caller[c].pc = "storing"
        /\ cache' = [x \in DOMAIN cache \cup {h} |-> IF x = h THEN entry ELSE cache[x]]
        /\ caller' = [caller EXCEPT ![c].pc = "returned"]
        /\ UNCHANGED <<now, zone>>

\* The caller goes on with the answer, or is dropped at an await.
Leave(c) ==
    /\ caller[c].pc # "idle"
    /\ caller' = [caller EXCEPT ![c].pc = "idle"]
    /\ UNCHANGED <<cache, now, zone>>

\* What a host resolves to changes.
ZoneChanges(h, a) ==
    /\ a # zone[h]
    /\ zone' = [zone EXCEPT ![h] = a]
    /\ UNCHANGED <<cache, now, caller>>

\* Time passes; no lookup takes longer than MaxLookup, and a caller uses an answer
\* at once.
Tick ==
    /\ now < MaxNow
    /\ \A c \in Callers :
         /\ caller[c].pc \in {"looking", "storing"} => now < caller[c].since + MaxLookup
         /\ caller[c].pc # "returned"
    /\ now' = now + 1
    /\ UNCHANGED <<cache, zone, caller>>

Next ==
    \/ \E c \in Callers : \/ \E h \in Hosts, p \in Ports : ResolveHit(c, h, p)
                                                          \/ ResolveMiss(c, h, p)
                          \/ LookupEnds(c)
                          \/ Store(c)
                          \/ Leave(c)
    \/ \E h \in Hosts, a \in {Failed} \cup Addresses : ZoneChanges(h, a)
    \/ Tick

Spec == Init /\ [][Next]_vars

-----------------------------------------------------------------------------
(* Properties *)

\* An address was what the resolver saw less than ttl and one lookup ago, a
\* failure less than negative_ttl and one lookup ago (dns.rs:16, 47-102), although
\* a slow lookup may store an old answer over a newer one.
Lifetime(result) == IF result = Failed THEN negative_ttl ELSE ttl
FreshAnswer(c) ==
    \/ now < c.seen + MaxLookup + Lifetime(c.result)
    \/ c.since <= c.seen /\ now <= c.since + MaxLookup
AnswersFresh == \A c \in Callers : caller[c].pc = "returned" => FreshAnswer(caller[c])

\* The addresses resolved for a host and a port have that port (dns.rs:38,
\* pool.rs:417-428 connects to them as they are).
PortsMatch ==
    \A c \in Callers :
       caller[c].pc = "returned" /\ caller[c].result # Failed
         => caller[c].result.port = caller[c].port
=============================================================================
