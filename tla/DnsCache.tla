------------------------------ MODULE DnsCache ------------------------------
(***************************************************************************)
(* crates/net/src/dns_cache.rs and dns_proxy.rs: the proxy forwards a      *)
(* guest's query and caches the A records of the answer, address -> name,  *)
(* for the policy to match names.  The stack's loop makes one call at a    *)
(* time, so a response is cached in one step.  A query that times out or   *)
(* fails to parse changes nothing.                                         *)
(*                                                                         *)
(* The upstream server is external: it answers a query with one or two A   *)
(* records, whose owner is the canonical name of what was asked.  Time is  *)
(* a number; two events may fall on one instant.                           *)
(***************************************************************************)
EXTENDS Integers, FiniteSets, Sequences

CONSTANTS
    Ips, Domains,   \* addresses and names
    Canonical,      \* the name that owns the A records of each name
    Ttls,           \* TTLs of records
    MinTtl,         \* MIN_TTL
    MaxEntries,     \* max_entries
    MaxTime         \* bound: the last instant

ASSUME IpsAssumption == IsFiniteSet(Ips)
ASSUME CanonicalAssumption == Canonical \in [Domains -> Domains]
ASSUME TtlAssumption == Ttls \subseteq Nat /\ MinTtl \in Nat
ASSUME MaxEntriesAssumption == MaxEntries \in Nat \ {0}
ASSUME MaxTimeAssumption == MaxTime \in Nat

VARIABLES
    now,        \* the clock
    entries,    \* DnsCache.entries
    latest      \* history: each address in the newest answer that had it

cacheVars == <<now, entries, latest>>

Records == [ip : Ips, ttl : Ttls]
Responses == {<<r>> : r \in Records} \cup {<<r, s>> : r, s \in Records}
Entry == [domain : Domains, expires : Nat, inserted : Nat]
Never == [domain |-> {}, at |-> 0, ttl |-> 0]

CacheInit ==
    /\ now = 0
    /\ entries = [i \in {} |-> {}]
    /\ latest = [i \in Ips |-> Never]

-----------------------------------------------------------------------------
Longer(a, b) == IF a >= b THEN a ELSE b
(* Mutant: MIN_TTL as a ceiling.                                           *)
LifetimeCapped(ttl) == IF ttl <= MinTtl THEN ttl ELSE MinTtl

Lifetime(ttl) == Longer(ttl, MinTtl)

(* evict_oldest: an entry with the least insertion time.                   *)
Oldest(es) == {i \in DOMAIN es : \A j \in DOMAIN es : es[i].inserted <= es[j].inserted}

Put(es, gone, ip, e) ==
    [i \in (DOMAIN es \ gone) \cup {ip} |-> IF i = ip THEN e ELSE es[i]]

(* DnsCache::insert, with every entry that may be evicted.                 *)
Full(es, ip) == Cardinality(DOMAIN es) >= MaxEntries /\ ip \notin DOMAIN es
Inserted(es, d, r) ==
    LET e == [domain |-> d, expires |-> now + Lifetime(r.ttl), inserted |-> now] IN
    IF Full(es, r.ip)
    THEN {Put(es, {old}, r.ip, e) : old \in Oldest(es)}
    ELSE {Put(es, {}, r.ip, e)}

Note(h, q, r) ==
    [h EXCEPT ![r.ip] = [domain |-> {Canonical[q]}, at |-> now, ttl |-> r.ttl]]

(* DnsProxy::handle_query: cache_a_records for the response to q.          *)
HandleQuery(q, rs) ==
    /\ \E es \in Inserted(entries, Canonical[q], rs[1]) :
          entries' \in IF Len(rs) = 1 THEN {es} ELSE Inserted(es, Canonical[q], rs[2])
    /\ latest' = IF Len(rs) = 1 THEN Note(latest, q, rs[1])
                 ELSE Note(Note(latest, q, rs[1]), q, rs[2])
    /\ UNCHANGED now

(* Mutant: an expired entry is found until it is cleaned up.               *)
LookupStale(ip) == IF ip \in DOMAIN entries THEN {entries[ip].domain} ELSE {}

(* DnsCache::lookup, as the set of names found.                            *)
Lookup(ip) ==
    IF ip \in DOMAIN entries /\ entries[ip].expires > now THEN {entries[ip].domain} ELSE {}

(* DnsCache::cleanup, called by the stack's loop now and then.             *)
Live == {i \in DOMAIN entries : entries[i].expires > now}
Cleanup ==
    /\ entries' = [i \in Live |-> entries[i]]
    /\ UNCHANGED <<now, latest>>

Tick ==
    /\ now < MaxTime
    /\ now' = now + 1
    /\ UNCHANGED <<entries, latest>>

CacheNext ==
    \/ \E q \in Domains, rs \in Responses : HandleQuery(q, rs)
    \/ Cleanup
    \/ Tick

CacheSpec == CacheInit /\ [][CacheNext]_cacheVars

-----------------------------------------------------------------------------
(* Types of the cache and of its history.                                  *)
CacheTypeOK ==
    /\ now \in Nat
    /\ DOMAIN entries \subseteq Ips
    /\ \A i \in DOMAIN entries : entries[i] \in Entry
    /\ latest \in [Ips -> [domain : SUBSET Domains, at : Nat, ttl : Nat]]

(* dns_cache.rs:56-58, docs/design/domain-filtering.md:609 "Cap at         *)
(* max_entries": the cache never holds more.                               *)
CacheBounded == Cardinality(DOMAIN entries) <= MaxEntries

(* dns_cache.rs:76-84: a name found is the one in the newest answer with   *)
(* the address, and that answer's lifetime is not over.                    *)
LookupJustified ==
    \A i \in Ips : Lookup(i) # {} =>
        /\ Lookup(i) = latest[i].domain
        /\ now < latest[i].at + Lifetime(latest[i].ttl)

(* dns_cache.rs:51-71,86-90: a guest that was given an address finds it in *)
(* the cache for as long as the answer is valid, while no more addresses   *)
(* were answered than the cache has room for: neither cleanup nor another  *)
(* answer takes it away.                                                   *)
Answered == {i \in Ips : latest[i] # Never}
AnswerUsable ==
    Cardinality(Answered) <= MaxEntries =>
        \A i \in Answered : now < latest[i].at + latest[i].ttl => Lookup(i) = latest[i].domain
=============================================================================
