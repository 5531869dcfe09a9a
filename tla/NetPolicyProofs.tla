--------------------------- MODULE NetPolicyProofs ---------------------------
(***************************************************************************)
(* Proofs about the DNS cache and the policy that reads it, for any        *)
(* addresses, names, TTLs, capacity and rules: the cache keeps its bound,  *)
(* a lookup is always the newest unexpired answer, an answer stays usable  *)
(* for its TTL if the cache has room, and a policy that allows names only  *)
(* lets nothing out but to an address that was resolved and is still valid.*)
(***************************************************************************)
EXTENDS NetPolicy, FiniteSetTheorems, TLAPS

Answers == [domain : SUBSET Domains, at : Nat, ttl : Nat]

(* The cache es agrees with the history h of answers.  It is stated for    *)
(* any cache and history, to follow a response record by record.           *)
Typed(es, h) ==
    /\ DOMAIN es \subseteq Ips
    /\ \A i \in DOMAIN es : es[i] \in Entry
    /\ h \in [Ips -> Answers]
Bounded(es) == Cardinality(DOMAIN es) <= MaxEntries
Agrees(es, h) ==
    \A i \in DOMAIN es : /\ h[i].domain = {es[i].domain}
                         /\ es[i].expires = h[i].at + Lifetime(h[i].ttl)
Given(h) == {i \in Ips : h[i] # Never}
Keeps(es, h) ==
    /\ DOMAIN es \subseteq Given(h)
    /\ Cardinality(Given(h)) <= MaxEntries =>
          \A i \in Given(h) : now < h[i].at + Lifetime(h[i].ttl) => i \in DOMAIN es
Good(es, h) == Typed(es, h) /\ Bounded(es) /\ Agrees(es, h) /\ Keeps(es, h)

CInv == now \in Nat /\ Good(entries, latest)

-----------------------------------------------------------------------------
(* The lifetime DnsCache::insert gives an answer is a number no smaller    *)
(* than its TTL or the floor.                                              *)
LEMMA LifetimeType ==
    ASSUME NEW t \in Nat
    PROVE  Lifetime(t) \in Nat /\ t <= Lifetime(t) /\ MinTtl <= Lifetime(t)
  BY TtlAssumption DEF Lifetime, Longer

(* A table of entries is finite and no larger than the set of addresses.   *)
LEMMA CacheFinite ==
    ASSUME NEW D, D \subseteq Ips
    PROVE  IsFiniteSet(D) /\ Cardinality(D) \in Nat /\ Cardinality(D) <= Cardinality(Ips)
  BY IpsAssumption, FS_Subset, FS_CardinalityType

(* A cache with room for every address of S, all it may hold, never evicts *)
(* to insert another of S.                                                 *)
LEMMA RoomForAll ==
    ASSUME NEW S, S \subseteq Ips, Cardinality(S) <= MaxEntries,
           NEW es, NEW ip \in S, DOMAIN es \subseteq S
    PROVE  ~Full(es, ip)
  <1> SUFFICES ASSUME ip \notin DOMAIN es, Cardinality(DOMAIN es) >= MaxEntries PROVE FALSE
    BY DEF Full
  <1>1. (DOMAIN es) \cup {ip} \subseteq S /\ DOMAIN es \subseteq Ips
    OBVIOUS
  <1>2. /\ IsFiniteSet(DOMAIN es) /\ Cardinality(DOMAIN es) \in Nat
        /\ IsFiniteSet(S) /\ Cardinality(S) \in Nat
    BY <1>1, CacheFinite
  <1>3. Cardinality((DOMAIN es) \cup {ip}) = Cardinality(DOMAIN es) + 1
    BY Zenon, <1>2, FS_AddElement
  <1>4. Cardinality((DOMAIN es) \cup {ip}) <= Cardinality(S)
    BY <1>1, <1>2, FS_Subset
  <1> QED BY <1>2, <1>3, <1>4, MaxEntriesAssumption

(* The capacity is kept: a full cache loses an entry for the one it gains. *)
LEMMA PutBounded ==
    ASSUME NEW es, NEW ip \in Ips, DOMAIN es \subseteq Ips, Bounded(es),
           NEW gone, NEW e,
           IF Full(es, ip) THEN \E old \in DOMAIN es : gone = {old} ELSE gone = {}
    PROVE  Bounded(Put(es, gone, ip, e))
  <1> DEFINE D == DOMAIN es
  <1>0. DOMAIN Put(es, gone, ip, e) = (D \ gone) \cup {ip}
    BY DEF Put
  <1>1. IsFiniteSet(D) /\ Cardinality(D) \in Nat /\ Cardinality(D) <= MaxEntries
    BY CacheFinite DEF Bounded
  <1>2. CASE Full(es, ip)
    <2>1. PICK old \in D : gone = {old}
      BY <1>2
    <2>2. IsFiniteSet(D \ {old}) /\ Cardinality(D \ {old}) = Cardinality(D) - 1
      BY <1>1, FS_RemoveElement
    <2>3. ip \notin D \ {old}
      BY <1>2 DEF Full
    <2>4. Cardinality((D \ {old}) \cup {ip}) = Cardinality(D \ {old}) + 1
      BY <2>2, <2>3, FS_AddElement
    <2> QED BY <1>0, <1>1, <2>1, <2>2, <2>4 DEF Bounded
  <1>3. CASE ~Full(es, ip)
    <2>1. D \ gone = D
      BY <1>3
    <2>2. CASE ip \in D
      <3>1. (D \ gone) \cup {ip} = D
        BY <2>1, <2>2
      <3> QED BY <1>0, <1>1, <3>1 DEF Bounded
    <2>3. CASE ip \notin D
      <3>1. Cardinality(D) < MaxEntries
        BY <1>1, <1>3, <2>3, MaxEntriesAssumption DEF Full
      <3>2. Cardinality(D \cup {ip}) = Cardinality(D) + 1
        BY Zenon, <1>1, <2>3, FS_AddElement
      <3> QED BY <1>0, <1>1, <2>1, <3>1, <3>2, MaxEntriesAssumption DEF Bounded
    <2> QED BY <2>2, <2>3
  <1> QED BY <1>2, <1>3

(* DnsCache::insert of one record keeps everything.                        *)
LEMMA InsertKeeps ==
    ASSUME NEW es, NEW h, now \in Nat, Good(es, h),
           NEW q \in Domains, NEW r \in Records, NEW fs \in Inserted(es, Canonical[q], r)
    PROVE  Good(fs, Note(h, q, r))
  <1> DEFINE ip == r.ip
             e == [domain |-> Canonical[q], expires |-> now + Lifetime(r.ttl), inserted |-> now]
             g == Note(h, q, r)
             a == [domain |-> {Canonical[q]}, at |-> now, ttl |-> r.ttl]
  <1>1. ip \in Ips /\ r.ttl \in Nat /\ Lifetime(r.ttl) \in Nat /\ Canonical[q] \in Domains
    BY Zenon, LifetimeType, TtlAssumption, CanonicalAssumption DEF Records
  <1>2. e \in Entry /\ a \in Answers
    BY <1>1 DEF Entry, Answers
  <1>3. PICK gone : /\ fs = Put(es, gone, ip, e)
                    /\ IF Full(es, ip) THEN \E old \in DOMAIN es : gone = {old} ELSE gone = {}
    BY Zenon DEF Inserted, Oldest
  <1>4. /\ DOMAIN fs = (DOMAIN es \ gone) \cup {ip}
        /\ \A i \in DOMAIN fs : fs[i] = IF i = ip THEN e ELSE es[i]
    BY <1>3 DEF Put
  <1>5. g \in [Ips -> Answers] /\ \A i \in Ips : g[i] = IF i = ip THEN a ELSE h[i]
    BY <1>1, <1>2 DEF Note, Good, Typed
  <1>6. Typed(fs, g)
    BY <1>1, <1>2, <1>4, <1>5 DEF Good, Typed
  <1>7. Bounded(fs)
    BY <1>1, <1>3, PutBounded DEF Good, Typed
  <1>8. e.domain = Canonical[q] /\ e.expires = now + Lifetime(r.ttl)
    OBVIOUS
  <1>9. a.domain = {Canonical[q]} /\ a.at = now /\ a.ttl = r.ttl
    OBVIOUS
  <1> HIDE DEF e, a, g, ip
  <1>10. Agrees(fs, g)
    BY <1>1, <1>4, <1>5, <1>6, <1>8, <1>9 DEF Good, Typed, Agrees
  <1>11. Keeps(fs, g)
    <2>1. a # Never
      BY <1>9 DEF Never
    <2>2. Given(g) = Given(h) \cup {ip} /\ Given(g) \subseteq Ips
      BY <1>1, <1>5, <2>1 DEF Given
    <2>3. DOMAIN fs \subseteq Given(g)
      BY <1>4, <2>2 DEF Good, Keeps
    <2>4. ASSUME Cardinality(Given(g)) <= MaxEntries, NEW i \in Given(g),
                 now < g[i].at + Lifetime(g[i].ttl)
          PROVE  i \in DOMAIN fs
      <3>1. DOMAIN es \subseteq Given(g) /\ ip \in Given(g)
        BY <2>2 DEF Good, Keeps
      <3>2. gone = {}
        BY <1>3, <2>2, <2>4, <3>1, RoomForAll
      <3>3. Cardinality(Given(h)) <= MaxEntries
        <4>1. Given(h) \subseteq Given(g) /\ Given(h) \subseteq Ips
          BY <2>2
        <4>2. /\ IsFiniteSet(Given(g)) /\ Cardinality(Given(g)) \in Nat
              /\ Cardinality(Given(h)) \in Nat
          BY <2>2, <4>1, CacheFinite
        <4>3. Cardinality(Given(h)) <= Cardinality(Given(g))
          BY <4>1, <4>2, FS_Subset
        <4> QED BY <2>4, <4>2, <4>3, MaxEntriesAssumption
      <3>4. CASE i = ip
        BY <1>4, <3>4
      <3>5. CASE i # ip
        <4>1. i \in Given(h) /\ g[i] = h[i]
          BY <1>5, <2>2, <2>4, <3>5
        <4>2. i \in DOMAIN es
          BY <2>4, <3>3, <4>1 DEF Good, Keeps
        <4> QED BY <1>4, <3>2, <4>2
      <3> QED BY <3>4, <3>5
    <2> QED BY <2>3, <2>4 DEF Keeps
  <1> QED BY <1>6, <1>7, <1>10, <1>11 DEF Good, g

-----------------------------------------------------------------------------
(* DnsCache::with_capacity starts empty, which satisfies the invariant.    *)
LEMMA InitCInv == CacheInit => CInv
  <1> SUFFICES ASSUME CacheInit PROVE CInv
    OBVIOUS
  <1>1. DOMAIN entries = {} /\ latest = [i \in Ips |-> Never] /\ now = 0
    BY DEF CacheInit
  <1>2. Never \in Answers
    BY DEF Never, Answers
  <1>3. Cardinality(DOMAIN entries) = 0
    BY <1>1, FS_EmptySet
  <1>4. Bounded(entries)
    BY <1>3, MaxEntriesAssumption DEF Bounded
  <1>5. Typed(entries, latest) /\ Agrees(entries, latest) /\ Keeps(entries, latest)
    BY <1>1, <1>2 DEF Typed, Agrees, Keeps, Given
  <1> QED BY <1>1, <1>4, <1>5 DEF CInv, Good

(* Every answer, cleanup and tick of the clock keeps the invariant.        *)
LEMMA NextCInv == CInv /\ [CacheNext]_cacheVars => CInv'
  <1> SUFFICES ASSUME CInv, [CacheNext]_cacheVars PROVE CInv'
    OBVIOUS
  <1> USE DEF cacheVars
  <1>1. ASSUME NEW q \in Domains, NEW rs \in Responses, HandleQuery(q, rs) PROVE CInv'
    <2>1. now' = now
      BY <1>1 DEF HandleQuery
    <2>2. rs[1] \in Records /\ (Len(rs) # 1 => rs[2] \in Records)
      BY DEF Responses
    <2>3. PICK es \in Inserted(entries, Canonical[q], rs[1]) :
             entries' \in IF Len(rs) = 1 THEN {es} ELSE Inserted(es, Canonical[q], rs[2])
      BY <1>1 DEF HandleQuery
    <2>4. latest' = IF Len(rs) = 1 THEN Note(latest, q, rs[1])
                    ELSE Note(Note(latest, q, rs[1]), q, rs[2])
      BY <1>1 DEF HandleQuery
    <2>5. Good(es, Note(latest, q, rs[1]))
      BY <2>2, <2>3, InsertKeeps DEF CInv
    <2>6. Good(entries', latest')
      BY <2>2, <2>3, <2>4, <2>5, InsertKeeps DEF CInv
    <2>7. Good(entries, latest)'
      BY <2>1, <2>6 DEF Good, Typed, Bounded, Agrees, Keeps, Given
    <2> QED BY <2>1, <2>7 DEF CInv
  <1>2. CASE Cleanup
    <2>1. /\ entries' = [i \in Live |-> entries[i]] /\ Live \subseteq DOMAIN entries
          /\ now' = now /\ latest' = latest
      BY <1>2 DEF Cleanup, Live
    <2>2. DOMAIN entries' = Live /\ \A i \in Live : entries'[i] = entries[i]
      BY <2>1
    <2>3. Typed(entries, latest)'
      BY <2>1, <2>2 DEF CInv, Good, Typed
    <2>4. Bounded(entries)'
      <3>1. /\ IsFiniteSet(DOMAIN entries) /\ Cardinality(DOMAIN entries) \in Nat
            /\ Cardinality(DOMAIN entries) <= MaxEntries
        BY CacheFinite DEF CInv, Good, Typed, Bounded
      <3>2. Cardinality(Live) <= Cardinality(DOMAIN entries) /\ Cardinality(Live) \in Nat
        BY <2>1, <3>1, FS_Subset, FS_CardinalityType
      <3>3. Cardinality(Live) <= MaxEntries
        BY <3>1, <3>2, MaxEntriesAssumption
      <3> QED BY <2>2, <3>3 DEF Bounded
    <2>5. Agrees(entries, latest)'
      BY <2>1, <2>2 DEF CInv, Good, Agrees
    <2>6. Keeps(entries, latest)'
      <3>0. Live \subseteq Given(latest)
        BY <2>1 DEF CInv, Good, Keeps
      <3> SUFFICES ASSUME Cardinality(Given(latest)) <= MaxEntries, NEW i \in Given(latest),
                          now < latest[i].at + Lifetime(latest[i].ttl)
                   PROVE  i \in Live
        BY <2>1, <2>2, <3>0 DEF Keeps, Given
      <3>1. i \in DOMAIN entries
        BY DEF CInv, Good, Keeps
      <3>2. /\ entries[i].expires = latest[i].at + Lifetime(latest[i].ttl)
            /\ entries[i].expires \in Nat
        BY <3>1 DEF CInv, Good, Agrees, Typed, Entry
      <3> QED BY <3>1, <3>2 DEF Live, CInv
    <2> QED BY <2>1, <2>3, <2>4, <2>5, <2>6 DEF CInv, Good
  <1>3. CASE Tick
    <2>1. now' = now + 1 /\ now \in Nat /\ UNCHANGED <<entries, latest>>
      BY <1>3 DEF Tick, CInv
    <2>2. Typed(entries, latest)' /\ Bounded(entries)' /\ Agrees(entries, latest)'
      BY <2>1 DEF CInv, Good, Typed, Bounded, Agrees
    <2>3. Keeps(entries, latest)'
      <3>0. DOMAIN entries \subseteq Given(latest)
        BY DEF CInv, Good, Keeps
      <3> SUFFICES ASSUME Cardinality(Given(latest)) <= MaxEntries, NEW i \in Given(latest),
                          now + 1 < latest[i].at + Lifetime(latest[i].ttl)
                   PROVE  i \in DOMAIN entries
        BY <2>1, <3>0 DEF Keeps, Given
      <3>1. latest[i].at \in Nat /\ latest[i].ttl \in Nat
        BY DEF CInv, Good, Typed, Answers, Given
      <3>2. Lifetime(latest[i].ttl) \in Nat
        BY <3>1, LifetimeType
      <3>3. now < latest[i].at + Lifetime(latest[i].ttl)
        BY <2>1, <3>1, <3>2
      <3> QED BY <3>3 DEF CInv, Good, Keeps
    <2> QED BY <2>1, <2>2, <2>3 DEF CInv, Good
  <1>4. CASE UNCHANGED cacheVars
    BY <1>4 DEF CInv, Good, Typed, Bounded, Agrees, Keeps, Given
  <1> QED BY <1>1, <1>2, <1>3, <1>4 DEF CacheNext

(* The cache agrees with the answers given, in every reachable state.      *)
THEOREM CacheInductive == CacheSpec => []CInv
  BY InitCInv, NextCInv, PTL DEF CacheSpec

(* dns_cache.rs: the cache and its history keep their types.               *)
THEOREM CacheTypes == CacheSpec => []CacheTypeOK
  <1>1. CInv => CacheTypeOK
    BY DEF CInv, Good, Typed, CacheTypeOK, Answers
  <1> QED BY <1>1, CacheInductive, PTL

(* dns_cache.rs:56-58: never more than max_entries, for any capacity.      *)
THEOREM CacheStaysBounded == CacheSpec => []CacheBounded
  <1>1. CInv => CacheBounded
    BY DEF CInv, Good, Bounded, CacheBounded
  <1> QED BY <1>1, CacheInductive, PTL

(* dns_cache.rs:76-84: a name found is that of the newest answer for the   *)
(* address, before that answer's lifetime is over.                         *)
THEOREM LookupsJustified == CacheSpec => []LookupJustified
  <1>1. CInv => LookupJustified
    <2> SUFFICES ASSUME CInv, NEW i \in Ips, Lookup(i) # {}
                 PROVE  /\ Lookup(i) = latest[i].domain
                        /\ now < latest[i].at + Lifetime(latest[i].ttl)
      BY DEF LookupJustified
    <2>1. i \in DOMAIN entries /\ entries[i].expires > now /\ Lookup(i) = {entries[i].domain}
      BY DEF Lookup
    <2>2. entries[i].expires \in Nat /\ now \in Nat
      BY <2>1 DEF CInv, Good, Typed, Entry
    <2> QED BY <2>1, <2>2 DEF CInv, Good, Agrees
  <1> QED BY <1>1, CacheInductive, PTL

(* dns_cache.rs:51-71,86-90: while no more addresses were answered than    *)
(* the cache has room for, an answer is found until its TTL is over.       *)
THEOREM AnswersUsable == CacheSpec => []AnswerUsable
  <1>1. CInv => AnswerUsable
    <2> SUFFICES ASSUME CInv, Cardinality(Answered) <= MaxEntries, NEW i \in Answered,
                        now < latest[i].at + latest[i].ttl
                 PROVE  Lookup(i) = latest[i].domain
      BY DEF AnswerUsable
    <2>0. Answered = Given(latest) /\ i \in Ips
      BY DEF Answered, Given
    <2>1. latest[i].at \in Nat /\ latest[i].ttl \in Nat /\ now \in Nat
      BY <2>0 DEF CInv, Good, Typed, Answers
    <2>2. Lifetime(latest[i].ttl) \in Nat /\ latest[i].ttl <= Lifetime(latest[i].ttl)
      BY <2>1, LifetimeType
    <2>3. now < latest[i].at + Lifetime(latest[i].ttl)
      BY <2>1, <2>2
    <2>4. i \in DOMAIN entries
      BY <2>0, <2>3 DEF CInv, Good, Keeps
    <2>5. /\ latest[i].domain = {entries[i].domain}
          /\ entries[i].expires = latest[i].at + Lifetime(latest[i].ttl)
      BY <2>4 DEF CInv, Good, Agrees
    <2> QED BY <2>1, <2>2, <2>3, <2>4, <2>5 DEF Lookup
  <1> QED BY <1>1, CacheInductive, PTL

-----------------------------------------------------------------------------
(* PolicyChecker::check: what it answers is the action of a rule that      *)
(* matches, or the default.                                                *)
LEMMA CheckDecides ==
    ASSUME NEW policy \in Policies, NEW p
    PROVE  \/ Check(policy, p) = policy.default_action
           \/ \E i \in DOMAIN policy.rules :
                 /\ Matches(policy.rules[i].matcher, p)
                 /\ Check(policy, p) = policy.rules[i].action
  <1> DEFINE ds == Deciding(policy.rules, p)
  <1>1. ds \subseteq DOMAIN policy.rules /\ ds \subseteq Nat
    BY PoliciesAssumption DEF Deciding
  <1>2. ASSUME ds # {} PROVE Min(ds) \in ds
    <2>1. PICK x \in ds : \A y \in ds : ~(<<y, x>> \in OpToRel(<, Nat))
      BY Zenon, <1>1, <1>2, NatLessThanWellFounded, WFMin
    <2> HIDE DEF ds
    <2>2. \A y \in ds : ~(y < x)
      BY Zenon, <1>1, <2>1 DEF OpToRel
    <2>3. \A y \in ds : x <= y
      BY <1>1, <2>2
    <2> QED BY Zenon, <2>3 DEF Min
  <1>3. Check(policy, p) = IF ds = {} THEN policy.default_action ELSE policy.rules[Min(ds)].action
    BY DEF Check
  <1>4. \A i \in ds : Matches(policy.rules[i].matcher, p)
    BY DEF Deciding
  <1> HIDE DEF ds
  <1> QED BY Zenon, <1>1, <1>2, <1>3, <1>4

(* CompiledMatcher::matches: a matcher on a name matches nothing the cache *)
(* has no name for.                                                        *)
LEMMA NameMatchIsLookup ==
    ASSUME NEW m, NEW p, Matches(m, p),
           \/ m.kind = "Domain"
           \/ m.kind = "All" /\ \E k \in m.matchers : k.kind = "Domain"
    PROVE  Lookup(p.ip) # {}
  <1>1. ASSUME NEW k, k.kind = "Domain", MatchesOne(k, p) PROVE Lookup(p.ip) # {}
    <2>1. \E d \in Lookup(p.ip) : MatchesName(k.pattern, d)
      BY <1>1 DEF MatchesOne
    <2> QED BY Zenon, <2>1
  <1>2. CASE m.kind = "Domain"
    BY <1>1, <1>2 DEF Matches
  <1>3. CASE m.kind = "All" /\ \E k \in m.matchers : k.kind = "Domain"
    BY <1>1, <1>3 DEF Matches
  <1> QED BY <1>2, <1>3

(* policy.rs:62-104, docs/design/domain-filtering.md "hardcoded IPs won't  *)
(* be in the DNS cache and will be denied": whatever the rules, if only    *)
(* names are allowed then an allowed address was in an answer, and that    *)
(* answer's lifetime is not over.                                          *)
THEOREM NamesAllowResolved == CacheSpec => []AllowedWasResolved
  <1>1. CacheTypeOK /\ LookupJustified => AllowedWasResolved
    <2> SUFFICES ASSUME LookupJustified, NEW policy \in Policies, NamesOnly(policy),
                        NEW p \in Packets, Check(policy, p) = "Allow"
                 PROVE  /\ latest[p.ip].domain # {}
                        /\ now < latest[p.ip].at + Lifetime(latest[p.ip].ttl)
      BY Zenon DEF AllowedWasResolved
    <2>1. PICK i \in DOMAIN policy.rules : /\ Matches(policy.rules[i].matcher, p)
                                          /\ policy.rules[i].action = "Allow"
      BY CheckDecides DEF NamesOnly
    <2>2. Lookup(p.ip) # {}
      BY Zenon, <2>1, NameMatchIsLookup DEF NamesOnly
    <2>3. p.ip \in Ips
      BY DEF Packets
    <2> QED BY Zenon, <2>2, <2>3 DEF LookupJustified
  <1> QED BY <1>1, CacheTypes, LookupsJustified, PTL
=============================================================================
