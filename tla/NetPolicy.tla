------------------------------ MODULE NetPolicy ------------------------------
(***************************************************************************)
(* crates/net/src/policy.rs: the rules by which the stack lets a guest's   *)
(* packets out, evaluated in order against the packet and the DNS cache.   *)
(* An address has Width bits; a name is a sequence of labels, a packet of  *)
(* a protocol without ports has port 0.  A matcher All holds matchers of   *)
(* the other kinds.                                                        *)
(***************************************************************************)
EXTENDS DnsCache, FiniteSetsExt

CONSTANTS
    Width,      \* bits of an address
    Policies,   \* the policies considered, [rules, default_action]
    Ports       \* destination ports

ASSUME PoliciesAssumption ==
    \A q \in Policies : Len(q.rules) \in Nat /\ DOMAIN q.rules = 1 .. Len(q.rules)

-----------------------------------------------------------------------------
Packets == [ip : Ips, protocol : {"Tcp", "Udp"}, port : Ports]
            \cup [ip : Ips, protocol : {"Icmp"}, port : {0}]

(* DomainPattern::matches: *.name matches what has labels before name.     *)
MatchesName(pattern, d) ==
    IF pattern.wildcard
    THEN pattern.name # <<>> /\ \E k \in 1 .. Len(d) : SubSeq(d, k + 1, Len(d)) = pattern.name
    ELSE d = pattern.name

(* Addresses that agree in their first n bits.                             *)
SamePrefix(a, b, n) == a \div 2^(Width - n) = b \div 2^(Width - n)

(* CompiledMatcher::matches.                                               *)
MatchesOne(m, p) ==
    CASE m.kind = "Any" -> TRUE
      [] m.kind = "Ip" -> p.ip = m.ip
      [] m.kind = "IpRange" -> SamePrefix(p.ip, m.network, m.prefix)
      [] m.kind = "Port" -> p.port = m.port
      [] m.kind = "PortRange" -> p.port # 0 /\ m.start <= p.port /\ p.port <= m.end
      [] m.kind = "Protocol" -> p.protocol = m.protocol
      [] m.kind = "Domain" -> \E d \in Lookup(p.ip) : MatchesName(m.pattern, d)
Matches(m, p) ==
    IF m.kind = "All" THEN \A k \in m.matchers : MatchesOne(k, p) ELSE MatchesOne(m, p)

(* PolicyChecker::check: the first rule that matches and does not just log *)
(* decides.                                                                *)
Deciding(rs, p) == {i \in DOMAIN rs : Matches(rs[i].matcher, p) /\ rs[i].action # "Log"}
Check(policy, p) ==
    LET ds == Deciding(policy.rules, p)
    IN  IF ds = {} THEN policy.default_action ELSE policy.rules[Min(ds)].action

-----------------------------------------------------------------------------
(* docs/design/domain-filtering.md "hardcoded IPs won't be in the DNS      *)
(* cache and will be denied": under a policy that allows names only, an    *)
(* allowed address is in an unexpired answer for such a name.              *)
NamesOnly(policy) ==
    /\ policy.default_action = "Deny"
    /\ \A i \in DOMAIN policy.rules : policy.rules[i].action = "Allow" =>
          LET m == policy.rules[i].matcher IN
          \/ m.kind = "Domain"
          \/ m.kind = "All" /\ \E k \in m.matchers : k.kind = "Domain"
AllowedWasResolved ==
    \A policy \in {q \in Policies : NamesOnly(q)}, p \in Packets :
        Check(policy, p) = "Allow" =>
            /\ latest[p.ip].domain # {}
            /\ now < latest[p.ip].at + Lifetime(latest[p.ip].ttl)
=============================================================================
