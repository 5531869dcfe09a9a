----------------------------- MODULE MCNetPolicy -----------------------------
(* Instances of DnsCache and NetPolicy for TLC: addresses of two bits, and *)
(* names under one domain.                                                 *)
EXTENDS NetPolicy

Git == <<"github">>
Api == <<"api", "github">>
Cdn == <<"cdn">>
Names == {Api, Git, Cdn}
(* github is an alias of cdn. *)
Cnames == [d \in Names |-> IF d = Git THEN Cdn ELSE d]

Rule(action, matcher) == [action |-> action, matcher |-> matcher]
Domain(wild, name) == [kind |-> "Domain", pattern |-> [wildcard |-> wild, name |-> name]]
Port(n) == [kind |-> "Port", port |-> n]
Matchers ==
    {[kind |-> "Any"], [kind |-> "Ip", ip |-> 1], [kind |-> "IpRange", network |-> 2, prefix |-> 1],
     Port(443), [kind |-> "PortRange", start |-> 53, end |-> 80],
     [kind |-> "Protocol", protocol |-> "Udp"],
     Domain(FALSE, Git), Domain(TRUE, Git),
     [kind |-> "All", matchers |-> {Domain(TRUE, Git), Port(443)}]}
(* Each matcher only logs, then decides, before a rule on names or ports. *)
RuleLists ==
    {<<Rule("Log", m), Rule("Deny", m), Rule("Allow", Domain(TRUE, Git))>> : m \in Matchers}
    \cup {<<Rule("Log", m), Rule("Allow", m), Rule("Deny", Port(80))>> : m \in Matchers}
SomePolicies == [rules : RuleLists, default_action : {"Allow", "Deny"}]
=============================================================================
