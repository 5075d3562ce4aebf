----------------------------- MODULE MCDnsCache -----------------------------
(* Small instances of DnsCache. *)
EXTENDS DnsCache, TLC

CONSTANTS h1, c1, c2, a1, a2

OneHost == {h1}
TwoCallers == {c1, c2}
OneAddress == {a1}
TwoAddresses == {a1, a2}
OnePort == {443}
TwoPorts == {80, 443}
CallerSymmetry == Permutations(Callers)
=============================================================================
