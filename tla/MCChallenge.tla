---------------------------- MODULE MCChallenge ----------------------------
(* Instances of Challenge for TLC: one or two authorizations.              *)
EXTENDS Challenge, TLC

CONSTANTS a1, a2, v1, v2, p1, p2, alice, bob

mcHolder  == [a \in Authzs |-> IF a = a1 THEN alice ELSE bob]
mcSender  == [p \in Posts |-> IF p = p1 THEN alice ELSE bob]
mcAlice   == [p \in Posts |-> alice]
mcAbout   == [v \in Views |-> a1]
mcAboutOwn == [v \in Views |-> IF v = v1 THEN a1 ELSE a2]
mcWildcard == [a \in Authzs |-> "wildcard"]
mcEmailTnauth == [a \in Authzs |-> IF a = a1 THEN "email" ELSE "tnauthlist"]
mcSym     == Permutations({p1, p2})
=============================================================================
