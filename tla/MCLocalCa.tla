----------------------------- MODULE MCLocalCa -----------------------------
(* An instance of LocalCa for TLC: CSRs with a listed name, an unlisted    *)
(* one, one that does not split, one nobody reads, one that block.all is   *)
(* found in, and none; lists of every kind; chains with a long, a short,   *)
(* an expiring and an expired CA.                                          *)
EXTENDS LocalCa, TLC

CONSTANTS e1, e2, r1, r2, r3, n1, n2, nb

S(n, k) == [name |-> n, kind |-> k]
MCCsrs == { [sans |-> <<S(n1, "plain")>>, cn |-> NoName],
            [sans |-> <<S(n1, "plain"), S(n2, "plain")>>, cn |-> n1],
            [sans |-> <<S(n2, "colon")>>, cn |-> n1],
            [sans |-> <<S(n2, "other")>>, cn |-> NoName],
            [sans |-> <<S(n2, "other"), S(nb, "plain")>>, cn |-> NoName] }
C(h, al, bl, w, d, chain, z) ==
    [handler |-> h, allowed |-> al, blocked |-> bl, whitelist |-> w,
     blacklist |-> Absent, days |-> 3, adjust |-> d, chain |-> chain, zone |-> z]

\* one configuration of each handler, for the interleavings
MCXca    == C("xca", Absent, Absent, Absent, FALSE, <<20>>, 0)
MCPlain  == C("openssl", {n1}, Absent, Absent, FALSE, <<20>>, 0)
\* all policies and chains
MCPolicies == { C("openssl", al, bl, w, FALSE, <<20>>, 0) :
                    al \in {Absent, {n1}, Unparsable},
                    bl \in {Absent, {n2}, Unparsable}, w \in {Absent, {n2}} }
Ends == {-3, 1, 2, 5, 20}
MCChains == { C("openssl", Absent, Absent, Absent, TRUE, <<i, j>>, z) :
                    i, j \in Ends, z \in {-1, 1} }
MCConfs == {MCXca, MCPlain} \cup MCPolicies \cup MCChains
MCSym == Permutations(Revokers)
=============================================================================
