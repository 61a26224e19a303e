----------------------------- MODULE MCAccount -----------------------------
(* An instance of Account for TLC: two registrations with one jwk, and two *)
(* requests that may ask for anything else; a rollover names the same key  *)
(* with the members of its jwk in another order.                           *)
EXTENDS Account, TLC

CONSTANTS n1, n2, x1, x2, j1, j2, k1, kid1

mcAsks   == [r \in Requests |-> IF r \in {n1, n2} THEN {"new"} ELSE Kinds \ {"new"}]
mcKeyIn  == [j \in Jwks |-> k1]
mcJwkOf  == [r \in Requests |-> j1]
mcNewJwk == [r \in Requests |-> j2]
mcKid    == [r \in Requests |-> kid1]
mcSym    == Permutations({n1, n2}) \cup Permutations({x1, x2})
=============================================================================
