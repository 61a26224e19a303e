------------------------------ MODULE MCNonce ------------------------------
(* Instances of Nonce for TLC: two processes, one of them serves newnonce.  *)
EXTENDS Nonce, TLC

CONSTANTS k1, w1, q1, q2, m1, m2, m3

mcKind == [r \in Requests |-> CASE r = k1 -> "cleanup" [] r = w1 -> "newnonce"
                                [] OTHER -> "post"]
mcProcessOf == [r \in Requests |-> IF r = q2 THEN 2 ELSE 1]
mcSym == Permutations({m1, m2, m3})
=============================================================================
