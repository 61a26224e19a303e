------------------------------ MODULE MCOrder ------------------------------
(* Instances of Order for TLC: one order with one or two identifiers.      *)
EXTENDS Order, TLC

CONSTANTS o1, a1, a2, f1, f2, p1, z1

mcOneAuthz == [a \in {a1} |-> o1]
mcTwoAuthz == [a \in {a1, a2} |-> o1]
mcKind     == (f1 :> "finalize" @@ f2 :> "finalize" @@ p1 :> "poll" @@ z1 :> "authz")
mcKindOf   == [r \in Requests |-> mcKind[r]]
mcTarget   == [r \in Requests |-> o1]
mcAuthzTarget == [r \in Requests |-> a1]
mcSym == Permutations({f1, f2})

=============================================================================
