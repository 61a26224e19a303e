--------------------------- MODULE MCProcessState ---------------------------
(* Instances of ProcessState for TLC: three calls of one process.          *)
EXTENDS ProcessState, TLC

CONSTANTS c1, c2, c3

mcSettings(k, s, f) == [keytab |-> k, shared |-> s, krb5 |-> f]
mcConfigs == {mcSettings(TRUE, FALSE, "file"), mcSettings(FALSE, FALSE, "file"),
              mcSettings(TRUE, TRUE, "missing"), mcSettings(FALSE, TRUE, "missing")}
mcSym == Permutations(Calls)
=============================================================================
