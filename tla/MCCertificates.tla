--------------------------- MODULE MCCertificates ---------------------------
(* An instance of Certificates for TLC: a row of an older version, rows    *)
(* with the same CSR for one account and for another, two tools or         *)
(* requests of any kind.                                                   *)
EXTENDS Certificates, TLC

CONSTANTS r1, r2, r3, j1, j2, a1, a2

MCCsr      == [r \in Rows |-> 1]
MCJobKinds == j1 :> {"cleanup", "purge", "replace"}
                @@ j2 :> {"dates", "backfill", "poll", "revoke", "download"}
MCSym      == Permutations(Accounts)
=============================================================================
