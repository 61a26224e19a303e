------------------------------ MODULE Issuance ------------------------------
(***************************************************************************)
(* From the identifiers of an order to the names a CA is asked to certify: *)
(* newOrder checks them against the lists and profiles of the account, an  *)
(* authorization request may find them valid already, a challenge proves   *)
(* them, finalize compares the CSR with them, and the enrollment thread    *)
(* looks the account, the profile and the header field of the CSR up again *)
(* before it submits it.                                                   *)
(*                                                                         *)
(* One request is one step here, except that it may stop after each of its *)
(* database writes; Order and Challenge model the steps inside.  The       *)
(* enrollment thread is a step of its own.                                 *)
(***************************************************************************)
EXTENDS Validators

CONSTANTS
    Accounts, Orders,
    Cases,               \* deployments with their accounts, what clients send, how
                         \* many orders there are at most, and what may go wrong:
                         \* "db", "keys" (key file unreadable)
    MaxRows              \* accepted finalize requests of a behaviour

\* an identifier as a client sends it
Identifier == [type : STRING, value : Seq(STRING), flag : BOOLEAN]

ASSUME IssuanceAssumption ==
    /\ \A c \in Cases : /\ DOMAIN c.profile = Accounts
                        /\ c.faults \subseteq {"db", "keys"}
                        /\ c.lists \subseteq Seq(Identifier)
                        /\ {"unchecked", "forward", "reverse"} \subseteq DOMAIN c.file
    /\ Orders \subseteq Nat /\ MaxRows \in Nat

VARIABLES
    case,                \* file, profile of each account, lists, CSRs, records
    order, authz,        \* order rows, authorization rows of each order
    rows,                \* certificate rows, the oldest first
    \* history, never read by the program:
    sent                 \* what was submitted to the CA

vars == <<case, order, authz, rows, sent>>

file == case.file
Blank == [state |-> "none", acct |-> None, ids |-> <<>>, profile |-> None,
          told |-> FALSE, asked |-> None, keys |-> TRUE]

Init ==
    /\ case \in Cases
    /\ order = [o \in Orders |-> Blank]
    /\ authz = [o \in Orders |-> <<>>]
    /\ rows = <<>>
    /\ sent = {}

\* a key file that cannot be read is a file without profiles
KeyFile == IF "keys" \in case.faults THEN BOOLEAN ELSE {TRUE}
ProfileOf(a, readable) ==
    IF file.eab = "on" /\ readable /\ a # None THEN case.profile[a] ELSE NoProfile

\* writes of a request that were made when the database failed
Writes(n) == IF "db" \in case.faults THEN 0..n ELSE {n}

SetOrder(o, s) == order' = [order EXCEPT ![o].state = s]

-----------------------------------------------------------------------------
(* newOrder                                                                *)

NewAuthz(s) == [status |-> s, set |-> {}, tried |-> {}, basis |-> {}]

\* authorizations that are stored one by one, each valid at its second write when
\* the CA is simulated; django cannot store one that has the flag of the client
Stored(ids, n) ==
    LET two   == file.sim
        count == IF two THEN (n + 1) \div 2 ELSE n
        bad   == {k \in DOMAIN ids : file.django /\ ids[k].flag}
        kept  == {k \in 1..count : \A b \in bad : k < b}
    IN [k \in kept |-> IF two /\ 2 * k <= n
                       THEN [NewAuthz("valid") EXCEPT !.basis = {"sim"}]
                       ELSE NewAuthz("pending")]
FullCount(ids) == IF file.sim THEN 2 * Len(ids) ELSE Len(ids)

NewOrder(o, a, ids, asked, readable, n) ==
    LET set   == SettingsFor(file, ProfileOf(a, readable))
        bad   == ~IdentifiersAccepted(ids, file, set)
        wrong == asked # None /\ ~ProfileAccepted(asked, file, set)
        kept  == IF bad \/ wrong THEN None ELSE ProfileKept(asked, file, set)
        added == IF bad \/ wrong THEN <<>> ELSE Stored(ids, n)
    IN /\ o <= case.orders /\ order[o] = Blank
       /\ \A q \in Orders : q < o => order[q] # Blank
       /\ order' = [order EXCEPT ![o] =
             [state |-> IF bad THEN "invalid" ELSE "pending", acct |-> a, ids |-> ids,
              profile |-> kept, asked |-> asked, keys |-> readable,
              told |-> ~bad /\ ~wrong /\ n = FullCount(ids) /\ DOMAIN added = DOMAIN ids]]
       /\ authz' = [authz EXCEPT ![o] = added]
       /\ UNCHANGED <<case, rows, sent>>

-----------------------------------------------------------------------------
(* The authorization request: records of the name, lists, challenge set    *)

Known(o, k) == order[o].told /\ k \in DOMAIN order[o].ids

Become(o, k, s, why) ==
    authz' = [authz EXCEPT ![o][k].status = s, ![o][k].basis = @ \cup why]

\* both ways store the authorization and then the order, whatever its state is
MakeValid(o, k, why, n) ==
    /\ IF n >= 1 THEN Become(o, k, "valid", why) ELSE UNCHANGED authz
    /\ IF n = 2 THEN SetOrder(o, "ready") ELSE UNCHANGED order

\* a record for the name, or for the base of a wildcard that would not do for it
RecordBasis(i, acct, records) ==
    IF PersistResult(i, acct, records, file) = "valid" THEN {"record"} ELSE {"base"}

ViewJustInTime(o, k, records, n) ==
    /\ Known(o, k)
    /\ JustInTime(order[o].ids[k], order[o].acct, records, file)
    /\ MakeValid(o, k, RecordBasis(order[o].ids[k], order[o].acct, records), n)
    /\ UNCHANGED <<case, rows, sent>>

\* a set that exists is shown again
SetOf(o, k) == IF authz[o][k].set = {} THEN ChallengeSet(order[o].ids[k], file)
               ELSE authz[o][k].set

View(o, k, records, readable, n) ==
    LET i   == order[o].ids[k]
        pre == /\ authz[o][k].status # "valid"
               /\ Prevalidated(i, ProfileOf(order[o].acct, readable), file)
    IN /\ Known(o, k)
       /\ ~JustInTime(i, order[o].acct, records, file)
       /\ IF ~pre
          THEN /\ authz' = [authz EXCEPT ![o][k].set = SetOf(o, k)]
               /\ UNCHANGED order
          ELSE /\ authz' = [authz EXCEPT
                     ![o][k].status = IF n >= 1 THEN "valid" ELSE @,
                     ![o][k].basis  = IF n >= 1 THEN @ \cup {"list"} ELSE @,
                     ![o][k].set    = IF n = 2 THEN SetOf(o, k) ELSE @]
               /\ IF n = 2 THEN SetOrder(o, "ready") ELSE UNCHANGED order
       /\ UNCHANGED <<case, rows, sent>>

-----------------------------------------------------------------------------
(* The challenge request                                                   *)

\* what the answer shows, whatever the validator makes of it
Shows(t, a, acct) == t # "dns-persist-01" /\ t # "tkauth-01" /\ a.got = acct
ShowsRecord(t, i, a, acct) ==
    /\ t = "dns-persist-01"
    /\ \E r \in a.records : /\ r.account = acct /\ ~r.expired /\ ~r.malformed
                            /\ Wildcard(i.value) => r.wildcard

Basis(t, i, a, acct, checks) ==
    IF checks.unchecked THEN {"unchecked"}
    ELSE IF Shows(t, a, acct) \/ ShowsRecord(t, i, a, acct) THEN {t}
    ELSE IF t = "tkauth-01" /\ file.ack THEN {"ack"} ELSE {}

Validate(o, k, t, a, readable) ==
    LET i      == order[o].ids[k]
        acct   == order[o].acct
        checks == Checks(file, ProfileOf(acct, readable))
        ok     == Outcome(t, i, a, acct, checks) = "valid"
    IN /\ Known(o, k)
       /\ t \in authz[o][k].set \ authz[o][k].tried /\ Postable(t)
       /\ authz' = [authz EXCEPT
             ![o][k].tried  = @ \cup {t},
             ![o][k].status = IF ok THEN "valid" ELSE "invalid",
             ![o][k].basis  = IF ok THEN @ \cup Basis(t, i, a, acct, checks) ELSE @]
       /\ UNCHANGED <<case, order, rows, sent>>

-----------------------------------------------------------------------------
(* Order requests                                                          *)

AllValid(o) == authz[o] # <<>> /\ \A k \in DOMAIN authz[o] : authz[o][k].status = "valid"

Poll(o) ==
    /\ order[o].told /\ order[o].state = "pending" /\ AllValid(o)
    /\ SetOrder(o, "ready")
    /\ UNCHANGED <<case, authz, rows, sent>>

RejectFinalize(o) ==
    /\ order[o].told /\ order[o].state = "ready" /\ ~AllValid(o)
    /\ SetOrder(o, "invalid")
    /\ UNCHANGED <<case, authz, rows, sent>>

\* variant with a bug: only a profile the file lists can be the dry run
DryRunListed(o) == order[o].profile = file.dryrun /\ order[o].profile \in FileProfiles(file)

DryRun(o) == order[o].profile # None /\ order[o].profile = file.dryrun

\* a CSR that does not fit, and a dry run, leave the order in processing
Finalize(o, csr, header) ==
    /\ order[o].told /\ order[o].state = "ready" /\ AllValid(o)
    /\ Len(rows) < MaxRows
    /\ SetOrder(o, "processing")
    /\ rows' = Append(rows, [order |-> o, csr |-> csr, header |-> header,
                             state |-> IF CsrFits(order[o].ids, csr, file) /\ ~DryRun(o)
                                       THEN "accepted" ELSE "refused"])
    /\ UNCHANGED <<case, authz, sent>>

-----------------------------------------------------------------------------
(* The enrollment thread                                                   *)

\* the look-ups go by the CSR: the oldest row gives the account and the profile,
\* the newest the header field
SameCsr(csr)  == {q \in DOMAIN rows : rows[q].csr = csr}
FirstRow(csr) == CHOOSE q \in SameCsr(csr) : \A s \in SameCsr(csr) : q <= s
LastRow(csr)  == CHOOSE q \in SameCsr(csr) : \A s \in SameCsr(csr) : q >= s

FoundProfile(csr)        == order[rows[FirstRow(csr)].order].profile
FoundHeader(csr)         == rows[LastRow(csr)].header
FoundEab(csr, readable)  == ProfileOf(order[rows[FirstRow(csr)].order].acct, readable)

Submission(r, readable) ==
    LET csr == rows[r].csr
    IN Granted(file, FoundEab(csr, readable), csr, FoundProfile(csr), FoundHeader(csr))

Enroll(r, readable, s) ==
    LET what == Submission(r, readable)
    IN /\ r \in DOMAIN rows /\ rows[r].state = "accepted"
       /\ what = Refused => s = "invalid"
       /\ rows' = [rows EXCEPT ![r].state = "done"]
       /\ sent' = IF what = Refused THEN sent
                  ELSE sent \cup {[row |-> r, profile |-> what, keys |-> readable]}
       /\ SetOrder(rows[r].order, s)
       /\ UNCHANGED <<case, authz>>

-----------------------------------------------------------------------------
Next ==
    \/ \E o \in Orders, a \in Accounts, ids \in case.lists,
          asked \in case.asked, readable \in KeyFile :
          \E n \in Writes(FullCount(ids)) : NewOrder(o, a, ids, asked, readable, n)
    \/ \E o \in Orders : \E k \in DOMAIN authz[o], records \in case.records :
          \E n \in Writes(2) :
             \/ ViewJustInTime(o, k, records, n)
             \/ \E readable \in KeyFile : View(o, k, records, readable, n)
    \/ \E o \in Orders : \E k \in DOMAIN authz[o] : \E t \in authz[o][k].set,
          a \in case.answers, readable \in KeyFile : Validate(o, k, t, a, readable)
    \/ \E o \in Orders :
          \/ Poll(o)
          \/ RejectFinalize(o)
          \/ \E csr \in case.csrs, header \in case.headers : Finalize(o, csr, header)
    \/ \E r \in DOMAIN rows, readable \in KeyFile,
          s \in {"valid", "invalid", "processing"} : Enroll(r, readable, s)

Spec == Init /\ [][Next]_vars

-----------------------------------------------------------------------------
(* Properties                                                              *)

TypeOK ==
    /\ case \in Cases
    /\ \A o \in Orders :
          /\ order[o].state \in {"none", "pending", "ready", "processing", "valid",
                                 "invalid"}
          /\ order[o].told \in BOOLEAN
          /\ \A k \in DOMAIN authz[o] :
                authz[o][k].status \in {"pending", "valid", "invalid"}
    /\ \A r \in DOMAIN rows : rows[r].state \in {"accepted", "refused", "done"}

\* an order a client was told has one authorization per identifier, and one that
\* was not can never be finalized
ToldIsComplete ==
    \A o \in Orders :
       /\ order[o].told => DOMAIN authz[o] = DOMAIN order[o].ids
       /\ ~order[o].told => order[o].state \in {"none", "pending", "invalid"}

\* a name for which the validators were asked is not valid without a reason
ValidHasReason ==
    \A o \in Orders : \A k \in DOMAIN authz[o] :
       authz[o][k].status = "valid" => authz[o][k].basis # {}

\* control over a host says nothing about the names below it
WildcardByDns ==
    \A o \in Orders : \A k \in DOMAIN authz[o] :
       Wildcard(order[o].ids[k].value) =>
          authz[o][k].basis \cap {"http-01", "tls-alpn-01"} = {}

\* The state of orders and authorizations is consistent whatever database write
\* is the last of a request: a client knows an order only when all its
\* authorizations exist (order.py:236, create_order), an authorization is valid
\* only for a reason that was found when it became valid (authorization.py:762,
\* challenge.py:478), and a wildcard is not proven by a host (challenge set of
\* challenge_business_logic.py:228).
IssuanceInv == TypeOK /\ ToldIsComplete /\ ValidHasReason /\ WildcardByDns

\* control of the name was shown, or a list or a setting of the operator applied;
\* or the name is a wildcard, and what was found is a record for its base
Justified(o, k) ==
    \/ authz[o][k].basis \ {"base"} # {}
    \/ /\ "base" \in authz[o][k].basis
       /\ file.persist /\ file.jit /\ Wildcard(order[o].ids[k].value)

\* Of a CSR that was submitted, every DNS name, IP address and mail address, unless
\* it is empty, belongs to an identifier of its order that is justified; with
\* strict binding so does the first common name, and every identifier is in the
\* CSR (certificate.py:746, csr.py:118).  An order for TN authorization lists is
\* compared with the extensions only.  It says nothing of names of other types,
\* further common names and extensions that cannot be parsed: they are submitted
\* uncompared (csr.py:38, csr.py:95).  The justification by the record of a base,
\* when the authorization is first viewed, ignores the policy of the record and
\* dns_persist_allow_policy_wildcard, against docs/dns-persist-01.md:29 and :55.
NamesAuthorized ==
    \A s \in sent :
       LET r   == rows[s.row]
           ids == order[r.order].ids
           Proven(n) == \E k \in DOMAIN ids : /\ BoundName(ids[k], file) = BoundName(n, file)
                                              /\ Justified(r.order, k)
       IN IF TnOrder(ids, file)
          THEN \A k \in DOMAIN ids : Justified(r.order, k)
          ELSE /\ \A n \in SansRead(r.csr) : n.value # NoName => Proven(n)
               /\ file.strict => /\ \A n \in CsrNames(r.csr) : n.value # NoName => Proven(n)
                                 /\ \A k \in DOMAIN ids : \E n \in CsrNames(r.csr) :
                                       BoundName(ids[k], file) = BoundName(n, file)

\* What the look-ups would find if they went by the order
OwnGrant(r, readable) ==
    LET o == rows[r].order
    IN Granted(file, ProfileOf(order[o].acct, readable), rows[r].csr, order[o].profile,
               rows[r].header)
Reused(r) == \E q \in DOMAIN rows : q # r /\ rows[q].csr = rows[r].csr

\* A submission is made with the profile its own order and account grant and with
\* names their list allows, although everything is looked up by the CSR
\* (kid_profile_handler.py:146, config.py:626, network.py:750): this fails only
\* for a CSR that was also sent with another finalize request.  Its identifiers
\* passed the lists that held for its account when the order was created, and an
\* order that asked for a dry run is never submitted (certificate.py:1668).
PolicyKept ==
    \A s \in sent :
       LET o == order[rows[s.row].order]
       IN /\ ~Reused(s.row) => s.profile = OwnGrant(s.row, s.keys)
          /\ IdentifiersAccepted(o.ids, file,
                                 SettingsFor(file, ProfileOf(o.acct, o.keys)))
          /\ o.asked # None => o.asked # file.dryrun
=============================================================================
