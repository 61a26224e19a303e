----------------------------- MODULE Validators -----------------------------
(***************************************************************************)
(* The challenge validators: which challenges an authorization gets, what  *)
(* each validator makes of the answer it receives from outside, and the    *)
(* lists and DNS records that make an authorization valid without one.     *)
(*                                                                         *)
(* An answer is a record: the addresses the name resolves to, what was     *)
(* got there ("none", "other", or the account whose token and thumbprint   *)
(* it shows), whether a certificate names the identifier, and what the     *)
(* source address of the client resolves to.  acct is the account of the   *)
(* order, i the identifier as it is stored, f the deployment.              *)
(***************************************************************************)
EXTENDS Configuration

\* wildcard names are shown without their label
Shown(i) == [i EXCEPT !.value = Base(i.value)]

\* variant with a bug: a wildcard gets the challenges of a plain name
StandardSetForAll(i) ==
    IF IsType(i, "ip") THEN {"http-01", "tls-alpn-01"}
    ELSE {"http-01", "dns-01", "tls-alpn-01"}

StandardSet(i) ==
    IF Wildcard(i.value) THEN {"dns-01"}
    ELSE IF IsType(i, "ip") THEN {"http-01", "tls-alpn-01"}
    ELSE {"http-01", "dns-01", "tls-alpn-01"}

PersistSet(i, f) == IF f.persist /\ IsType(i, "dns") THEN {"dns-persist-01"} ELSE {}

ChallengeSet(i, f) ==
    IF MailChallenges(f) /\ IsMail(i.value) THEN {"email-reply-00"}
    ELSE IF f.tn /\ IsType(i, "tnauthlist") THEN {"tkauth-01"}
    ELSE StandardSet(i) \cup PersistSet(i, f)
                        \cup (IF f.sim THEN {"sectigo-email-01"} ELSE {})

\* the registry knows no validator of the simulated type, which starts as valid
Postable(t) == t # "sectigo-email-01"

-----------------------------------------------------------------------------
(* dns-persist-01: a record names an issuer and an account                 *)

IssuerKnown(r, f)  == r.issuer \in f.issuers
\* a record that cannot be read says nothing, whatever else it holds
RecordMatches(r, i, acct, f) ==
    /\ ~r.malformed
    /\ IssuerKnown(r, f)
    /\ r.account = acct
    /\ ~r.expired
    /\ Wildcard(i.value) => f.persistWild /\ r.wildcard

PersistResult(i, acct, records, f) ==
    IF IsType(i, "dns") /\ f.issuers # {} /\ \E r \in records : RecordMatches(r, i, acct, f)
    THEN "valid" ELSE "invalid"

\* the check at the first sight of an authorization is given the shown name, so
\* that it never asks for the policy of a wildcard
JustInTime(i, acct, records, f) ==
    /\ IsType(i, "dns") /\ f.persist /\ f.jit
    /\ PersistResult(Shown(i), acct, records, f) = "valid"

-----------------------------------------------------------------------------
(* The other validators                                                    *)

Allowed(a, f) == a.addrs \ (IF f.block THEN {"private"} ELSE {})

HttpTargets(i, a, f) ==
    CASE IsType(i, "dns") -> Allowed(a, f)
      [] IsType(i, "ip")  -> Allowed([addrs |-> {a.self}], f)
      [] OTHER            -> {}

Compared(a, acct) == IF a.got = acct THEN "valid" ELSE "invalid"

HttpResult(i, a, acct, f) ==
    IF HttpTargets(i, a, f) = {} THEN "invalid"
    ELSE IF a.got = "none" THEN "inconclusive" ELSE Compared(a, acct)

DnsResult(a, acct) == Compared(a, acct)

TlsAlpnReachable(i, a) == IsType(i, "ip") \/ (IsType(i, "dns") /\ a.addrs # {})
TlsAlpnResult(i, a, acct) ==
    IF ~TlsAlpnReachable(i, a) THEN "invalid"
    ELSE IF a.got = "none" THEN "inconclusive"
    ELSE IF a.named THEN Compared(a, acct) ELSE "invalid"

\* a mail is found by its subject, its body has to hold the key authorization
MailResult(a, acct) == IF a.got = "none" THEN "inconclusive" ELSE Compared(a, acct)

TkauthResult(f) == IF f.ack THEN "valid" ELSE "invalid"

Result(t, i, a, acct, f) ==
    CASE t = "http-01"        -> HttpResult(i, a, acct, f)
      [] t = "dns-01"         -> DnsResult(a, acct)
      [] t = "tls-alpn-01"    -> TlsAlpnResult(i, a, acct)
      [] t = "dns-persist-01" -> PersistResult(i, acct, a.records, f)
      [] t = "email-reply-00" -> MailResult(a, acct)
      [] t = "tkauth-01"      -> TkauthResult(f)

\* source address of the client: the forward check asks for it among the addresses
\* of the name, the reverse check for the name among those of the address
SourceResult(a, f) ==
    IF a.source /\ ((f.forward /\ ~a.forward) \/ (f.reverse /\ ~a.reverse))
    THEN "invalid" ELSE "valid"

\* the profile of an account can switch checks on and the validation off
Checks(f, p) == [f EXCEPT !.unchecked = @ \/ "unchecked" \in p.challenge,
                          !.forward   = @ \/ "forward" \in p.challenge,
                          !.reverse   = @ \/ "reverse" \in p.challenge]

\* the last attempt decides, and an attempt that decided nothing is a failure
Outcome(t, i, a, acct, f) ==
    IF SourceResult(a, f) = "invalid" THEN "invalid"
    ELSE IF f.unchecked THEN "valid"
    ELSE IF Result(t, i, a, acct, f) = "valid" THEN "valid" ELSE "invalid"

-----------------------------------------------------------------------------
(* Lists that make an authorization valid.  p is the profile of the account.*)

MailLike(i, f) == IsMail(i.value) /\ (IsType(i, "email") \/ (IsType(i, "dns") /\ f.rewrite))

DomainPrevalidated(i, list) ==
    \/ list = {AnyDomain}
    \/ DomainListed(Base(i.value), list)
    \/ (Wildcard(i.value) /\ DomainListed(i.value, list))

Prevalidated(i, p, f) ==
    CASE MailLike(i, f)   -> MailListed(i.value, PreList(p, "mails", f.preMails))
      [] IsType(i, "dns") -> DomainPrevalidated(i, PreList(p, "domains", GatedDomains(f)))
      [] IsType(i, "ip")  -> AddressListed(i.value, PreList(p, "nets", GatedNets(f)))
      [] OTHER            -> FALSE
=============================================================================
