---------------------------- MODULE Identifiers ----------------------------
(***************************************************************************)
(* Names, the lists of names a deployment configures, and the comparison   *)
(* of a CSR with the identifiers of its order.                             *)
(*                                                                         *)
(* A name is a sequence of tokens and stands for the text they make:       *)
(* <<"w", ".", "a">> is w.a, <<"*", ".", "a">> a wildcard, <<"b", "a">>    *)
(* the one label ba, <<"u", "@", "a">> a mail address.  An address starts  *)
(* with its family, <<"4", "1">>, and a network is a prefix of addresses.  *)
(* Names are lower case, as the program makes them before it compares.     *)
(***************************************************************************)
EXTENDS Integers, FiniteSets, SequencesExt

NoName == <<>>

Wildcard(v) == IsPrefix(<<"*", ".">>, v)
Base(v)     == IF Wildcard(v) THEN SubSeq(v, 3, Len(v)) ELSE v
IsMail(v)   == Contains(v, "@")
IsAddress(v) == v # NoName /\ Head(v) \in {"4", "6"}

\* idna.encode of the name without its wildcard label succeeds
Encodable(v) == Base(v) # NoName /\ ToSet(Base(v)) \cap {"*", "@", " "} = {}

\* a wildcard is compared with the base of a wildcard pattern, a plain name has
\* to lie below it; a plain pattern only stands for itself
PatternMatches(d, p) ==
    /\ Encodable(d) /\ Encodable(p)
    /\ IF Wildcard(p)
       THEN IsSuffix(IF Wildcard(d) THEN Base(p) ELSE <<".">> \o Base(p), Base(d))
       ELSE d = p

DomainListed(d, list) == d # NoName /\ \E p \in list \ {NoName} : PatternMatches(d, p)

AddressListed(v, nets) == IsAddress(v) /\ \E n \in nets : IsPrefix(n, v)

MailListed(v, list) ==
    \E p \in list : v = p \/ (IsPrefix(<<"*", "@">>, p) /\ IsSuffix(Tail(p), v))

-----------------------------------------------------------------------------
(* Identifiers of an order: type, value, and the flag "wildcard" a client  *)
(* may add.  f is the deployment (see Configuration), set the settings     *)
(* that hold for the account.                                              *)

IsType(i, t) == i.type = t

Rewritten(i, f) ==
    IF f.mail /\ f.rewrite /\ i.type = "dns" /\ IsMail(i.value)
    THEN [i EXCEPT !.type = "email"] ELSE i

SupportedTypes(f) == {"dns", "ip"} \cup (IF f.tn THEN {"tnauthlist"} ELSE {})
                                   \cup (IF f.mail THEN {"email"} ELSE {})

WellFormed(i) ==
    /\ i.value # NoName
    /\ CASE i.type = "dns"        -> Encodable(i.value)
         [] i.type = "ip"         -> IsAddress(i.value)
         [] i.type = "email"      -> IsMail(i.value)
         [] i.type = "tnauthlist" -> TRUE

\* the flag of the client makes the list look at the wildcard of a plain name
DomainAllowed(i, set) ==
    /\ ~(set.nowild /\ Wildcard(i.value))
    /\ set.domains # {} =>
          \/ DomainListed(i.value, set.domains)
          \/ i.flag /\ ~Wildcard(i.value)
                    /\ DomainListed(<<"*", ".">> \o i.value, set.domains)

AddressAllowed(i, set) == set.ips # {} => AddressListed(i.value, set.ips)

IdentifierAllowed(i, f, set) ==
    /\ i.type \in SupportedTypes(f)
    /\ WellFormed(i)
    /\ i.type = "dns" => DomainAllowed(i, set)
    /\ i.type = "ip"  => AddressAllowed(i, set)

IdentifiersAccepted(ids, f, set) ==
    /\ Len(ids) \in 1..f.limit
    /\ \A k \in DOMAIN ids : IdentifierAllowed(Rewritten(ids[k], f), f, set)

-----------------------------------------------------------------------------
(* A CSR: its subject alternative names of any type, the common names of   *)
(* its subject, the TN authorization lists among its extensions, whether   *)
(* the extensions are garbled and cannot be parsed, and whether the rest   *)
(* of the subject is what an EAB profile asks for.                         *)

CnType(v) == IF IsMail(v) THEN "email" ELSE IF IsAddress(v) THEN "ip" ELSE "dns"

BoundName(n, f) == [type  |-> IF f.rewrite /\ IsMail(n.value) THEN "email" ELSE n.type,
                    value |-> n.value]
BoundNames(names, f) == {BoundName(n, f) : n \in {m \in names : m.value # NoName}}

\* Names of other types are not read, and none if reading raises; of the common
\* names only the first is.
SansRead(csr) == IF csr.garbled THEN {} ELSE {n \in csr.sans : n.type \in {"dns", "ip", "email"}}
CnRead(csr)   == IF csr.cns = <<>> THEN {} ELSE {Head(csr.cns)} \ {NoName}
CsrNames(csr) == SansRead(csr) \cup {[type |-> CnType(v), value |-> v] : v \in CnRead(csr)}

TnOrder(ids, f) == f.tn /\ \E k \in DOMAIN ids : IsType(ids[k], "tnauthlist")

FitsTnList(ids, csr) ==
    /\ ~csr.garbled /\ csr.tn # {}
    /\ \A k \in DOMAIN ids : IsType(ids[k], "tnauthlist") /\ ids[k].value \in csr.tn

\* variant with a bug: the common name is not compared
FitsStrictlyBySan(ids, csr, f) ==
    BoundNames(SansRead(csr), f) = BoundNames(ToSet(ids), f) /\ ToSet(ids) # {}

FitsStrictly(ids, csr, f) ==
    BoundNames(CsrNames(csr), f) = BoundNames(ToSet(ids), f) /\ ToSet(ids) # {}

FitsLoosely(ids, csr) ==
    /\ SansRead(csr) # {}
    /\ \A n \in SansRead(csr) : \E k \in DOMAIN ids : n.type = ids[k].type /\ n.value = ids[k].value

CsrFits(ids, csr, f) ==
    IF TnOrder(ids, f) THEN FitsTnList(ids, csr)
    ELSE IF f.strict THEN FitsStrictly(ids, csr, f) ELSE FitsLoosely(ids, csr)

\* what the domain list of an EAB profile is applied to: every SAN it reads and the
\* common name, a mail address as its domain; the text of an IPv6 SAN cannot be split
ListedName(v) ==
    IF IsMail(v) THEN SubSeq(v, 1 + CHOOSE k \in DOMAIN v : v[k] = "@" /\ \A j \in 1..(k - 1) : v[j] # "@",
                             Len(v))
    ELSE v
CsrListed(csr, list) ==
    \/ list = {}
    \/ /\ \A n \in CsrNames(csr) : DomainListed(ListedName(n.value), list)
       /\ \A n \in SansRead(csr) : ~(IsType(n, "ip") /\ Head(n.value) = "6")
=============================================================================
