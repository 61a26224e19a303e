--------------------------- MODULE Configuration ---------------------------
(***************************************************************************)
(* What a deployment configures and what the external account binding of   *)
(* an account changes of it.                                               *)
(*                                                                         *)
(* f is the configuration file: an entry that may be unreadable is a       *)
(* record [readable, list].  p is the profile of an account in the key     *)
(* file: a section is a function from the parameters it names; broken says *)
(* that the section "cahandler" is there but empty, which raises whenever  *)
(* it is searched.                                                         *)
(***************************************************************************)
EXTENDS Identifiers

None == "none"

\* the error text takes the place of an unreadable list, and its characters are
\* then the patterns: they match no name
Unreadable == {<<"unreadable">>}
ListOf(e)  == IF e.readable THEN e.list ELSE Unreadable

\* the deprecated entry of the CA handler counts when the other is empty
DomainList(f)  == LET first == ListOf(f.domains)
                  IN IF first # {} THEN first ELSE ListOf(f.oldDomains)
AddressList(f) == ListOf(f.ips)

FileProfiles(f) == IF f.profiles.readable THEN f.profiles.list ELSE {}
\* profiles the CA offers, kept in the database, replace those of the file
Profiles(f) == IF f.sync /\ f.synced # {} THEN f.synced ELSE FileProfiles(f)
\* the check is on once the file names profiles, readable or not
CheckOff(f) == IF Profiles(f) # {} THEN f.checkOff ELSE ~f.named

OrderSettings(f) == [domains |-> DomainList(f), ips |-> AddressList(f),
                     nowild |-> f.nowild, profiles |-> Profiles(f),
                     checkOff |-> CheckOff(f)]

\* a list for every domain or address needs the break-glass variable of the
\* environment when it stands in the file
AnyDomain == <<"*">>
UnboundedNet(n) == Len(n) = 1
GatedDomains(f) == IF f.preDomains = {AnyDomain} /\ ~f.ack THEN {} ELSE f.preDomains
GatedNets(f) == IF f.ack THEN f.preNets ELSE {n \in f.preNets : ~UnboundedNet(n)}

\* the challenge settings drop mail identifiers without a sender address
MailChallenges(f) == f.mail /\ f.sender

-----------------------------------------------------------------------------
(* EAB profiles                                                            *)

NoSection == [x \in {} |-> {}]
NoProfile == [order |-> NoSection, ca |-> NoSection, authz |-> NoSection,
              challenge |-> {}, broken |-> FALSE]

Named(p, n)      == n \in DOMAIN p.order \/ n \in DOMAIN p.ca
Param(p, n, old) == IF n \in DOMAIN p.order THEN p.order[n]
                    ELSE IF n \in DOMAIN p.ca THEN p.ca[n] ELSE old

\* parameters in the order they are applied; a parameter that raises ends it.
\* "forward" is searched in the section of the CA handler only
Steps == <<"ips", "domains", "nowild", "forward", "prof", "checkOff">>
Raises(p, n)  == p.broken /\ (n = "forward" \/ n \notin DOMAIN p.order)
Applied(p, n) ==
    LET reached == {k \in DOMAIN Steps : \A j \in 1..k : ~Raises(p, Steps[j])}
    IN \E k \in reached : Steps[k] = n
Override(p, n, old) == IF Applied(p, n) THEN Param(p, n, old) ELSE old

\* eab_profile_as_bool: a text that is no truth value leaves the setting
AsBool(text, old) == IF text = "on" THEN TRUE ELSE IF text = "off" THEN FALSE ELSE old

\* profiles the account may use, when the CA handler says which parameter names them
Mapped(p, f) == IF f.mapped /\ Applied(p, "prof") /\ Named(p, "prof")
                THEN ToSet(Param(p, "prof", None).names) ELSE {}

Effective(f, p) ==
    LET s       == OrderSettings(f)
        mapping == Mapped(p, f)
        off     == IF mapping # {} THEN FALSE ELSE s.checkOff
    IN [domains  |-> Override(p, "domains", s.domains),
        ips      |-> Override(p, "ips", s.ips),
        nowild   |-> AsBool(Override(p, "nowild", "odd"), s.nowild),
        profiles |-> IF mapping # {} THEN mapping ELSE s.profiles,
        checkOff |-> AsBool(Override(p, "checkOff", "odd"), off)]

SettingsFor(f, p) == IF f.eab = "on" THEN Effective(f, p) ELSE OrderSettings(f)

\* prevalidation lists: only a list that is not empty replaces the general one
PreList(p, n, general) ==
    IF n \in DOMAIN p.authz /\ p.authz[n] # {} THEN p.authz[n] ELSE general

-----------------------------------------------------------------------------
(* ACME profiles of an order                                               *)

ProfileAccepted(asked, f, set) ==
    \/ set.checkOff
    \/ f.dryrun # None /\ asked = f.dryrun
    \/ asked \in set.profiles
    \/ Cardinality(set.profiles) = 1

\* an unknown profile is replaced by the only one, or ignored if there is none
ProfileKept(asked, f, set) ==
    CASE asked = None            -> None
      [] set.profiles # {}       ->
            IF set.checkOff \/ asked \in set.profiles \/ asked = f.dryrun
               \/ Cardinality(set.profiles) # 1
            THEN asked ELSE CHOOSE x \in set.profiles : TRUE
      [] OTHER                   -> IF asked = f.dryrun THEN asked ELSE None

-----------------------------------------------------------------------------
(* What a CA handler asks of a CSR before it submits it: the profile p of  *)
(* the account the CSR is looked up for, the profile and the header field  *)
(* the look-ups by CSR found.                                              *)

Refused == "refused"

\* client_parameter_validate: the first of the list if the client asked nothing
Selected(names, asked) ==
    IF asked = None THEN Head(names)
    ELSE IF asked \in ToSet(names) THEN asked ELSE Refused

Asked(f, profile, header) == IF FileProfiles(f) # {} THEN profile ELSE header

ProfileForbids(f, p, csr, header) ==
    \/ p.broken
    \/ "domains" \in DOMAIN p.ca /\ ~CsrListed(csr, p.ca["domains"])
    \/ "subject" \in DOMAIN p.ca /\ ~csr.subject
    \/ f.field /\ "prof" \notin DOMAIN p.ca /\ header # None

GrantedByEab(f, p, csr, profile, header) ==
    IF ProfileForbids(f, p, csr, header) THEN Refused
    ELSE IF "prof" \notin DOMAIN p.ca THEN None
    ELSE IF p.ca["prof"].fixed THEN Head(p.ca["prof"].names)
    ELSE Selected(p.ca["prof"].names, Asked(f, profile, header))

\* the profile a submission is made with, or a refusal
Granted(f, p, csr, profile, header) ==
    CASE f.eab = "nohandler" -> Refused
      [] f.eab = "on"        -> GrantedByEab(f, p, csr, profile, header)
      [] OTHER -> IF FileProfiles(f) # {} THEN profile
                  ELSE IF f.field THEN header ELSE None
=============================================================================
