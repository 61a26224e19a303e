----------------------------- MODULE MCIssuance -----------------------------
(* Instances of Issuance for TLC: two orders of two accounts under         *)
(* deployments that between them switch every setting, each with the       *)
(* identifiers, CSRs, records and answers that tell its settings apart.    *)
EXTENDS Issuance, TLC

CONSTANTS a1, a2

WA == <<"w", ".", "a">>   SA == <<"*", ".", "a">>   A == <<"a">>
WX == <<"w", ".", "x">>   SBA == <<"*", ".", "b", "a">>
UA == <<"u", "@", "a">>   I4 == <<"4", "1">>        I6 == <<"6", "1">>  TN == <<"t">>

Id(t, v)   == [type |-> t, value |-> v, flag |-> FALSE]
Flagged(v) == [type |-> "dns", value |-> v, flag |-> TRUE]
San(t, v)  == [type |-> t, value |-> v]
Csr(sans)  == [sans |-> sans, cns |-> <<>>, tn |-> {}, garbled |-> FALSE, subject |-> TRUE]
Read(list) == [readable |-> TRUE, list |-> list]
Bad        == [readable |-> FALSE, list |-> {}]

Plain == [domains |-> Read({}), oldDomains |-> Read({}), ips |-> Read({}),
          profiles |-> Read({}), named |-> FALSE, sync |-> FALSE, synced |-> {},
          checkOff |-> FALSE, dryrun |-> None, nowild |-> FALSE, limit |-> 2,
          mail |-> FALSE, sender |-> FALSE, rewrite |-> FALSE, tn |-> FALSE,
          strict |-> TRUE, persist |-> FALSE, jit |-> FALSE, persistWild |-> FALSE,
          issuers |-> {}, sim |-> FALSE, ack |-> FALSE, unchecked |-> FALSE,
          forward |-> FALSE, reverse |-> FALSE, block |-> FALSE, django |-> FALSE,
          eab |-> "off", mapped |-> FALSE, field |-> FALSE,
          preDomains |-> {}, preNets |-> {}, preMails |-> {}]

\* an answer without anything, and what is got instead
Silent  == [addrs |-> {"public"}, self |-> "public", got |-> "none", named |-> TRUE,
            source |-> FALSE, forward |-> FALSE, reverse |-> FALSE, records |-> {}]
Got(x)  == [Silent EXCEPT !.got = x]
Answers == {Silent, Got("other"), Got(a1), Got(a2)}

Record(a)  == [issuer |-> "ca", account |-> a, malformed |-> FALSE, expired |-> FALSE,
               wildcard |-> FALSE]

None2 == a1 :> NoProfile @@ a2 :> NoProfile
Case(f, p, lists, csrs) ==
    [file |-> f, profile |-> p, lists |-> lists, csrs |-> csrs, records |-> {{}},
     orders |-> 1, faults |-> {"db"}, answers |-> Answers, asked |-> {None}, headers |-> {None}]

\* general list against lists and profiles of the accounts: one order with every
\* profile and a key file that may be unreadable, two orders that share CSRs
Lists(orders, asked, faults) ==
    [Case([Plain EXCEPT !.domains = Read({SA}), !.eab = "on", !.mapped = TRUE,
                        !.profiles = Read({"p", "q"}), !.named = TRUE, !.dryrun = "dry"],
          a1 :> [NoProfile EXCEPT
                   !.order = [domains |-> {WX}],
                   !.ca = [prof |-> [fixed |-> FALSE, names |-> <<"r", "p">>],
                           domains |-> {WX}]]
          @@ a2 :> [NoProfile EXCEPT !.authz = [domains |-> {AnyDomain}]],
          {<<Id("dns", WA)>>, <<Id("dns", WX)>>}, {Csr({San("dns", WA)}), Csr({San("dns", WX)})})
       EXCEPT !.asked = asked, !.answers = {Got(a1)}, !.orders = orders, !.faults = faults]

\* loose binding, wildcards, addresses, prevalidation, unreadable lists
Loose ==
    [Case([Plain EXCEPT !.strict = FALSE, !.domains = Bad, !.oldDomains = Read({SA}),
                        !.ips = Read({<<"4">>}), !.preDomains = {SA},
                        !.preNets = {<<"4">>, I4}, !.forward = TRUE],
          None2,
          {<<Id("dns", WA)>>, <<Id("ip", I4)>>, <<Id("ip", I6), Id("ip", I4)>>},
          {Csr({San("ip", I4)}), [Csr({}) EXCEPT !.cns = <<WA>>]})
       EXCEPT !.answers = {[Got(a1) EXCEPT !.source = TRUE],
                           [Got(a1) EXCEPT !.source = TRUE, !.forward = TRUE]}]
Wild ==
    [Case([Plain EXCEPT !.strict = FALSE, !.domains = Read({SA}), !.block = TRUE], None2,
          {<<Id("dns", SA)>>, <<Flagged(A)>>, <<Id("dns", SBA), Id("dns", WA)>>},
          {Csr({San("dns", SA)}), [Csr({San("dns", WA)}) EXCEPT !.cns = <<WX>>],
           Csr({San("dns", A)})})
       EXCEPT !.answers = {Got(a1), [Got(a1) EXCEPT !.addrs = {"private"}], Got(a2),
                           [Got(a1) EXCEPT !.named = FALSE]}]

\* mail addresses, told as DNS names, with a common name
Mail ==
    [Case([Plain EXCEPT !.mail = TRUE, !.sender = TRUE, !.rewrite = TRUE,
                        !.preMails = {<<"*", "@", "x">>}],
          None2, {<<Id("dns", UA)>>, <<Id("email", UA)>>},
          {Csr({San("email", UA)}), [Csr({San("email", UA)}) EXCEPT !.cns = <<WA>>]})
       EXCEPT !.answers = Answers]

\* TN authorization lists, with and without the break-glass variable
Numbers(ack) ==
    Case([Plain EXCEPT !.tn = TRUE, !.ack = ack], None2,
         {<<Id("tnauthlist", TN)>>, <<Id("tnauthlist", TN), Id("dns", WA)>>},
         {[Csr({}) EXCEPT !.tn = {TN}], [Csr({San("dns", WX)}) EXCEPT !.tn = {TN}]})

\* names of a CSR that are not read, and a list of the account that is compared
\* with the others
Unread ==
    [Case([Plain EXCEPT !.eab = "on"],
          a1 :> [NoProfile EXCEPT !.ca = [domains |-> {SA}]] @@ a2 :> NoProfile,
          {<<Id("dns", WA)>>},
          {Csr({San("dns", WA), San("uri", WX)}),
           [Csr({San("dns", WA)}) EXCEPT !.cns = <<WA, WX>>],
           [Csr({San("dns", WX)}) EXCEPT !.cns = <<WA>>, !.garbled = TRUE],
           [Csr({San("dns", WA)}) EXCEPT !.cns = <<WX, WA>>]})
       EXCEPT !.answers = {Got(a1)}]

\* persistent records, on request, or at the first sight of the authorization, where
\* a record for the base does for a wildcard although the policy is not allowed
Persist(jit) ==
    [Case([Plain EXCEPT !.persist = TRUE, !.jit = jit, !.persistWild = ~jit,
                        !.issuers = {"ca"}],
          None2, {<<Id("dns", WA)>>, <<Id("dns", SA)>>},
          {Csr({San("dns", WA)}), Csr({San("dns", SA)})})
       EXCEPT !.records = {{}, {Record(a1)}},
              !.answers = {Silent,
                           [Silent EXCEPT !.records = {Record(a2), [Record(a1) EXCEPT !.malformed = TRUE]}],
                           [Silent EXCEPT !.records = {[Record(a1) EXCEPT !.wildcard = TRUE]}],
                           [Silent EXCEPT !.records = {[Record(a1) EXCEPT !.expired = TRUE]}]}]

\* a simulated CA with django, header field, one profile only
Simulated ==
    [Case([Plain EXCEPT !.sim = TRUE, !.django = TRUE, !.field = TRUE, !.sync = TRUE,
                        !.synced = {"p"}, !.named = TRUE],
          None2, {<<Flagged(A), Id("dns", WA)>>, <<Id("dns", WA)>>},
          {Csr({San("dns", WA)})})
       EXCEPT !.asked = {"q"}, !.headers = {None, "h"}, !.answers = {Got("other")}]

\* a profile whose section is empty, one that switches the validation off, a key
\* file that is needed but has no handler
Broken(eab) ==
    [Case([Plain EXCEPT !.eab = eab, !.field = TRUE, !.nowild = TRUE],
          a1 :> [NoProfile EXCEPT !.broken = TRUE,
                                  !.order = [ips |-> {}, domains |-> {SA}]]
          @@ a2 :> [NoProfile EXCEPT !.challenge = {"unchecked"},
                                     !.order = [nowild |-> "off", checkOff |-> "odd"],
                                     !.ca = [subject |-> {"O"}]],
          {<<Id("dns", WA)>>, <<Id("dns", SA)>>},
          {Csr({San("dns", WA)}), [Csr({San("dns", SA)}) EXCEPT !.subject = FALSE]})
       EXCEPT !.headers = {None, "h"}, !.answers = {Got(a1)}, !.orders = 2, !.faults = {}]

MCCases == {Lists(1, {None, "p", "dry"}, {"keys"}), Lists(2, {None, "p"}, {}), Loose, Wild, Mail,
            Numbers(TRUE), Numbers(FALSE), Persist(TRUE), Persist(FALSE), Unread, Simulated,
            Broken("on"), Broken("nohandler")}
=============================================================================
