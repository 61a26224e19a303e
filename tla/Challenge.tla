----------------------------- MODULE Challenge -----------------------------
(***************************************************************************)
(* Authorizations and their challenges in acme2certifier: the request for  *)
(* an authorization, which stores its token and creates its challenges,    *)
(* the request for a challenge, which starts a validation thread and waits *)
(* for it a limited time, and the validation thread, which writes first    *)
(* the challenge and then the authorization.                               *)
(*                                                                         *)
(* Every request and every thread runs on its own; one database call is    *)
(* one step.  What a validator finds out in the network is a choice.       *)
(***************************************************************************)
EXTENDS Integers, FiniteSets

CONSTANTS
    Authzs, Accounts,
    Holder,              \* the account an authorization belongs to
    Sort,                \* the identifier: "dns", "wildcard", "ip", "email", ...
    Views, About,        \* requests for an authorization, and for which one
    Posts, Sender,       \* challenge requests, and the account that signs one
    DnsPersist, EmailSupport, TnauthSupport, SectigoSim,
    ValidationDisabled,  \* by configuration, for every account
    ProfileDisabled,     \* authorizations whose account's EAB profile says so
    AddressChecked,      \* authorizations with an address check when disabled
    AsyncMode, RetryLimit,
    Django,              \* the database handler: django, otherwise wsgi
    Faults,              \* what may go wrong: "db", "profile", "crash"
    NoRow                \* not a challenge row

Sorts  == {"dns", "wildcard", "ip", "email", "tnauthlist"}
ChallengeType == {"http-01", "dns-01", "tls-alpn-01", "dns-persist-01",
                  "email-reply-00", "tkauth-01", "sectigo-email-01"}

\* the row of a challenge: the request that created it, and its type
Rows == Views \X ChallengeType

ASSUME ChallengeAssumption ==
    /\ Holder \in [Authzs -> Accounts]
    /\ Sort \in [Authzs -> Sorts]
    /\ About \in [Views -> Authzs]
    /\ Sender \in [Posts -> Accounts]
    /\ {DnsPersist, EmailSupport, TnauthSupport, SectigoSim, ValidationDisabled,
        AsyncMode, Django} \subseteq BOOLEAN
    /\ ProfileDisabled \subseteq Authzs /\ AddressChecked \subseteq Authzs
    /\ RetryLimit \in Nat \ {0}
    /\ Faults \subseteq {"db", "profile", "crash"}
    /\ NoRow \notin Rows

AuthzStatus == {"pending", "valid", "invalid"}
Status      == {"none", "pending", "processing", "valid", "invalid"}
ViewPc      == {"idle", "lookup", "update", "search", "create", "done"}
PostPc      == {"idle", "read", "handle", "join", "answer", "done"}
ThreadPc    == {"idle", "mark", "profile", "address", "attempt", "challenge",
                "authz", "failchallenge", "failauthz", "done", "dead"}
\* the states of a thread between its first and its last write to the challenge
Working     == {"profile", "address", "attempt", "challenge", "failchallenge"}

VARIABLES
    astatus, tokened,       \* authorization rows: status, a token is stored
    cstatus,                \* challenge rows
    offered,                \* challenges whose URL a client was told
    vpc, vseen, vtodo,      \* authorization requests and their locals
    pc, tgt, seen, ans,     \* challenge requests and their locals
    tpc, verdict, tries,    \* the validation thread of a challenge request
    \* history, never read by the program:
    passed,                 \* requests whose validation succeeded
    overlapped,             \* authorizations with two threads at a time
    reverted,               \* authorizations whose token was stored late
    lost                    \* authorizations a fault concerned

authzVars  == <<astatus, tokened>>
viewVars   == <<vpc, vseen, vtodo>>
postVars   == <<pc, tgt, seen, ans>>
threadVars == <<tpc, verdict, tries>>
ghostVars  == <<passed, overlapped, reverted, lost>>
vars == <<authzVars, cstatus, offered, viewVars, postVars, threadVars, ghostVars>>

Init ==
    /\ astatus = [a \in Authzs |-> "pending"]
    /\ tokened = {} /\ offered = {}
    /\ cstatus = [c \in Rows |-> "none"]
    /\ vpc = [v \in Views |-> "idle"]
    /\ vseen = [v \in Views |-> "pending"]
    /\ vtodo = [v \in Views |-> {}]
    /\ pc = [p \in Posts |-> "idle"]
    /\ tgt = [p \in Posts |-> NoRow]
    /\ seen = [p \in Posts |-> "none"]
    /\ ans = [p \in Posts |-> "none"]
    /\ tpc = [p \in Posts |-> "idle"]
    /\ verdict = [p \in Posts |-> "none"]
    /\ tries = [p \in Posts |-> 0]
    /\ passed = {} /\ overlapped = {} /\ reverted = {} /\ lost = {}

-----------------------------------------------------------------------------
(* Helpers                                                                 *)

AuthzOf(c)  == About[c[1]]
TypeOf(c)   == c[2]
AuthzFor(p) == AuthzOf(tgt[p])
Stored(a)   == {c \in Rows : AuthzOf(c) = a /\ cstatus[c] # "none"}
Active(p)   == tpc[p] \notin {"idle", "done", "dead"}

\* the challenge types an identifier is offered
StandardTypes(sort) ==
    (CASE sort = "wildcard" -> {"dns-01"}
       [] sort = "ip"       -> {"http-01", "tls-alpn-01"}
       [] OTHER             -> {"http-01", "dns-01", "tls-alpn-01"})
    \cup (IF DnsPersist /\ sort \in {"dns", "wildcard"}
            THEN {"dns-persist-01"} ELSE {})
ChallengeTypes(sort) ==
    CASE sort = "email" /\ EmailSupport       -> {"email-reply-00"}
      [] sort = "tnauthlist" /\ TnauthSupport -> {"tkauth-01"}
      [] OTHER -> StandardTypes(sort)
                    \cup (IF SectigoSim THEN {"sectigo-email-01"} ELSE {})

\* what a validator may report: a fetch that fails and a mail that has not
\* arrived are neither a success nor a failure
ValidatorResults(type) ==
    {"valid", "invalid"}
    \cup (IF type \in {"http-01", "tls-alpn-01", "email-reply-00"}
            THEN {"inconclusive"} ELSE {})

RetryTypes == {"dns-01", "dns-persist-01", "email-reply-00"}
MaxAttempts(type) == IF type \in RetryTypes THEN RetryLimit ELSE 1

ThreadGoto(p, label) == tpc' = [tpc EXCEPT ![p] = label]
Goto(p, label)       == pc' = [pc EXCEPT ![p] = label]
Respond(p, answer)   == Goto(p, "done") /\ ans' = [ans EXCEPT ![p] = answer]
ViewGoto(v, label)   == vpc' = [vpc EXCEPT ![v] = label]
Lose(a)              == lost' = lost \cup {a}

-----------------------------------------------------------------------------
(* The authorization request.  The first one stores a token; the update    *)
(* reads the row and writes it back, the status included.  The django      *)
(* handler does so after a first update that stores the token already.    *)

ReadAuthorization(v) ==
    /\ vpc[v] = "idle"
    /\ \/ ViewGoto(v, IF About[v] \in tokened THEN "search" ELSE "lookup")
       \/ ViewGoto(v, "done")     \* refused: message, ownership or database
    /\ UNCHANGED <<authzVars, cstatus, offered, vseen, vtodo, postVars,
                   threadVars, ghostVars>>

LookupForToken(v) ==
    /\ vpc[v] = "lookup"
    /\ vseen' = [vseen EXCEPT ![v] = astatus[About[v]]]
    /\ tokened' = IF Django THEN tokened \cup {About[v]} ELSE tokened
    /\ ViewGoto(v, "update")
    /\ UNCHANGED <<astatus, cstatus, offered, vtodo, postVars, threadVars,
                   ghostVars>>

\* authorization_update: the status read before is written again
StoreToken(v) ==
    LET a == About[v] IN
    /\ vpc[v] = "update"
    /\ \/ /\ astatus' = [astatus EXCEPT ![a] = vseen[v]]
          /\ tokened' = tokened \cup {a}
          /\ reverted' = IF vseen[v] = astatus[a] THEN reverted
                         ELSE reverted \cup {a}
          /\ ViewGoto(v, "search")
       \/ /\ "db" \in Faults
          /\ ViewGoto(v, "done")
          /\ UNCHANGED <<authzVars, reverted>>
    /\ UNCHANGED <<cstatus, offered, vseen, vtodo, postVars, threadVars, passed,
                   overlapped, lost>>

\* existing challenges are shown, otherwise a set is created
FindChallenges(v) ==
    LET found == Stored(About[v]) IN
    /\ vpc[v] = "search"
    /\ \/ /\ found # {}
          /\ offered' = offered \cup found
          /\ ViewGoto(v, "done")
          /\ UNCHANGED vtodo
       \/ /\ found = {}
          /\ vtodo' = [vtodo EXCEPT ![v] = ChallengeTypes(Sort[About[v]])]
          /\ ViewGoto(v, "create")
          /\ UNCHANGED offered
       \/ /\ "db" \in Faults
          /\ ViewGoto(v, "done")
          /\ UNCHANGED <<offered, vtodo>>
    /\ UNCHANGED <<authzVars, cstatus, vseen, postVars, threadVars, ghostVars>>

\* one row per type; an error ends the request with an empty answer
CreateChallenge(v) ==
    /\ vpc[v] = "create"
    /\ \/ \E t \in vtodo[v] :
             /\ cstatus' = [cstatus EXCEPT ![<<v, t>>] =
                              IF t = "sectigo-email-01" THEN "valid" ELSE "pending"]
             /\ vtodo' = [vtodo EXCEPT ![v] = @ \ {t}]
             /\ UNCHANGED <<offered, vpc>>
       \/ /\ vtodo[v] = {}
          /\ offered' = offered \cup {c \in Stored(About[v]) : c[1] = v}
          /\ ViewGoto(v, "done")
          /\ UNCHANGED <<cstatus, vtodo>>
       \/ /\ "db" \in Faults /\ vtodo[v] # {}
          /\ ViewGoto(v, "done")
          /\ UNCHANGED <<cstatus, offered, vtodo>>
    /\ UNCHANGED <<authzVars, vseen, postVars, threadVars, ghostVars>>

-----------------------------------------------------------------------------
(* The challenge request: read the challenge, check who asks, start the    *)
(* validation unless it is valid or in processing, wait, read it again.    *)

Receive(p) ==
    /\ pc[p] = "idle"
    /\ \/ \E c \in offered :
             tgt' = [tgt EXCEPT ![p] = c] /\ Goto(p, "read") /\ UNCHANGED ans
       \/ Respond(p, "problem") /\ UNCHANGED tgt   \* message check failed
    /\ UNCHANGED <<authzVars, cstatus, offered, viewVars, seen, threadVars,
                   ghostVars>>

ReadChallenge(p) ==
    /\ pc[p] = "read"
    /\ \/ /\ seen' = [seen EXCEPT ![p] = cstatus[tgt[p]]]
          /\ Goto(p, "handle") /\ UNCHANGED ans
       \/ "db" \in Faults /\ Respond(p, "problem") /\ UNCHANGED seen
    /\ UNCHANGED <<authzVars, cstatus, offered, viewVars, tgt, threadVars,
                   ghostVars>>

OtherThreads(p) == {q \in Posts \ {p} : Active(q) /\ AuthzFor(q) = AuthzFor(p)}

StartValidation(p) ==
    /\ ThreadGoto(p, "mark")
    /\ Goto(p, IF AsyncMode THEN "answer" ELSE "join")
    /\ overlapped' = IF OtherThreads(p) = {} THEN overlapped
                     ELSE overlapped \cup {AuthzFor(p)}

\* variant with a bug: the account is not compared
HandleAnyAccount(p) ==
    /\ pc[p] = "handle"
    /\ IF seen[p] \in {"valid", "processing"}
         THEN Goto(p, "answer") /\ UNCHANGED <<tpc, overlapped>>
         ELSE StartValidation(p)
    /\ UNCHANGED <<authzVars, cstatus, offered, viewVars, tgt, seen, ans, verdict,
                   tries, passed, reverted, lost>>
HandleRequest(p) ==
    /\ pc[p] = "handle"
    /\ \/ /\ \/ Sender[p] # Holder[AuthzFor(p)]
             \/ "db" \in Faults                 \* the owner is not found
             \/ TypeOf(tgt[p]) = "tkauth-01"    \* the payload lacks its token
          /\ Respond(p, "problem")
          /\ UNCHANGED <<tpc, overlapped>>
       \/ /\ Sender[p] = Holder[AuthzFor(p)]
          /\ seen[p] \in {"valid", "processing"}
          /\ Goto(p, "answer")
          /\ UNCHANGED <<ans, tpc, overlapped>>
       \/ /\ Sender[p] = Holder[AuthzFor(p)]
          /\ seen[p] \notin {"valid", "processing"}
          /\ StartValidation(p)
          /\ UNCHANGED ans
    /\ UNCHANGED <<authzVars, cstatus, offered, viewVars, tgt, seen, verdict,
                   tries, passed, reverted, lost>>

\* the thread has ended, or the timeout of the join has passed
Join(p) ==
    /\ pc[p] = "join"
    /\ Goto(p, "answer")
    /\ UNCHANGED <<authzVars, cstatus, offered, viewVars, tgt, seen, ans,
                   threadVars, ghostVars>>

Answer(p) ==
    /\ pc[p] = "answer"
    /\ \/ Respond(p, cstatus[tgt[p]])
       \/ "db" \in Faults /\ Respond(p, "problem")
    /\ UNCHANGED <<authzVars, cstatus, offered, viewVars, tgt, seen, threadVars,
                   ghostVars>>

-----------------------------------------------------------------------------
(* The validation thread.  An exception on its way leads to one attempt to *)
(* make challenge and authorization invalid.                               *)

\* what a step of a thread leaves alone, its locals and histories apart
ThreadRest == <<tokened, offered, viewVars, postVars, overlapped, reverted>>

\* a database error; the thread goes on with the error path, or ends
Fails(p, next) ==
    /\ "db" \in Faults
    /\ ThreadGoto(p, next)
    /\ Lose(AuthzFor(p))

MarkProcessing(p) ==
    /\ tpc[p] = "mark"
    /\ \/ /\ cstatus' = [cstatus EXCEPT ![tgt[p]] = "processing"]
          /\ ThreadGoto(p, "profile")
          /\ UNCHANGED lost
       \/ Fails(p, "failchallenge") /\ UNCHANGED cstatus
    /\ UNCHANGED <<ThreadRest, astatus, verdict, tries, passed>>

\* a profile that cannot be read changes nothing
ReadProfile(p) ==
    /\ tpc[p] = "profile"
    /\ \/ ThreadGoto(p, IF ValidationDisabled \/ AuthzFor(p) \in ProfileDisabled
                          THEN "address" ELSE "attempt")
       \/ "profile" \in Faults
          /\ ThreadGoto(p, IF ValidationDisabled THEN "address" ELSE "attempt")
    /\ UNCHANGED <<ThreadRest, astatus, cstatus, verdict, tries, passed, lost>>

Decide(p, result) ==
    /\ verdict' = [verdict EXCEPT ![p] = result]
    /\ passed' = IF result = "valid" THEN passed \cup {p} ELSE passed
    /\ ThreadGoto(p, "challenge")

\* validation is disabled: only the address of the client is checked, if at all
CheckSourceAddress(p) ==
    /\ tpc[p] = "address"
    /\ \/ Decide(p, "valid") /\ UNCHANGED lost
       \/ AuthzFor(p) \in AddressChecked /\ Decide(p, "invalid") /\ UNCHANGED lost
       \/ /\ AuthzFor(p) \in AddressChecked
          /\ Fails(p, "failchallenge")
          /\ UNCHANGED <<verdict, passed>>
    /\ UNCHANGED <<ThreadRest, astatus, cstatus, tries>>

\* variant with a bug: the last inconclusive attempt decides nothing
AttemptInconclusive(p) ==
    /\ tpc[p] = "attempt"
    /\ \E result \in ValidatorResults(TypeOf(tgt[p])) :
          /\ tries' = [tries EXCEPT ![p] = @ + 1]
          /\ IF result # "inconclusive"
               THEN Decide(p, result)
               ELSE /\ ThreadGoto(p, IF tries'[p] < MaxAttempts(TypeOf(tgt[p]))
                                       THEN "attempt" ELSE "done")
                    /\ UNCHANGED <<verdict, passed>>
    /\ UNCHANGED <<ThreadRest, astatus, cstatus, lost>>
Attempt(p) ==
    LET type == TypeOf(tgt[p]) IN
    /\ tpc[p] = "attempt"
    /\ \/ \E result \in ValidatorResults(type) :
             /\ tries' = [tries EXCEPT ![p] = @ + 1]
             /\ IF result = "inconclusive" /\ tries'[p] < MaxAttempts(type)
                  THEN UNCHANGED <<tpc, verdict, passed>>
                  ELSE Decide(p, IF result = "valid" THEN "valid" ELSE "invalid")
             /\ UNCHANGED lost
       \/ /\ tries[p] = 0      \* the details of the challenge are not found
          /\ Fails(p, "failchallenge")
          /\ UNCHANGED <<verdict, tries, passed>>
    /\ UNCHANGED <<ThreadRest, astatus, cstatus>>

\* the two writes of transition_to_valid and transition_to_invalid
WriteChallenge(p) ==
    /\ tpc[p] = "challenge"
    /\ \/ /\ cstatus' = [cstatus EXCEPT ![tgt[p]] = verdict[p]]
          /\ ThreadGoto(p, "authz")
          /\ UNCHANGED lost
       \/ Fails(p, "failchallenge") /\ UNCHANGED cstatus
    /\ UNCHANGED <<ThreadRest, astatus, verdict, tries, passed>>

\* variant with a bug: the authorization is always made valid
WriteAuthorizationValid(p) ==
    /\ tpc[p] = "authz"
    /\ astatus' = [astatus EXCEPT ![AuthzFor(p)] = "valid"]
    /\ ThreadGoto(p, "done")
    /\ UNCHANGED <<ThreadRest, cstatus, verdict, tries, passed, lost>>
\* variant with a bug: only a success reaches the authorization
WriteAuthorizationSuccess(p) ==
    /\ tpc[p] = "authz"
    /\ astatus' = IF verdict[p] = "valid"
                    THEN [astatus EXCEPT ![AuthzFor(p)] = "valid"] ELSE astatus
    /\ ThreadGoto(p, "done")
    /\ UNCHANGED <<ThreadRest, cstatus, verdict, tries, passed, lost>>
WriteAuthorization(p) ==
    /\ tpc[p] = "authz"
    /\ \/ /\ astatus' = [astatus EXCEPT ![AuthzFor(p)] = verdict[p]]
          /\ ThreadGoto(p, "done")
          /\ UNCHANGED lost
       \/ Fails(p, "failchallenge") /\ UNCHANGED astatus
    /\ UNCHANGED <<ThreadRest, cstatus, verdict, tries, passed>>

\* the error path; a second error ends the thread
FailChallenge(p) ==
    /\ tpc[p] = "failchallenge"
    /\ \/ /\ cstatus' = [cstatus EXCEPT ![tgt[p]] = "invalid"]
          /\ ThreadGoto(p, "failauthz")
          /\ UNCHANGED lost
       \/ Fails(p, "dead") /\ UNCHANGED cstatus
    /\ UNCHANGED <<ThreadRest, astatus, verdict, tries, passed>>

FailAuthorization(p) ==
    /\ tpc[p] = "failauthz"
    /\ \/ /\ astatus' = [astatus EXCEPT ![AuthzFor(p)] = "invalid"]
          /\ ThreadGoto(p, "done")
          /\ UNCHANGED lost
       \/ Fails(p, "dead") /\ UNCHANGED astatus
    /\ UNCHANGED <<ThreadRest, cstatus, verdict, tries, passed>>

\* the process of a thread stops; no start-up code looks at its challenge
Crash(p) ==
    /\ "crash" \in Faults /\ Active(p)
    /\ ThreadGoto(p, "dead")
    /\ Lose(AuthzFor(p))
    /\ IF pc[p] \in {"join", "answer"}
         THEN Respond(p, "problem") ELSE UNCHANGED <<pc, ans>>
    /\ UNCHANGED <<authzVars, cstatus, offered, viewVars, tgt, seen, verdict,
                   tries, passed, overlapped, reverted>>

-----------------------------------------------------------------------------

View(v)   == \/ ReadAuthorization(v) \/ LookupForToken(v) \/ StoreToken(v)
             \/ FindChallenges(v) \/ CreateChallenge(v)
Post(p)   == \/ Receive(p) \/ ReadChallenge(p) \/ HandleRequest(p)
             \/ Join(p) \/ Answer(p)
Thread(p) == \/ MarkProcessing(p) \/ ReadProfile(p) \/ CheckSourceAddress(p)
             \/ Attempt(p) \/ WriteChallenge(p) \/ WriteAuthorization(p)
             \/ FailChallenge(p) \/ FailAuthorization(p)

Next == \/ \E v \in Views : View(v)
        \/ \E p \in Posts : Post(p) \/ Thread(p) \/ Crash(p)

Spec == Init /\ [][Next]_vars

\* The validators that come back whatever their peer does: the resolver gives up
\* after a time, tkauth-01 asks nobody.  The connections of tls-alpn-01 and to the
\* IMAP server have no timeout, and that of http-01 ends a silence, not an answer.
EndingTypes == {"dns-01", "dns-persist-01", "tkauth-01"}
Waits(p)    == tpc[p] = "attempt" /\ TypeOf(tgt[p]) \notin EndingTypes

\* a thread goes on unless it waits for such a peer
ThreadSpec == Spec /\ \A p \in Posts : WF_vars(~Waits(p) /\ Thread(p))

-----------------------------------------------------------------------------
(* Properties                                                              *)

\* Every variable has its type; a thread runs for a request that has a target,
\* and carries a verdict when it writes one.
TypeOK ==
    /\ astatus \in [Authzs -> AuthzStatus] /\ tokened \subseteq Authzs
    /\ cstatus \in [Rows -> Status] /\ offered \subseteq Rows
    /\ vpc \in [Views -> ViewPc] /\ vseen \in [Views -> AuthzStatus]
    /\ vtodo \in [Views -> SUBSET ChallengeType]
    /\ pc \in [Posts -> PostPc] /\ tgt \in [Posts -> Rows \cup {NoRow}]
    /\ seen \in [Posts -> Status] /\ ans \in [Posts -> Status \cup {"problem"}]
    /\ tpc \in [Posts -> ThreadPc] /\ verdict \in [Posts -> Status]
    /\ tries \in [Posts -> Nat]
    /\ passed \subseteq Posts /\ overlapped \subseteq Authzs
    /\ reverted \subseteq Authzs /\ lost \subseteq Authzs
    /\ \A p \in Posts : pc[p] \notin {"idle", "done"} \/ tpc[p] # "idle"
                           => tgt[p] \in Rows
    /\ \A p \in Posts : tpc[p] \in {"challenge", "authz"}
                           => verdict[p] \in {"valid", "invalid"}

\* a validation the holder of the authorization asked for has succeeded
Shown(a) == \E p \in passed : /\ tgt[p] \in Rows
                              /\ AuthzFor(p) = a
                              /\ Sender[p] = Holder[a]

\* An authorization is valid, and a challenge too unless it is created valid,
\* only after process_challenge_request validated that challenge, or one of that
\* authorization, for the account the order belongs to; neither concurrent
\* requests, a late write of the token nor the error path can grant it.
ValidWasShown ==
    /\ \A a \in Authzs : astatus[a] = "valid" => Shown(a)
    /\ \A c \in Rows :
          cstatus[c] = "valid" =>
             \/ TypeOf(c) = "sectigo-email-01"
             \/ \E p \in passed : tgt[p] = c /\ Sender[p] = Holder[AuthzOf(c)]

\* A challenge is in processing only while a thread works on it: what the check
\* in _handle_challenge_validation_request refuses to start again will get a
\* result, unless a fault concerned its authorization.
ProcessingIsWorkedOn ==
    \A c \in Rows : cstatus[c] = "processing" =>
        \/ AuthzOf(c) \in lost
        \/ \E p \in Posts : tgt[p] = c /\ tpc[p] \in Working

\* A thread runs for the holder and for one target, and writes valid only if its
\* own validation succeeded.
ThreadInv ==
    /\ \A p \in Posts : tpc[p] # "idle" => /\ pc[p] # "idle"
                                           /\ Sender[p] = Holder[AuthzFor(p)]
    /\ \A p \in Posts : pc[p] \in {"read", "handle"} => tpc[p] = "idle"
    /\ \A p \in passed : tpc[p] # "idle"
    /\ \A p \in Posts : tpc[p] \in {"challenge", "authz"} /\ verdict[p] = "valid"
                           => p \in passed

\* A status read before a token is stored is as well founded as a stored one.
SeenWasShown == \A v \in Views : vseen[v] = "valid" => Shown(About[v])

\* A row is created once, before anyone is told of it.
RowsKept ==
    /\ \A v \in Views, t \in ChallengeType : cstatus[<<v, t>>] # "none" =>
          vpc[v] \in {"create", "done"} /\ (vpc[v] = "create" => t \notin vtodo[v])
    /\ \A c \in offered : cstatus[c] # "none"
    /\ \A p \in Posts : tgt[p] \in Rows => cstatus[tgt[p]] # "none"

\* the authorization agrees with one of its challenges, and is pending only if
\* none was decided
Agrees(a) ==
    IF astatus[a] = "pending"
      THEN \A c \in Stored(a) : cstatus[c] = "pending" \/ TypeOf(c) = "sectigo-email-01"
      ELSE \E c \in Stored(a) : cstatus[c] = astatus[a]

\* authorizations whose threads did not overlap, whose token was not stored late,
\* and that no fault concerned
Undisturbed == Authzs \ (overlapped \cup reverted \cup lost)
ActiveFor(p, a) == Active(p) /\ AuthzFor(p) = a

\* Such an authorization has one thread at a time, which wrote its challenge
\* before it writes the authorization; without a thread that has begun to write,
\* it agrees with its challenges.
Calm(a) ==
    /\ \A p, q \in Posts : ActiveFor(p, a) /\ ActiveFor(q, a) => p = q
    /\ \A p \in Posts : ActiveFor(p, a) =>
          /\ tpc[p] \notin {"failchallenge", "failauthz"}
          /\ tpc[p] = "authz" => cstatus[tgt[p]] = verdict[p]
    /\ (\A p \in Posts : ActiveFor(p, a) => tpc[p] = "mark") => Agrees(a)
CalmUndisturbed == \A a \in Undisturbed : Calm(a)

\* The inductive invariant: the properties above and what they rest on.
ChallengeInv ==
    /\ TypeOK /\ ThreadInv /\ SeenWasShown /\ ValidWasShown /\ ProcessingIsWorkedOn
    /\ RowsKept /\ CalmUndisturbed

\* Once the threads of an authorization have ended, it agrees with one of its
\* challenges, and is pending only if none was decided.  Not promised when its
\* threads overlapped, its token was stored late, or a fault concerned it.
SettledAgrees ==
    \A a \in Undisturbed : (\A p \in Posts : ~ActiveFor(p, a)) => Agrees(a)

\* A challenge does not stay in processing: the retries are bounded, the last
\* inconclusive attempt of _perform_validation_with_retry counts as invalid, and
\* an exception leads to invalid; unless a fault concerned its authorization, or
\* a thread waits for ever for a peer that no timeout gives up.
\* (A challenge in processing is the target of a request, which keeps it.)
HasStatus(p, S) == tgt[p] \in Rows /\ cstatus[tgt[p]] \in S
Stuck(p) == \E q \in Posts : tgt[q] = tgt[p] /\ Waits(q)
ProcessingEnds ==
    \A p \in Posts :
        HasStatus(p, {"processing"})
           ~> \/ HasStatus(p, {"valid", "invalid"})
              \/ HasStatus(p, Status) /\ AuthzFor(p) \in lost
              \/ []Stuck(p)
=============================================================================
