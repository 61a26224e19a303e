------------------------------- MODULE Order -------------------------------
(***************************************************************************)
(* The life of an ACME order in acme2certifier: creation, the order        *)
(* requests (POST-as-GET polling and finalize), the authorization request  *)
(* that may mark an order ready, the enrollment thread of a finalize       *)
(* request, and the tools that complete a pending enrollment (certificate  *)
(* poll and CA trigger).                                                   *)
(*                                                                         *)
(* Every HTTP request runs in a worker of its own and every database call  *)
(* is one step, so the steps of concurrent requests interleave as they do  *)
(* in a multi-threaded or load-balanced server: a value read in one step   *)
(* may be stale when a later step acts on it.                              *)
(***************************************************************************)
EXTENDS Integers, FiniteSets

CONSTANTS
    Orders, Authzs,
    OrderOf,             \* the order an authorization (identifier) belongs to
    Requests,            \* the HTTP requests clients send, one worker each
    Kind,                \* "poll", "finalize" or "authz"
    Target,              \* the order a request is about
    AuthzTarget,         \* the authorization an "authz" request is about
    Prevalidated,        \* authorizations matched by a prevalidation list
    OrderValidity, AuthzValidity, MaxTime,
    ExpiryCheckDisable, IdempotentFinalize, AsyncMode,
    AuthzExpiryStored,   \* TRUE: django handler, FALSE: wsgi handler
    Polled,              \* rows the certificate poll tool or the trigger completes
    Faults,              \* what may go wrong: "db", "hook", "ca", "crash"
    NoName, TimeoutName  \* not certificate names: None and "timeout"

Kinds      == {"poll", "finalize", "authz"}
FaultKinds == {"db", "hook", "ca", "crash"}

ASSUME OrderAssumption ==
    /\ OrderOf \in [Authzs -> Orders]
    /\ Kind \in [Requests -> Kinds]
    /\ Target \in [Requests -> Orders]
    /\ AuthzTarget \in [Requests -> Authzs]
    /\ Prevalidated \subseteq Authzs /\ Polled \subseteq Requests
    /\ OrderValidity \in Nat \ {0} /\ AuthzValidity \in Nat \ {0}
    /\ MaxTime \in Nat
    /\ {ExpiryCheckDisable, IdempotentFinalize, AsyncMode, AuthzExpiryStored}
           \subseteq BOOLEAN
    /\ Faults \subseteq FaultKinds
    /\ NoName \notin Requests /\ TimeoutName \notin Requests
    /\ NoName # TimeoutName

OrderStatus == {"none", "pending", "ready", "processing", "valid", "invalid"}
\* "expired" and "deactivated" count as "invalid": the code only asks for "valid"
AuthzStatus == {"none", "pending", "valid", "invalid"}
RowState    == {"none", "csr", "failed", "poll", "cert"}
RequestPc   == {"idle", "search", "expire", "check", "order", "authzs",
                "markready", "dispatch", "claim", "authorize", "reject", "csr",
                "join", "markvalid", "token", "prevalidate", "authzvalid",
                "orderready", "done"}
ThreadPc    == {"idle", "enroll", "store", "order", "failed", "saveerror",
                "done", "dead"}
Outcome     == {"none", "ok", "poll", "error"}
\* 200, or any of the problem codes 400, 401, 403 and 500
Codes       == {"none", "ok", "problem"}

VARIABLES
    now,
    ostatus, oexpires, npc, known,      \* order rows, their creation
    astatus, aexpires, viewed,          \* authorization rows
    cert,                               \* certificate row of a finalize request
    pc, arrived, todo, seen, cname, code, curl,  \* locals of a request
    tpc, tres,                          \* enrollment thread of a request
    bpc,                                \* poll tool / trigger, per certificate row
    \* history, never read by the program:
    claimed,                            \* requests whose compare-and-set won
    asked,                              \* requests whose CSR reached the CA
    everOK,                             \* orders that were once fully authorized
    reopened,                           \* orders set to ready after pending and ready
    lost                                \* orders a swallowed database error concerned

orderVars  == <<ostatus, oexpires, npc, known>>
authzVars  == <<astatus, aexpires, viewed>>
localVars  == <<arrived, todo, seen, cname, code, curl>>
threadVars == <<tpc, tres>>
ghostVars  == <<claimed, asked, everOK, reopened, lost>>
vars == <<now, orderVars, authzVars, cert, pc, localVars, threadVars, bpc,
          ghostVars>>

Init ==
    /\ now = 0
    /\ ostatus = [o \in Orders |-> "none"]
    /\ oexpires = [o \in Orders |-> 0]
    /\ npc = [o \in Orders |-> "idle"]
    /\ known = {}
    /\ astatus = [a \in Authzs |-> "none"]
    /\ aexpires = [a \in Authzs |-> 0]
    /\ viewed = {}
    /\ cert = [r \in Requests |-> "none"]
    /\ pc = [r \in Requests |-> "idle"]
    /\ arrived = [r \in Requests |-> 0]
    /\ todo = [r \in Requests |-> {}]
    /\ seen = [r \in Requests |-> "none"]
    /\ cname = [r \in Requests |-> NoName]
    /\ code = [r \in Requests |-> "none"]
    /\ curl = [r \in Requests |-> NoName]
    /\ tpc = [r \in Requests |-> "idle"]
    /\ tres = [r \in Requests |-> "none"]
    /\ bpc = [r \in Requests |-> "idle"]
    /\ claimed = {} /\ asked = {} /\ reopened = {} /\ lost = {}
    /\ everOK = {}

-----------------------------------------------------------------------------
(* Helpers                                                                 *)

AuthzOf(o)     == {a \in Authzs : OrderOf[a] = o}
StoredAuthz(o) == {a \in AuthzOf(o) : astatus[a] # "none"}
Rows(o)        == {r \in Requests : Target[r] = o /\ cert[r] # "none"}

\* expires = 0 means: never expires
Unexpired(a) == aexpires[a] = 0 \/ aexpires[a] > now

\* every identifier of the order has a valid, unexpired authorization
Authorized(o) ==
    /\ AuthzOf(o) # {}
    /\ \A a \in AuthzOf(o) : astatus[a] = "valid" /\ Unexpired(a)

\* noted by every action that may make an order fully authorized
Remember == everOK' = everOK \cup {o \in Orders : Authorized(o)'}

\* variant with a bug: one valid authorization is enough
AnyAuthorizationValid(o) ==
    \E a \in StoredAuthz(o) : astatus[a] = "valid" /\ Unexpired(a)

\* what the finalize request looks at: the authorizations stored for the order
AuthorizationsValid(o) ==
    /\ StoredAuthz(o) # {}
    /\ \A a \in StoredAuthz(o) : astatus[a] = "valid" /\ Unexpired(a)

Expiry(validity) == now + validity

SetStatus(o, s) == ostatus' = [ostatus EXCEPT ![o] = s]
Goto(r, label)  == pc' = [pc EXCEPT ![r] = label]
Respond(r, c)   == Goto(r, "done") /\ code' = [code EXCEPT ![r] = c]
\* a 200 answer is completed by reading the order once more
Succeed(r, name) ==
    /\ Goto(r, "order")
    /\ code' = [code EXCEPT ![r] = "ok"]
    /\ cname' = [cname EXCEPT ![r] = name]
\* the certificate URL is added for a valid order; variant with a bug: for any
CertificateUrlAlways(r) == cname[r]
CertificateUrl(r) == IF seen[r] = "valid" THEN cname[r] ELSE NoName

\* the order was read: dispatch the request, or answer with the status it had
AfterDetails(r) ==
    IF code[r] = "ok"
      THEN /\ Goto(r, "done")
           /\ curl' = [curl EXCEPT ![r] = CertificateUrl(r)]
      ELSE Goto(r, "dispatch") /\ UNCHANGED curl

\* an order that is set to ready though it had already left "pending"
NoteReopened(o) ==
    reopened' = IF ostatus[o] \in {"pending", "ready"}
                  THEN reopened ELSE reopened \cup {o}

-----------------------------------------------------------------------------
(* New order: the order row first, then one row per authorization. Clients *)
(* learn the name of an order only from a 201 response.                    *)

NewOrder(o) ==
    /\ npc[o] = "idle"
    /\ \/ /\ SetStatus(o, "pending")
          /\ npc' = [npc EXCEPT ![o] = "authzs"]
       \/ /\ ostatus' \in {[ostatus EXCEPT ![o] = "invalid"],  \* identifiers rejected
                           [ostatus EXCEPT ![o] = "pending"]}  \* profile rejected
          /\ npc' = [npc EXCEPT ![o] = "done"]
       \/ /\ "db" \in Faults
          /\ npc' = [npc EXCEPT ![o] = "done"]
          /\ UNCHANGED ostatus
    /\ oexpires' = [oexpires EXCEPT ![o] = Expiry(OrderValidity)]
    /\ UNCHANGED <<now, known, authzVars, cert, pc, localVars, threadVars, bpc,
                   ghostVars>>

\* the wsgi handler drops the expiry of a new authorization: never expires
AddAuthorization(o, a) ==
    /\ npc[o] = "authzs"
    /\ OrderOf[a] = o /\ astatus[a] = "none"
    /\ \/ /\ astatus' = [astatus EXCEPT ![a] = "pending"]
          /\ aexpires' = [aexpires EXCEPT
                ![a] = IF AuthzExpiryStored THEN Expiry(AuthzValidity) ELSE 0]
          /\ UNCHANGED npc
       \/ /\ "db" \in Faults
          /\ npc' = [npc EXCEPT ![o] = "done"]
          /\ UNCHANGED <<astatus, aexpires>>
    /\ UNCHANGED <<now, ostatus, oexpires, known, viewed, cert, pc, localVars,
                   threadVars, bpc, ghostVars>>

\* the 201 response
Created(o) ==
    /\ npc[o] = "authzs"
    /\ StoredAuthz(o) = AuthzOf(o)
    /\ npc' = [npc EXCEPT ![o] = "done"]
    /\ known' = known \cup {o}
    /\ UNCHANGED <<now, ostatus, oexpires, authzVars, cert, pc, localVars,
                   threadVars, bpc, ghostVars>>

-----------------------------------------------------------------------------
(* Authorizations: results of challenge validation and expiry are written  *)
(* whatever the row says at that moment.                                   *)

ChallengeResult(a) ==
    /\ OrderOf[a] \in known
    /\ \E s \in {"valid", "invalid"} : astatus' = [astatus EXCEPT ![a] = s]
    /\ UNCHANGED <<now, orderVars, aexpires, viewed, cert, pc, localVars,
                   threadVars, bpc, claimed, asked, reopened, lost>>
    /\ Remember

ExpireAuthorization(a) ==
    /\ astatus[a] # "none" /\ ~Unexpired(a)
    /\ astatus' = [astatus EXCEPT ![a] = "invalid"]
    /\ UNCHANGED <<now, orderVars, aexpires, viewed, cert, pc, localVars,
                   threadVars, bpc, ghostVars>>

-----------------------------------------------------------------------------
(* Order requests: expired orders are invalidated, the message is checked, *)
(* the order is read (which may set it to ready), and then dispatched.     *)

Receive(r) ==
    /\ pc[r] = "idle"
    /\ Target[r] \in known
    /\ Kind[r] = "authz" => OrderOf[AuthzTarget[r]] = Target[r]
    /\ arrived' = [arrived EXCEPT ![r] = now]
    /\ Goto(r, IF Kind[r] # "authz" /\ ~ExpiryCheckDisable
                 THEN "search" ELSE "check")
    /\ UNCHANGED <<now, orderVars, authzVars, cert, todo, seen, cname, code, curl,
                   threadVars, bpc, ghostVars>>

\* variant with a bug: an order expires one second late
ExpiredOrdersLate ==
    {o \in Orders : ostatus[o] \notin {"none", "invalid"} /\ oexpires[o] < now}
ExpiredOrders ==
    {o \in Orders : ostatus[o] \notin {"none", "invalid"} /\ oexpires[o] <= now}

\* a search that failed finds nothing
SearchExpired(r) ==
    /\ pc[r] = "search"
    /\ \/ /\ todo' = [todo EXCEPT ![r] = ExpiredOrders]
          /\ Goto(r, IF ExpiredOrders = {} THEN "check" ELSE "expire")
          /\ UNCHANGED lost
       \/ /\ "db" \in Faults
          /\ lost' = lost \cup ExpiredOrders
          /\ Goto(r, "check")
          /\ UNCHANGED todo
    /\ UNCHANGED <<now, orderVars, authzVars, cert, arrived, seen, cname, code,
                   curl, threadVars, bpc, claimed, asked, everOK, reopened>>

InvalidateExpired(r) ==
    /\ pc[r] = "expire"
    /\ \E o \in todo[r] :
          /\ todo' = [todo EXCEPT ![r] = @ \ {o}]
          /\ \/ SetStatus(o, "invalid") /\ UNCHANGED lost
             \/ "db" \in Faults /\ lost' = lost \cup {o} /\ UNCHANGED ostatus
          /\ Goto(r, IF todo[r] = {o} THEN "check" ELSE "expire")
    /\ UNCHANGED <<now, oexpires, npc, known, authzVars, cert, arrived, seen,
                   cname, code, curl, threadVars, bpc, claimed, asked, everOK,
                   reopened>>

\* nonce, account and signature (module Nonce models the nonce)
CheckMessage(r) ==
    /\ pc[r] = "check"
    /\ \/ /\ Goto(r, IF Kind[r] = "authz" THEN "token" ELSE "order")
          /\ UNCHANGED code
       \/ Respond(r, "problem")
    /\ UNCHANGED <<now, orderVars, authzVars, cert, arrived, todo, seen, cname,
                   curl, threadVars, bpc, ghostVars>>

\* a failed lookup reads as a missing order
ReadOrder(r) ==
    /\ pc[r] = "order"
    /\ \/ /\ seen' = [seen EXCEPT ![r] = ostatus[Target[r]]]
          /\ Goto(r, "authzs")
          /\ UNCHANGED code
       \/ /\ "db" \in Faults
          /\ Respond(r, IF code[r] = "ok" THEN "ok" ELSE "problem")
          /\ UNCHANGED seen
    /\ UNCHANGED <<now, orderVars, authzVars, cert, arrived, todo, cname, curl,
                   threadVars, bpc, ghostVars>>

ReadAuthorizations(r) ==
    /\ pc[r] = "authzs"
    /\ LET stored == StoredAuthz(Target[r])
           valid  == stored # {} /\ \A a \in stored : astatus[a] = "valid"
       IN  \/ IF valid /\ seen[r] = "pending"
                THEN Goto(r, "markready") /\ UNCHANGED curl ELSE AfterDetails(r)
           \/ "db" \in Faults /\ AfterDetails(r)
    /\ UNCHANGED <<now, orderVars, authzVars, cert, arrived, todo, seen, cname,
                   code, threadVars, bpc, ghostVars>>

\* the status read earlier was "pending"; the write does not ask again
MarkReady(r) ==
    /\ pc[r] = "markready"
    /\ \/ /\ SetStatus(Target[r], "ready")
          /\ NoteReopened(Target[r])
          /\ AfterDetails(r)
          /\ UNCHANGED code
       \/ /\ "db" \in Faults
          /\ Respond(r, "problem")
          /\ UNCHANGED <<ostatus, reopened, curl>>
    /\ UNCHANGED <<now, oexpires, npc, known, authzVars, cert, arrived, todo, seen,
                   cname, threadVars, bpc, claimed, asked, everOK, lost>>

\* names a certificate row of the order, if there is one
LookupCertificate(r) ==
    \/ /\ Rows(Target[r]) = {} \/ "db" \in Faults
       /\ Succeed(r, NoName)
    \/ \E q \in Rows(Target[r]) : Succeed(r, q)

\* finalize reads the status again before it decides
DispatchOrder(r) ==
    /\ pc[r] = "dispatch"
    /\ LET s == ostatus[Target[r]] IN
       \/ Kind[r] = "poll" /\ LookupCertificate(r)
       \/ /\ Kind[r] = "finalize" /\ s = "ready"
          /\ Goto(r, "claim") /\ UNCHANGED <<code, cname>>
       \/ /\ Kind[r] = "finalize" /\ s = "valid" /\ IdempotentFinalize
          /\ LookupCertificate(r)
       \* not the owner, no CSR in the request, or an order that is not ready
       \/ Respond(r, "problem") /\ UNCHANGED cname
    /\ UNCHANGED <<now, orderVars, authzVars, cert, arrived, todo, seen, curl,
                   threadVars, bpc, ghostVars>>

-----------------------------------------------------------------------------
(* Finalize: claim the order with a compare-and-set, check authorizations, *)
(* store the CSR, enroll in a thread and wait for it up to a timeout.      *)

\* the WHERE clause of the claim; variant with a bug: there is none
AlwaysClaimable(r) == pc[r] = "claim"
Claimable(r) == ostatus[Target[r]] = "ready"

\* order_update_if_status: ready -> processing, or no row changed
ClaimOrder(r) ==
    /\ pc[r] = "claim"
    /\ \/ /\ Claimable(r)
          /\ SetStatus(Target[r], "processing")
          /\ claimed' = claimed \cup {r}
          /\ Goto(r, "authorize")
          /\ UNCHANGED code
       \/ /\ ~Claimable(r) \/ "db" \in Faults
          /\ Respond(r, "problem")
          /\ UNCHANGED <<ostatus, claimed>>
    /\ UNCHANGED <<now, oexpires, npc, known, authzVars, cert, arrived, todo, seen,
                   cname, curl, threadVars, bpc, asked, everOK, reopened, lost>>

CheckAuthorizations(r) ==
    /\ pc[r] = "authorize"
    /\ \/ AuthorizationsValid(Target[r]) /\ Goto(r, "csr")
       \/ ~AuthorizationsValid(Target[r]) /\ Goto(r, "reject")
       \/ "db" \in Faults /\ Goto(r, "reject")
    /\ UNCHANGED <<now, orderVars, authzVars, cert, localVars, threadVars, bpc,
                   ghostVars>>

RejectOrder(r) ==
    /\ pc[r] = "reject"
    /\ \/ SetStatus(Target[r], "invalid") /\ UNCHANGED lost
       \/ "db" \in Faults /\ lost' = lost \cup {Target[r]} /\ UNCHANGED ostatus
    /\ Respond(r, "problem")
    /\ UNCHANGED <<now, oexpires, npc, known, authzVars, cert, arrived, todo, seen,
                   cname, curl, threadVars, bpc, claimed, asked, everOK, reopened>>

\* The row is stored before the CSR is compared with the order; a CSR that does
\* not match, a dry run and a row that was not stored start no thread.
SubmitCsr(r) ==
    /\ pc[r] = "csr"
    /\ \/ /\ cert' = [cert EXCEPT ![r] = "csr"]
          /\ tpc' = [tpc EXCEPT ![r] = "enroll"]
          /\ IF AsyncMode THEN Succeed(r, r)
             ELSE Goto(r, "join") /\ UNCHANGED <<code, cname>>
       \/ /\ cert' \in {cert, [cert EXCEPT ![r] = "csr"]}
          /\ Respond(r, "problem")
          /\ UNCHANGED <<tpc, cname>>
    /\ UNCHANGED <<now, orderVars, authzVars, arrived, todo, seen, curl, tres, bpc,
                   ghostVars>>

\* no error and no poll identifier; variant with a bug: the latter is not asked
NotFailed(r) == tres[r] # "error"
Issued(r) == tres[r] = "ok"

\* join returned the result of the thread
JoinResult(r) ==
    /\ pc[r] = "join" /\ tpc[r] = "done"
    /\ \/ Issued(r) /\ Goto(r, "markvalid") /\ UNCHANGED <<code, cname>>
       \/ tres[r] = "poll" /\ Succeed(r, r)
       \* also a CA that reports an error together with a poll identifier
       \/ /\ tres[r] \in {"poll", "error"}
          /\ Respond(r, "problem")
          /\ UNCHANGED cname
    /\ UNCHANGED <<now, orderVars, authzVars, cert, arrived, todo, seen, curl,
                   threadVars, bpc, ghostVars>>

\* variant with a bug: only a thread that has ended lets the join return
JoinUntilDead(r) ==
    /\ pc[r] = "join" /\ tpc[r] = "dead"
    /\ Succeed(r, TimeoutName)
    /\ UNCHANGED <<now, orderVars, authzVars, cert, arrived, todo, seen, curl,
                   threadVars, bpc, ghostVars>>

\* join returned None: the thread is still running or died of an exception
JoinTimeout(r) ==
    /\ pc[r] = "join" /\ tpc[r] # "done"
    /\ Succeed(r, TimeoutName)
    /\ UNCHANGED <<now, orderVars, authzVars, cert, arrived, todo, seen, curl,
                   threadVars, bpc, ghostVars>>

MarkValid(r) ==
    /\ pc[r] = "markvalid"
    /\ \/ /\ SetStatus(Target[r], "valid")
          /\ Succeed(r, r)
       \/ /\ "db" \in Faults
          /\ Respond(r, "problem")
          /\ UNCHANGED <<ostatus, cname>>
    /\ UNCHANGED <<now, oexpires, npc, known, authzVars, cert, arrived, todo, seen,
                   curl, threadVars, bpc, ghostVars>>

-----------------------------------------------------------------------------
(* The enrollment thread of a finalize request                             *)

threadRest == <<now, oexpires, npc, known, authzVars, pc, localVars, bpc, claimed,
                everOK, reopened>>
ThreadGoto(r, label) == tpc' = [tpc EXCEPT ![r] = label]
ThreadResult(r, res) == tres' = [tres EXCEPT ![r] = res]

\* a failing success or post hook replaces the result by an error
ThreadEnd(r) ==
    /\ ThreadGoto(r, "done")
    /\ \/ UNCHANGED tres
       \/ "hook" \in Faults /\ ThreadResult(r, "error")

\* the pre hook, then the CA handler
CaEnroll(r) ==
    /\ tpc[r] = "enroll"
    /\ \/ /\ asked' = asked \cup {r}
          /\ \/ ThreadGoto(r, "store") /\ ThreadResult(r, "ok")
             \/ ThreadGoto(r, "saveerror") /\ ThreadResult(r, "poll")
             \/ ThreadGoto(r, "failed") /\ ThreadResult(r, "error")
             \/ "ca" \in Faults /\ ThreadGoto(r, "dead") /\ UNCHANGED tres
       \/ /\ "hook" \in Faults
          /\ ThreadGoto(r, "done") /\ ThreadResult(r, "error")
          /\ UNCHANGED asked
    /\ UNCHANGED <<ostatus, cert, lost, threadRest>>

\* a store that failed is logged; the order is then left to the caller
StoreCertificate(r) ==
    /\ tpc[r] = "store"
    /\ \/ /\ cert' = [cert EXCEPT ![r] = "cert"]
          /\ ThreadGoto(r, "order")
          /\ UNCHANGED <<tres, lost>>
       \/ /\ "db" \in Faults
          /\ lost' = lost \cup {Target[r]}
          /\ ThreadEnd(r)
          /\ UNCHANGED cert
       \/ /\ "ca" \in Faults                 \* certificate or chain unparsable
          /\ ThreadGoto(r, "done") /\ ThreadResult(r, "error")
          /\ UNCHANGED <<cert, lost>>
    /\ UNCHANGED <<ostatus, asked, threadRest>>

ThreadMarkValid(r) ==
    /\ tpc[r] = "order"
    /\ \/ SetStatus(Target[r], "valid") /\ UNCHANGED lost
       \/ "db" \in Faults /\ lost' = lost \cup {Target[r]} /\ UNCHANGED ostatus
    /\ ThreadEnd(r)
    /\ UNCHANGED <<cert, asked, threadRest>>

ThreadMarkInvalid(r) ==
    /\ tpc[r] = "failed"
    /\ \/ SetStatus(Target[r], "invalid") /\ UNCHANGED lost
       \/ "db" \in Faults /\ lost' = lost \cup {Target[r]} /\ UNCHANGED ostatus
    /\ ThreadGoto(r, "saveerror")
    /\ UNCHANGED <<cert, tres, asked, threadRest>>

\* only the columns error and poll_identifier are written; variant with a bug:
\* the certificate columns are overwritten
ErrorRowBlank(r) == IF tres[r] = "poll" THEN "poll" ELSE "failed"
ErrorRow(r) == IF cert[r] = "cert" THEN "cert"
               ELSE IF tres[r] = "poll" THEN "poll" ELSE "failed"

SaveError(r) ==
    /\ tpc[r] = "saveerror"
    /\ \/ /\ cert' = [cert EXCEPT ![r] = ErrorRow(r)]
          /\ UNCHANGED lost
       \/ "db" \in Faults /\ lost' = lost \cup {Target[r]} /\ UNCHANGED cert
    /\ ThreadEnd(r)
    /\ UNCHANGED <<ostatus, asked, threadRest>>

\* the server process stops: its requests and daemon threads are gone
Crash(r) ==
    /\ "crash" \in Faults
    /\ pc[r] \notin {"idle", "done"} \/ tpc[r] \notin {"idle", "done", "dead"}
    /\ Goto(r, "done")
    /\ tpc' = [tpc EXCEPT ![r] = IF @ \in {"idle", "done"} THEN @ ELSE "dead"]
    /\ UNCHANGED <<now, orderVars, authzVars, cert, localVars, tres, bpc, ghostVars>>

-----------------------------------------------------------------------------
(* The certificate poll tool and the CA trigger complete an enrollment     *)
(* whose order they found in status processing.                            *)

backRest == <<now, oexpires, npc, known, authzVars, pc, localVars, threadVars,
              claimed, asked, everOK, reopened>>
BackGoto(r, label) == bpc' = [bpc EXCEPT ![r] = label]

FindPending(r) ==
    /\ r \in Polled /\ bpc[r] = "idle" /\ cert[r] # "none"
    /\ ostatus[Target[r]] = "processing"
    /\ \/ BackGoto(r, "store")                          \* poll or trigger
       \/ cert[r] = "poll" /\ BackGoto(r, "reject")     \* the poll was rejected
    /\ UNCHANGED <<ostatus, cert, lost, backRest>>

BackStore(r) ==
    /\ bpc[r] = "store"
    /\ \/ cert' = [cert EXCEPT ![r] = "cert"] /\ UNCHANGED lost
       \/ "db" \in Faults /\ lost' = lost \cup {Target[r]} /\ UNCHANGED cert
    /\ BackGoto(r, "order")
    /\ UNCHANGED <<ostatus, backRest>>

BackMark(r) ==
    /\ bpc[r] \in {"order", "reject"}
    /\ \/ /\ SetStatus(Target[r], IF bpc[r] = "order" THEN "valid" ELSE "invalid")
          /\ UNCHANGED lost
       \/ "db" \in Faults /\ lost' = lost \cup {Target[r]} /\ UNCHANGED ostatus
    /\ BackGoto(r, "idle")
    /\ UNCHANGED <<cert, backRest>>

-----------------------------------------------------------------------------
(* Authorization request: a first view gives the authorization its token   *)
(* and expiry; a prevalidated one becomes valid and its order ready.       *)

ViewAuthorization(r) ==
    /\ pc[r] = "token"
    /\ LET a == AuthzTarget[r] IN
       \/ /\ IF a \in viewed THEN UNCHANGED <<aexpires, viewed>>
             ELSE /\ aexpires' = [aexpires EXCEPT ![a] = Expiry(AuthzValidity)]
                  /\ viewed' = viewed \cup {a}
          /\ Goto(r, "prevalidate")
          /\ UNCHANGED code
       \/ /\ "db" \in Faults /\ Respond(r, "problem")
          /\ UNCHANGED <<aexpires, viewed>>
    /\ UNCHANGED <<now, orderVars, astatus, cert, arrived, todo, seen, cname, curl,
                   threadVars, bpc, claimed, asked, reopened, lost>>
    /\ Remember

Prevalidate(r) ==
    /\ pc[r] = "prevalidate"
    /\ IF AuthzTarget[r] \in Prevalidated /\ astatus[AuthzTarget[r]] # "valid"
         THEN Goto(r, "authzvalid") /\ UNCHANGED code
         ELSE Respond(r, "ok")
    /\ UNCHANGED <<now, orderVars, authzVars, cert, arrived, todo, seen, cname,
                   curl, threadVars, bpc, ghostVars>>

PrevalidateAuthorization(r) ==
    /\ pc[r] = "authzvalid"
    /\ \/ /\ astatus' = [astatus EXCEPT ![AuthzTarget[r]] = "valid"]
          /\ Goto(r, "orderready")
          /\ UNCHANGED code
       \/ "db" \in Faults /\ Respond(r, "problem") /\ UNCHANGED astatus
    /\ UNCHANGED <<now, orderVars, aexpires, viewed, cert, arrived, todo, seen,
                   cname, curl, threadVars, bpc, claimed, asked, reopened, lost>>
    /\ Remember

\* whatever the status of the order and of its other authorizations
PrevalidateOrder(r) ==
    /\ pc[r] = "orderready"
    /\ \/ /\ SetStatus(Target[r], "ready")
          /\ NoteReopened(Target[r])
          /\ Respond(r, "ok")
       \/ /\ "db" \in Faults
          /\ Respond(r, "problem")
          /\ UNCHANGED <<ostatus, reopened>>
    /\ UNCHANGED <<now, oexpires, npc, known, authzVars, cert, arrived, todo, seen,
                   cname, curl, threadVars, bpc, claimed, asked, everOK, lost>>

-----------------------------------------------------------------------------
Tick ==
    /\ now < MaxTime
    /\ now' = now + 1
    /\ UNCHANGED <<orderVars, authzVars, cert, pc, localVars, threadVars, bpc,
                   ghostVars>>

\* the steps of the worker that serves r
Serve(r) ==
    \/ SearchExpired(r) \/ InvalidateExpired(r) \/ CheckMessage(r)
    \/ ReadOrder(r) \/ ReadAuthorizations(r) \/ MarkReady(r)
    \/ DispatchOrder(r) \/ ClaimOrder(r) \/ CheckAuthorizations(r)
    \/ RejectOrder(r) \/ SubmitCsr(r)
    \/ JoinResult(r) \/ JoinTimeout(r) \/ MarkValid(r)
    \/ ViewAuthorization(r) \/ Prevalidate(r)
    \/ PrevalidateAuthorization(r) \/ PrevalidateOrder(r)

\* the steps of the enrollment thread of r
Enroll(r) ==
    \/ CaEnroll(r) \/ StoreCertificate(r) \/ ThreadMarkValid(r)
    \/ ThreadMarkInvalid(r) \/ SaveError(r)

BackChannel(r) == FindPending(r) \/ BackStore(r) \/ BackMark(r)

Next ==
    \/ \E o \in Orders : NewOrder(o) \/ Created(o)
    \/ \E o \in Orders, a \in Authzs : AddAuthorization(o, a)
    \/ \E a \in Authzs : ChallengeResult(a) \/ ExpireAuthorization(a)
    \/ \E r \in Requests :
          Receive(r) \/ Serve(r) \/ Enroll(r) \/ BackChannel(r) \/ Crash(r)
    \/ Tick

Spec == Init /\ [][Next]_vars

\* A worker that can take its next step eventually does. Nothing is assumed of
\* clients, of the CA, of the enrollment threads or of the tools.
FairSpec == Spec /\ \A r \in Requests : WF_vars(Serve(r))

-----------------------------------------------------------------------------
(* Properties                                                              *)

\* The values the database columns and the locals of a request can take.
TypeOK ==
    /\ now \in Nat
    /\ ostatus \in [Orders -> OrderStatus] /\ oexpires \in [Orders -> Nat]
    /\ npc \in [Orders -> {"idle", "authzs", "done"}] /\ known \subseteq Orders
    /\ astatus \in [Authzs -> AuthzStatus] /\ aexpires \in [Authzs -> Nat]
    /\ viewed \subseteq Authzs
    /\ cert \in [Requests -> RowState]
    /\ pc \in [Requests -> RequestPc]
    /\ arrived \in [Requests -> Nat]
    /\ todo \in [Requests -> SUBSET Orders]
    /\ seen \in [Requests -> OrderStatus]
    /\ cname \in [Requests -> Requests \cup {NoName, TimeoutName}]
    /\ curl \in [Requests -> Requests \cup {NoName, TimeoutName}]
    /\ code \in [Requests -> Codes]
    /\ tpc \in [Requests -> ThreadPc] /\ tres \in [Requests -> Outcome]
    /\ bpc \in [Requests -> {"idle", "store", "order", "reject"}]
    /\ claimed \subseteq Requests /\ asked \subseteq Requests
    /\ everOK \subseteq Orders /\ reopened \subseteq Orders /\ lost \subseteq Orders

\* A CSR reaches the CA only for an order whose identifiers were all validly
\* authorized at one moment, however the order became "ready" (a prevalidated
\* authorization sets it to ready on its own, a failed creation stores only
\* some of the authorizations).
IssuedAuthorized == \A r \in asked : Target[r] \in everOK

\* The compare-and-set of finalize admits one request per order, unless a
\* write based on a stale read set the order back to ready.
ClaimExclusive ==
    \A r1, r2 \in claimed :
        r1 # r2 /\ Target[r1] = Target[r2] => Target[r1] \in reopened

\* An order that had expired when a finalize request arrived is not claimed by
\* it, although invalidation and claim are separate writes with other requests
\* in between; a stale write to ready and a failed invalidation are the only
\* ways around it.
NoClaimOfExpired ==
    ~ExpiryCheckDisable =>
        \A r \in claimed : \/ oexpires[Target[r]] > arrived[r]
                           \/ Target[r] \in reopened \cup lost

\* A valid order has a stored certificate, whoever set it to valid (worker,
\* enrollment thread, poll tool or trigger) and in whatever order they ran;
\* only a store that failed and was swallowed breaks it.
ValidHasCertificate ==
    \A o \in Orders : ostatus[o] = "valid" =>
        o \in lost \/ \E r \in Rows(o) : cert[r] = "cert"

\* A certificate URL in an answer leads to a stored certificate of the order, but
\* for ".../cert/timeout", which leads nowhere. That one is only given to a finalize
\* request that gave up the wait for its thread, and only once the thread or a tool
\* has stored the certificate of that request: the next answer names it.
UrlServesCertificate ==
    \A r \in Requests : curl[r] # NoName =>
        \/ curl[r] \in Rows(Target[r]) /\ cert[curl[r]] = "cert"
        \/ curl[r] = TimeoutName /\ r \in claimed /\ cert[r] = "cert"
        \/ Target[r] \in reopened \cup lost

\* Once stored, a certificate stays in its row, although the enrollment thread,
\* the poll tool and the trigger write the row without looking.
CertificateKept ==
    [][\A r \in Requests : cert[r] = "cert" => cert'[r] = "cert"]_vars

\* The inductive invariant behind the theorems of OrderProofs. Requests serve
\* orders that were created completely, ...
AuthzPc == {"idle", "check", "token", "prevalidate", "authzvalid", "orderready",
            "done"}
RequestsKnown ==
    /\ \A o \in known : npc[o] = "done" /\ StoredAuthz(o) = AuthzOf(o)
    /\ \A r \in Requests :
          /\ pc[r] # "idle" => Target[r] \in known
          /\ arrived[r] <= now
          /\ Kind[r] = "authz" => /\ pc[r] \in AuthzPc
                                  /\ \/ pc[r] = "idle"
                                     \/ OrderOf[AuthzTarget[r]] = Target[r]
\* ... a claimed order has left pending and ready, or was reopened, ...
ClaimsKept ==
    \A r \in claimed :
        /\ pc[r] # "idle"
        /\ \/ Target[r] \in reopened
           \/ ostatus[Target[r]] \notin {"none", "pending", "ready"}
\* ... a request that is past the expiry check claims no expired order, ...
Unclaimable(r) ==
    \/ oexpires[Target[r]] > arrived[r]
    \/ Target[r] \in reopened \cup lost
    \/ ostatus[Target[r]] \notin {"pending", "ready"}
ExpirySeen ==
    ~ExpiryCheckDisable =>
        \A r \in Requests :
            Kind[r] # "authz" /\ pc[r] \notin {"idle", "search", "done"} =>
                Unclaimable(r) \/ (pc[r] = "expire" /\ Target[r] \in todo[r])
\* ... enrollment starts only for orders that were fully authorized, ...
EnrollAuthorized ==
    /\ \A o \in Orders : Authorized(o) => o \in everOK
    /\ \A r \in Requests : pc[r] = "csr" \/ tpc[r] = "enroll" => Target[r] \in everOK
\* ... a request that has not submitted its CSR has no certificate row, ...
BeforeCsr(r) ==
    \/ pc[r] \in {"idle", "search", "expire", "check", "dispatch", "claim",
                 "authorize", "csr"}
    \/ pc[r] \in {"order", "authzs", "markready"} /\ code[r] = "none"
RowsOfSubmitted ==
    \A r \in Requests :
        /\ BeforeCsr(r) => cert[r] = "none" /\ tpc[r] = "idle" /\ code[r] = "none"
        /\ cert[r] = "none" => bpc[r] = "idle"
        /\ code[r] = "problem" => pc[r] = "done"
\* Whoever is about to set an order to valid has stored its certificate, or the
\* database lost it, ...
Stored(r) == cert[r] = "cert" \/ Target[r] \in lost
Issuer(r) == \/ tpc[r] = "order" \/ bpc[r] = "order"
             \/ tpc[r] = "done" /\ tres[r] = "ok"
             \/ pc[r] = "markvalid"
StoredBeforeValid ==
    \A r \in Requests :
        /\ tpc[r] = "store" => tres[r] = "ok"
        /\ tpc[r] \in {"failed", "saveerror"} => tres[r] # "ok"
        /\ Issuer(r) => Stored(r)
\* ... rows belong to requests that claimed their order, an answer names a row of
\* its own order, and only a request with a row gave up waiting.
RowsOfClaimed ==
    \A r \in Requests :
        /\ pc[r] \in {"authorize", "csr"} \/ tpc[r] # "idle" \/ cert[r] # "none"
              => r \in claimed
        /\ pc[r] \in {"join", "markvalid"} \/ cname[r] = TimeoutName
              => cert[r] # "none"
        /\ cname[r] \in Requests => cname[r] \in Rows(Target[r])
OrderInv == /\ TypeOK /\ RequestsKnown /\ ClaimsKept /\ ExpirySeen
            /\ EnrollAuthorized /\ RowsOfSubmitted
            /\ StoredBeforeValid /\ RowsOfClaimed

\* Every request is answered, even if the CA never answers: the join times out.
EveryRequestAnswered ==
    \A r \in Requests : pc[r] # "idle" ~> pc[r] = "done"
=============================================================================
