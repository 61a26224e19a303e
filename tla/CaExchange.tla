----------------------------- MODULE CaExchange -----------------------------
(***************************************************************************)
(* What the CA handlers that forward requests to a remote CA have in       *)
(* common: the CA with its requests and certificates, calls over a network *)
(* that loses questions and answers and are repeated blindly, and the      *)
(* server's treatment of what enroll returns (certificate.py).             *)
(*                                                                         *)
(* A request, and the certificate issued for it, is named by its place in  *)
(* the list of the CA, 0 for none.  A handler reads its own request only,  *)
(* so that what the CA answers is taken from that request.                 *)
(***************************************************************************)
EXTENDS Integers, Sequences

CONSTANTS
    Orders,              \* orders to be enrolled, one call of enroll each
    RevokeCalls,         \* calls of revoke
    Handlers,            \* the handlers to be configured
    Retries,             \* request_retries
    Rounds               \* questions asked while waiting in one call

Known == {"acme", "asa", "certifier", "cmp", "digicert", "dogtag",
          "dogtag_approve",      \* dogtag with certrequest_approve
          "ejbca", "entrust", "est", "freeipa", "mscertsrv", "msicpr",
          "nclm", "openxpki", "pkcs7_soap", "vault"}

ASSUME ExchangeAssumption ==
    /\ Handlers \subseteq Known
    /\ Retries \in Nat /\ Rounds \in Nat \ {0}
    /\ 0 \notin Orders /\ Orders \cap RevokeCalls = {}

VARIABLES
    handler,             \* of acme_srv.cfg
    received, revoked,   \* the CA: its requests and its revoked certificates
    row, order,          \* the database: certificate rows, states of orders
    call,                \* locals of the enrollments
    \* history, never read by the program:
    lost,                \* submissions that arrived, but their answer did not
    excused              \* calls that missed something the CA knows

dbVars == <<row, order>>
caVars == <<received, revoked>>
enrollVars == <<dbVars, caVars, call, lost, excused>>

At(o, step) == call[o].at = step
Move(o, step) == call' = [call EXCEPT ![o].at = step, ![o].tries = 0]

-----------------------------------------------------------------------------
(* What enroll returns: error, bundle, raw certificate and poll identifier *)

Certificate(i, poll) == [kind |-> "certificate", cert |-> i, poll |-> poll]
\* a bundle that cannot be stored: without the raw certificate, or of one
\* certificate only, for which no renewal information can be built
Unstorable == [kind |-> "unstorable", cert |-> 0, poll |-> 0]
Waiting(i) == [kind |-> "waiting", cert |-> 0, poll |-> i]
Failed     == [kind |-> "failed", cert |-> 0, poll |-> 0]
Raised     == [kind |-> "raised", cert |-> 0, poll |-> 0]

Uncalled == [at |-> "idle", tries |-> 0, round |-> 0, id |-> 0,
             chain |-> TRUE, key |-> 0, account |-> 0, answer |-> Failed]

InitExchange ==
    /\ handler \in Handlers
    /\ received = <<>> /\ revoked = {}
    /\ row = [o \in Orders |-> [cert |-> 0, poll |-> 0]]
    /\ order = [o \in Orders |-> "processing"]
    /\ call = [o \in Orders |-> Uncalled]
    /\ lost = [o \in Orders |-> 0] /\ excused = {}

Return(o, answer) ==
    /\ call' = [call EXCEPT ![o].at = "store", ![o].tries = 0,
                            ![o].answer = answer]
    /\ UNCHANGED <<dbVars, caVars>>

Excuse(o) == excused' = excused \cup {o}

\* variant with a bug: whether the certificate could be stored is not asked
StoreAnswerAnyway(o) ==
    LET a == call[o].answer IN
    /\ At(o, "store")
    /\ Move(o, "ended")
    /\ row' = CASE a.kind \in {"raised", "unstorable"} -> row
                [] a.kind = "certificate" ->
                      [row EXCEPT ![o] = [cert |-> a.cert, poll |-> a.poll]]
                [] OTHER -> [row EXCEPT ![o].poll = a.poll]
    /\ order' = [order EXCEPT ![o] =
                    CASE a.kind \in {"certificate", "unstorable"} -> "valid"
                      [] a.kind = "failed" -> "invalid"
                      [] OTHER -> @]
    /\ UNCHANGED <<caVars, lost, excused>>

\* The server stores a certificate and completes the order, stores a poll
\* identifier and leaves the order, or invalidates the order.
StoreAnswer(o) ==
    LET a == call[o].answer IN
    /\ At(o, "store")
    /\ Move(o, "ended")
    /\ row' = CASE a.kind \in {"raised", "unstorable"} -> row
                [] a.kind = "certificate" ->
                      [row EXCEPT ![o] = [cert |-> a.cert, poll |-> a.poll]]
                [] OTHER -> [row EXCEPT ![o].poll = a.poll]
    /\ order' = [order EXCEPT ![o] =
                    CASE a.kind = "certificate" -> "valid"
                      [] a.kind = "failed" -> "invalid"
                      [] OTHER -> @]
    /\ UNCHANGED <<caVars, lost, excused>>

-----------------------------------------------------------------------------
(* The network                                                             *)

\* acme takes any exception of newOrder for a profile the CA does not know, and
\* sends it again without profile, whether or not there was one
OrderNewAttempts == 2

\* request_operation repeats a call, whatever its method, after an exception
\* and after the codes that stand for an overloaded server; asa counts
\* attempts and repeats after exceptions; the others ask once.
Attempts ==
    CASE handler = "acme" -> OrderNewAttempts
      [] handler \in {"cmp", "est", "mscertsrv", "msicpr",
                      "pkcs7_soap"} -> 1
      [] handler = "asa" -> IF Retries > 1 THEN Retries ELSE 1
      [] OTHER -> 1 + Retries

\* the next attempt, or the end of the call if there is none
Repeat(o, c) ==
    IF c.tries + 1 < Attempts THEN [c EXCEPT !.tries = @ + 1]
                              ELSE [c EXCEPT !.at = "failed", !.tries = 0]

\* Certificates of an earlier submission of the same CSR: openxpki finds the
\* request again, every other CA takes each submission as a new request.
Same(o) == IF handler = "openxpki"
           THEN {i \in 1 .. Len(received) : received[i].order = o}
           ELSE {}

\* One attempt to submit the CSR: it does not arrive, arrives and is answered
\* with a refusal, arrives and is answered, or arrives and the answer is lost.
\* A refusal is an exception for acme.
Submit(o) ==
    /\ At(o, "submit")
    /\ \/ /\ call' = [call EXCEPT ![o] = Repeat(o, @)]
          /\ UNCHANGED <<caVars, lost, excused>>
       \/ /\ handler # "acme" /\ Move(o, "failed")
          /\ UNCHANGED <<caVars, lost, excused>>
       \/ \E state \in {"pending", "issued", "rejected"}, answered \in BOOLEAN :
             LET i == IF Same(o) # {} THEN CHOOSE j \in Same(o) : TRUE
                                      ELSE Len(received) + 1
             IN /\ received' = IF Same(o) # {} THEN received
                               ELSE Append(received, [order |-> o, state |-> state])
                /\ IF answered
                   THEN /\ call' = [call EXCEPT ![o].at = "reply",
                                                ![o].tries = 0, ![o].id = i]
                        /\ UNCHANGED <<lost, excused>>
                   ELSE /\ call' = [call EXCEPT ![o] = Repeat(o, @)]
                        /\ lost' = [lost EXCEPT ![o] = @ + 1]
                        /\ Excuse(o)
                /\ UNCHANGED revoked
    /\ UNCHANGED dbVars

\* What the CA shows of the request of a call.  Of an issued one it shows the
\* certificate with its chain, the certificate alone, or neither.
Shown(o) == LET state == received[call[o].id].state
            IN IF state = "issued" THEN {"issued", "leaf", "bare"} ELSE {state}

\* an operator of the CA decides on a pending request
Decide(i) ==
    /\ received[i].state = "pending"
    /\ \E state \in {"issued", "rejected"} :
          received' = [received EXCEPT ![i].state = state]
    /\ UNCHANGED <<dbVars, revoked, call, lost, excused>>
=============================================================================
