------------------------------ MODULE RemoteCa ------------------------------
(***************************************************************************)
(* The CA handlers that forward to a remote CA: how each of them submits a *)
(* CSR, follows the request, and revokes.  See CaExchange for the CA, the  *)
(* network and the database.                                               *)
(***************************************************************************)
EXTENDS CaExchange, FiniteSets

VARIABLES
    keyFile,             \* acme: the key file, with the account stored in it
    rev,                 \* locals of the revocations
    jobs,                \* nclm: revocation jobs not done yet
    \* history, never read by the program:
    raced                \* acme: two calls created the key, or it was not written

revVars == <<rev, jobs>>
remoteVars == <<handler, enrollVars, keyFile, raced, revVars>>

NoRev == [at |-> "idle", cert |-> 0, tries |-> 0, round |-> 0, code |-> 0,
          end |-> "none"]
NoKey == [key |-> 0, account |-> 0]

RemoteInit ==
    /\ InitExchange
    /\ keyFile = NoKey /\ raced = FALSE
    /\ rev = [r \in RevokeCalls |-> NoRev] /\ jobs = {}

Rest == UNCHANGED <<keyFile, raced>>

-----------------------------------------------------------------------------
(* Before the submission: configuration, credentials, look-ups at the CA.  *)
(* A look-up that fails ends the call with an error, one that is answered  *)
(* without body may raise.                                                 *)

Stops   == {"failed"}
Breaks  == {"failed", "raised"}
Submits == {"submit"}

\* the CA, by its name; a failed look-up is a record with a status
CertifierReady == Stops \cup Submits
\* login and version; a version that cannot be read is unknown
DogtagReady == Stops \cup Submits
\* organization, its domains, and the credentials
EntrustReady == Breaks \cup Submits
\* container, policy link, template
NclmReady == Breaks \cup Submits
\* state of the REST interface
EjbcaReady == Breaks \cup Submits
\* the id of the organization, if only its name is configured
DigicertReady == Breaks \cup Submits
\* Search for the host, and creation if there is none, a managing host and
\* principals; only the search is asked whether it worked.
FreeipaReady == Breaks \cup Submits
\* issuer and profile must be known to the CA
AsaReady == Stops \cup Submits
\* Credentials, and if the configuration says so the template; a list of
\* templates that cannot be read is not enforced.
MscertsrvReady == Stops \cup Submits
\* no chain, no submission
EstReady(chain) == IF chain THEN Submits ELSE Stops

Ready(chain) ==
    CASE handler = "certifier" -> CertifierReady
      [] handler \in {"dogtag", "dogtag_approve"} -> DogtagReady
      [] handler = "entrust"   -> EntrustReady
      [] handler = "nclm"      -> NclmReady
      [] handler = "ejbca"     -> EjbcaReady
      [] handler = "digicert"  -> DigicertReady
      [] handler = "freeipa"   -> FreeipaReady
      [] handler = "asa"       -> AsaReady
      [] handler = "mscertsrv" -> MscertsrvReady
      [] handler = "est"       -> EstReady(chain)
      [] OTHER                 -> Stops \cup Submits

\* asa, est and mscertsrv get the chain of the CA before they submit
Prepare(o) ==
    /\ At(o, "idle") /\ handler # "acme"
    /\ \E chain \in IF handler \in {"asa", "est", "mscertsrv"} THEN BOOLEAN
                                                              ELSE {TRUE} :
          \E step \in Ready(chain) :
             call' = IF step = "raised"
                     THEN [call EXCEPT ![o].at = "store", ![o].answer = Raised]
                     ELSE [call EXCEPT ![o].at = step, ![o].chain = chain]
    /\ UNCHANGED <<dbVars, caVars, lost, excused>>

-----------------------------------------------------------------------------
(* acme: the key of the upstream account is created on first use, and the  *)
(* name of the account is added to the key file after registration.  A key *)
(* is named after the call that generated it, an account after its key.    *)

\* variant with a bug: a key without account is replaced
LoadKeyAnew(o) ==
    /\ At(o, "idle") /\ handler = "acme"
    /\ call' = IF keyFile.account # 0
               THEN [call EXCEPT ![o].at = "register", ![o].key = keyFile.key,
                                 ![o].account = keyFile.account]
               ELSE [call EXCEPT ![o].at = "key", ![o].key = o]
    /\ UNCHANGED <<dbVars, caVars, lost, excused, keyFile, raced>>

LoadKey(o) ==
    /\ At(o, "idle") /\ handler = "acme"
    /\ call' = IF keyFile.key # 0
               THEN [call EXCEPT ![o].at = "register", ![o].key = keyFile.key,
                                 ![o].account = keyFile.account]
               ELSE [call EXCEPT ![o].at = "key", ![o].key = o]
    /\ UNCHANGED <<dbVars, caVars, lost, excused, keyFile, raced>>

\* failures to write are only logged
WriteKey(o) ==
    /\ At(o, "key")
    /\ Move(o, "register")
    /\ \/ /\ keyFile' = [key |-> o, account |-> 0]
          /\ raced' = (raced \/ \E p \in Orders \ {o} : At(p, "key"))
       \/ keyFile' = keyFile /\ raced' = TRUE
    /\ UNCHANGED <<dbVars, caVars, lost, excused>>

\* A known account is asked for, an unknown one is registered; the CA accepts
\* the key of the account only.
Register(o) ==
    /\ At(o, "register")
    /\ \/ Move(o, "failed")
       \/ call[o].account = call[o].key /\ Move(o, "submit")
       \/ /\ call[o].account = 0
          /\ call' = [call EXCEPT ![o].at = "account", ![o].account = call[o].key]
    /\ UNCHANGED <<dbVars, caVars, lost, excused, keyFile, raced>>

\* whatever key the file holds by now
NoteAccount(o) ==
    /\ At(o, "account")
    /\ Move(o, "submit")
    /\ \/ keyFile.key # 0 /\ keyFile' = [keyFile EXCEPT !.account = call[o].account]
       \/ UNCHANGED keyFile
    /\ UNCHANGED <<dbVars, caVars, lost, excused, raced>>

-----------------------------------------------------------------------------
(* What each handler returns for what the CA shows right after submission  *)

\* handlers whose first answer ends the call
Direct == {"acme", "asa", "cmp", "digicert", "ejbca", "entrust", "est",
           "freeipa", "mscertsrv", "msicpr", "pkcs7_soap", "vault"}

\* poll_and_finalize raises when the order is not valid in time
AcmeAnswers(i, shown) ==
    {CASE shown = "issued" -> Certificate(i, 0)
       [] shown = "leaf" -> Unstorable
       [] OTHER -> Failed}

\* the certificate and the chain that was fetched before, or None
AsaAnswers(i, shown, chain) ==
    {CASE shown \in {"issued", "leaf"} -> IF chain THEN Certificate(i, 0) ELSE Raised
       [] OTHER -> Failed}

\* certificate and chain are files written by the openssl command
CmpAnswers(i, shown) ==
    {CASE shown = "issued" -> Certificate(i, 0)
       [] shown = "leaf" -> Unstorable
       [] OTHER -> Failed}

\* without a chain neither error nor poll identifier
DigicertAnswers(i, shown) ==
    {CASE shown = "issued" -> Certificate(i, i)
       [] shown = "leaf" -> Unstorable
       [] OTHER -> Failed}

EjbcaAnswers(i, shown) ==
    CASE shown = "issued" -> {Certificate(i, 0)}
      [] shown = "leaf" -> {Unstorable, Failed}
      [] OTHER -> {Failed, Raised}

\* a created order without certificate leaves its tracking id
EntrustAnswers(i, shown) ==
    CASE shown = "issued" -> {Certificate(i, i)}
      [] shown = "leaf" -> {Waiting(i), Unstorable}
      [] shown = "rejected" -> {Failed, Raised}
      [] OTHER -> {Waiting(i)}

\* the chain was fetched before
EstAnswers(i, shown) ==
    {IF shown \in {"issued", "leaf"} THEN Certificate(i, 0) ELSE Failed}

\* the chain holds the certificate itself
FreeipaAnswers(i, shown) ==
    CASE shown = "issued" -> {Certificate(i, 0)}
      [] shown = "leaf" -> {Unstorable, Failed}
      [] OTHER -> {Failed, Raised}

\* a pending request raises in the client library and becomes an error
MscertsrvAnswers(i, shown, chain) ==
    {IF shown \in {"issued", "leaf"} /\ chain THEN Certificate(i, 0) ELSE Failed}

\* the chain is the configured one, else the one of the CA
MsicprBundle(i, shown) == IF shown = "issued" THEN {Certificate(i, 0)}
                          ELSE {Certificate(i, 0), Unstorable}

MsicprAnswers(i, shown) ==
    CASE shown \in {"issued", "leaf"} -> MsicprBundle(i, shown)
      [] shown = "pending" -> {Waiting(i)}
      [] OTHER -> {Failed}

Pkcs7SoapAnswers(i, shown) ==
    {CASE shown = "issued" -> Certificate(i, 0)
       [] shown = "leaf" -> Unstorable
       [] OTHER -> Failed}

VaultAnswers(i, shown) ==
    CASE shown = "issued" -> {Certificate(i, 0)}
      [] shown = "leaf" -> {Failed}
      [] OTHER -> {Failed, Raised}

DirectAnswers(i, shown, chain) ==
    CASE handler = "acme"       -> AcmeAnswers(i, shown)
      [] handler = "asa"        -> AsaAnswers(i, shown, chain)
      [] handler = "cmp"        -> CmpAnswers(i, shown)
      [] handler = "digicert"   -> DigicertAnswers(i, shown)
      [] handler = "ejbca"      -> EjbcaAnswers(i, shown)
      [] handler = "entrust"    -> EntrustAnswers(i, shown)
      [] handler = "est"        -> EstAnswers(i, shown)
      [] handler = "freeipa"    -> FreeipaAnswers(i, shown)
      [] handler = "mscertsrv"  -> MscertsrvAnswers(i, shown, chain)
      [] handler = "msicpr"     -> MsicprAnswers(i, shown)
      [] handler = "pkcs7_soap" -> Pkcs7SoapAnswers(i, shown)
      [] handler = "vault"      -> VaultAnswers(i, shown)

-----------------------------------------------------------------------------
(* Handlers that ask again: certifier, dogtag, nclm and openxpki           *)

\* handlers that return an identifier for a request that is pending
Followers == {"certifier", "dogtag", "entrust", "msicpr", "openxpki"}

\* An answer that misses something of an issued certificate excuses the call,
\* and so does a pending request with a handler that follows none.
Missed(shown, answer) ==
    \/ shown \in {"leaf", "bare", "unread"}
    \/ shown = "pending" /\ handler \notin Followers
    \/ answer.kind = "raised"
    \/ shown = "issued" /\ answer.kind # "certificate"

Answer(o, shown, answer) ==
    /\ Return(o, answer)
    /\ IF Missed(shown, answer) THEN Excuse(o) ELSE UNCHANGED excused
    /\ UNCHANGED lost

AnswerDirect(o) ==
    /\ At(o, "reply") /\ handler \in Direct
    /\ \E shown \in Shown(o) :
          \E answer \in DirectAnswers(call[o].id, shown, call[o].chain) :
             Answer(o, shown, answer)

Again(o, step) ==
    /\ call' = [call EXCEPT ![o].at = step, ![o].round = @ + 1]
    /\ UNCHANGED <<dbVars, caVars, lost, excused>>
Step(o, step) ==
    Move(o, step) /\ UNCHANGED <<dbVars, caVars, lost, excused>>

\* variant with a bug: a pending request is submitted again
CertifierReplyAgain(o) ==
    /\ At(o, "reply") /\ handler = "certifier"
    /\ \E shown \in Shown(o) :
          CASE shown = "issued"   -> Answer(o, shown, Certificate(call[o].id, 0))
            [] shown = "leaf"     -> Answer(o, shown, Unstorable)
            [] shown = "rejected" -> Answer(o, shown, Failed)
            [] OTHER              -> IF call[o].round = Rounds THEN Step(o, "wait")
                                                               ELSE Again(o, "submit")

\* certifier: the certificate comes at once, or the location of the request
CertifierReply(o) ==
    /\ At(o, "reply") /\ handler = "certifier"
    /\ \E shown \in Shown(o) :
          CASE shown = "issued"   -> Answer(o, shown, Certificate(call[o].id, 0))
            [] shown = "leaf"     -> Answer(o, shown, Unstorable)
            [] shown = "rejected" -> Answer(o, shown, Failed)
            [] OTHER              -> Step(o, "wait")

\* variant with a bug: the location is lost when the time is over
CertifierWaitOnce(o) ==
    LET i == call[o].id IN
    /\ At(o, "wait") /\ handler = "certifier"
    /\ IF call[o].round = Rounds THEN Answer(o, "pending", Failed)
       ELSE \/ Again(o, "wait")
            \/ \E shown \in Shown(o) \ {"pending", "bare"} :
                  Answer(o, shown, CASE shown = "issued" -> Certificate(i, 0)
                                     [] shown = "leaf"   -> Unstorable
                                     [] OTHER            -> Failed)

\* Until the CA has decided and the certificate could be read; the location
\* is kept for the poll tool when the time is over.
CertifierWait(o) ==
    LET i == call[o].id IN
    /\ At(o, "wait") /\ handler = "certifier"
    /\ IF call[o].round = Rounds THEN Answer(o, "pending", Waiting(i))
       ELSE \/ Again(o, "wait")
            \/ \E shown \in Shown(o) \ {"pending", "bare"} :
                  Answer(o, shown, CASE shown = "issued" -> Certificate(i, 0)
                                     [] shown = "leaf"   -> Unstorable
                                     [] OTHER            -> Failed)

\* dogtag: a pending request is kept, or approved with the agent's rights
DogtagReply(o) ==
    LET state == received[call[o].id].state IN
    /\ At(o, "reply") /\ handler \in {"dogtag", "dogtag_approve"}
    /\ CASE state = "issued"   -> Step(o, "status")
         [] state = "rejected" -> Answer(o, state, Failed)
         [] OTHER -> IF handler = "dogtag"
                     THEN Answer(o, state, Waiting(call[o].id))
                     ELSE Step(o, "nonce")

DogtagNonce(o) ==
    /\ At(o, "nonce")
    /\ \/ Step(o, "approve")
       \/ \E answer \in {Failed, Raised} : Answer(o, "unread", answer)

\* An approval that was carried out, but whose answer was lost, is repeated
\* and refused.
DogtagApprove(o) ==
    LET i == call[o].id IN
    /\ At(o, "approve")
    /\ \/ \E repeated \in {call[o].tries + 1 < Attempts} :
             /\ IF repeated
                THEN call' = [call EXCEPT ![o].tries = @ + 1] /\ excused' = excused
                ELSE /\ call' = [call EXCEPT ![o].at = "store", ![o].tries = 0,
                                             ![o].answer = Failed]
                     /\ Excuse(o)
             /\ \/ UNCHANGED received
                \/ /\ received[i].state = "pending"
                   /\ received' = [received EXCEPT ![i].state = "issued"]
             /\ UNCHANGED <<dbVars, revoked, lost>>
       \/ /\ received[i].state # "pending"
          /\ Answer(o, "unread", Failed)
       \/ /\ received[i].state = "pending"
          /\ received' = [received EXCEPT ![i].state = "issued"]
          /\ Move(o, "status")
          /\ UNCHANGED <<dbVars, revoked, lost, excused>>

DogtagStatus(o) ==
    /\ At(o, "status")
    /\ \/ /\ received[call[o].id].state = "issued" /\ Step(o, "fetch")
       \/ \E answer \in {Failed, Raised} : Answer(o, "unread", answer)

\* certificate and chain are read, one of them is missing, or neither comes
DogtagFetch(o) ==
    /\ At(o, "fetch") /\ handler \in {"dogtag", "dogtag_approve"}
    /\ \/ Answer(o, "issued", Certificate(call[o].id, 0))
       \/ \E answer \in {Unstorable, Failed, Raised} : Answer(o, "bare", answer)

\* nclm: the request is a job
NclmReply(o) == At(o, "reply") /\ handler = "nclm" /\ Step(o, "job")

\* A job is asked for until it is done; an answer that is no record raises.
NclmJob(o) ==
    LET state == received[call[o].id].state IN
    /\ At(o, "job")
    /\ IF call[o].round = Rounds
       THEN Answer(o, IF state = "issued" THEN "unread" ELSE state, Failed)
       ELSE \/ Again(o, "job") /\ state # "issued"
            \/ Answer(o, "unread", Raised)
            \/ state = "issued" /\ Step(o, "fetch")
            \/ state = "issued" /\ Answer(o, "bare", Failed)

\* the identifier of the certificate is returned with it, or without
NclmFetch(o) ==
    LET i == call[o].id IN
    /\ At(o, "fetch") /\ handler = "nclm"
    /\ \/ Answer(o, "issued", Certificate(i, i))
       \/ \E answer \in {Waiting(i), Unstorable, Raised} : Answer(o, "bare", answer)

\* openxpki: the same data is posted again while the request is pending
OpenxpkiReply(o) ==
    LET i == call[o].id IN
    /\ At(o, "reply") /\ handler = "openxpki"
    /\ \E shown \in Shown(o) :
          CASE shown = "issued" -> Answer(o, shown, Certificate(i, i))
            [] shown \in {"leaf", "bare"} ->
                  \E answer \in {Waiting(i), Raised} : Answer(o, shown, answer)
            [] shown = "pending" -> IF call[o].round = Rounds
                                    THEN Answer(o, shown, Waiting(i))
                                    ELSE Again(o, "submit")
            [] OTHER -> Answer(o, shown, IF call[o].round > 0 THEN Waiting(i)
                                                              ELSE Failed)

-----------------------------------------------------------------------------
(* A submission that got no answer, or a refusal.  An answer without body  *)
(* raises in most handlers; certifier takes the record of the CA instead,  *)
(* and follows its location as if it were that of the request.             *)

CaPage == -1

FailAnswers(o) ==
    CASE handler = "certifier" -> {Failed, Waiting(CaPage)}
      [] handler = "openxpki" ->
            {Raised, IF call[o].id # 0 THEN Waiting(call[o].id) ELSE Failed}
      [] handler \in {"digicert", "ejbca", "entrust", "freeipa", "vault"} ->
            {Failed, Raised}
      [] OTHER -> {Failed}

Fail(o) ==
    /\ At(o, "failed")
    /\ \E answer \in FailAnswers(o) : Answer(o, "none", answer)

EnrollRemote(o) ==
    /\ \/ LoadKey(o) \/ WriteKey(o) \/ Register(o) \/ NoteAccount(o)
       \/ /\ \/ Prepare(o) \/ Submit(o) \/ Fail(o) \/ AnswerDirect(o) \/ StoreAnswer(o)
             \/ CertifierReply(o) \/ CertifierWait(o)
             \/ DogtagReply(o) \/ DogtagNonce(o) \/ DogtagApprove(o)
             \/ DogtagStatus(o) \/ DogtagFetch(o)
             \/ NclmReply(o) \/ NclmJob(o) \/ NclmFetch(o)
             \/ OpenxpkiReply(o)
          /\ Rest
    /\ UNCHANGED <<handler, revVars>>

-----------------------------------------------------------------------------
(* After the call: the poll tool and the trigger of the CA.  Only certifier *)
(* implements them; the others leave the row as it was.                    *)

\* poll: the certificate with its chain, a rejection, or nothing yet
PollAnswer(i) ==
    CASE received[i].state = "issued"   -> {Certificate(i, 0), Waiting(i)}
      [] received[i].state = "rejected" -> {Failed}
      [] OTHER                          -> {Waiting(i)}

\* Orders in processing with an identifier are polled one after the other.  A
\* rejected request invalidates the order, without a decision nothing changes.
Poll(o) ==
    LET i == row[o].poll IN
    /\ handler = "certifier" /\ At(o, "ended")
    /\ order[o] = "processing" /\ i \in DOMAIN received
    /\ \E answer \in PollAnswer(i) :
          \/ /\ answer.kind = "certificate"
             /\ row' = [row EXCEPT ![o] = [cert |-> i, poll |-> 0]]
             /\ order' = [order EXCEPT ![o] = "valid"]
          \/ /\ answer.kind = "failed"
             /\ order' = [order EXCEPT ![o] = "invalid"]
             /\ UNCHANGED row
    /\ UNCHANGED <<handler, caVars, call, lost, excused, keyFile, raced, revVars>>

\* The CA sends a certificate, which is matched by its key with the CSRs of
\* orders in processing, even while the call that submitted it still runs.
Trigger(i) ==
    LET o == received[i].order IN
    /\ handler = "certifier" /\ received[i].state = "issued"
    /\ order[o] = "processing"
    /\ row' = [row EXCEPT ![o].cert = i]
    /\ order' = [order EXCEPT ![o] = "valid"]
    /\ UNCHANGED <<handler, caVars, call, lost, excused, keyFile, raced, revVars>>

-----------------------------------------------------------------------------
(* Revocation                                                              *)

Unsupported == {"cmp", "est", "mscertsrv", "msicpr", "pkcs7_soap"}

\* the answer of revoke; "silent" if the CA was asked but did not answer
End(r, code, end) ==
    rev' = [rev EXCEPT ![r] = [@ EXCEPT !.at = "ended", !.code = code, !.end = end]]

\* A stored certificate is revoked; entrust and nclm take the identifier of
\* the row or ask for it, openxpki takes it from the row, acme needs its key.
StartRevoke(r, o) ==
    /\ rev[r].at = "idle" /\ row[o].cert # 0
    /\ IF \/ handler \in Unsupported
          \/ handler = "openxpki" /\ row[o].poll = 0
          \/ handler = "acme" /\ keyFile.key = 0
       THEN rev' = [rev EXCEPT ![r] = [NoRev EXCEPT !.at = "ended", !.code = 500,
                                                    !.cert = row[o].cert]]
       ELSE rev' = [rev EXCEPT ![r] = [NoRev EXCEPT !.at = "lookup",
                                                    !.cert = row[o].cert]]
    /\ UNCHANGED <<revoked, jobs>>

\* What a handler answers when the certificate is found revoked before it asks
\* (found), when the CA refuses (refused) and when no answer came (silent).
Codes(found, refused, silent) ==
    [found |-> found, refused |-> refused, silent |-> silent]

\* an error is looked for in the text of the failure, as if it were a record
CertifierCodes == Codes({}, {400}, {200, 500})
DogtagCodes    == Codes({200}, {400}, {500})
EntrustCodes   == Codes({}, {500}, {500})
EjbcaCodes     == Codes({400}, {400}, {400, 500})
AsaCodes       == Codes({}, {400}, {500})      \* the code of the API
DigicertCodes  == Codes({}, {400}, {500})      \* the code of the API
VaultCodes     == Codes({}, {400, 500}, {500}) \* the code of the API
OpenxpkiCodes  == Codes({}, {400}, {400, 500})
FreeipaCodes   == Codes({}, {500}, {500})
AcmeCodes      == Codes({}, {500}, {500})
NclmCodes      == Codes({}, {500}, {500})

HandlerCodes ==
    CASE handler = "certifier" -> CertifierCodes
      [] handler \in {"dogtag", "dogtag_approve"} -> DogtagCodes
      [] handler = "entrust"   -> EntrustCodes
      [] handler = "ejbca"     -> EjbcaCodes
      [] handler = "asa"       -> AsaCodes
      [] handler = "digicert"  -> DigicertCodes
      [] handler = "vault"     -> VaultCodes
      [] handler = "openxpki"  -> OpenxpkiCodes
      [] handler = "freeipa"   -> FreeipaCodes
      [] handler = "acme"      -> AcmeCodes
      [] handler = "nclm"      -> NclmCodes

\* dogtag and ejbca read the state of the certificate first
Lookup(r) ==
    LET found == IF rev[r].cert \in revoked THEN HandlerCodes.found ELSE {} IN
    /\ rev[r].at = "lookup"
    /\ \/ \E code \in found : End(r, code, "plain")
       \/ found = {} /\ rev' = [rev EXCEPT ![r].at = "post"]
       \/ End(r, 500, "plain")
    /\ UNCHANGED <<revoked, jobs>>

\* acme sends it a second time, with another form of the certificate
RevokeAttempts == IF handler = "acme" THEN 2 ELSE Attempts

\* One attempt; a certificate that is revoked already is refused.
PostRevoke(r) ==
    LET c == rev[r].cert IN
    /\ rev[r].at = "post" /\ handler # "nclm"
    /\ \/ /\ \/ UNCHANGED revoked
             \/ revoked' = revoked \cup {c}
          /\ IF rev[r].tries + 1 < RevokeAttempts
             THEN rev' = [rev EXCEPT ![r].tries = @ + 1]
             ELSE \E code \in HandlerCodes.silent : End(r, code, "silent")
       \/ /\ c \notin revoked /\ revoked' = revoked \cup {c}
          /\ End(r, 200, "plain")
       \/ /\ \E code \in HandlerCodes.refused : End(r, code, "plain")
          /\ UNCHANGED revoked
    /\ UNCHANGED jobs

\* nclm creates a job, and follows it for some rounds
PostJob(r) ==
    /\ rev[r].at = "post" /\ handler = "nclm"
    /\ \/ /\ jobs' = jobs \cup ({rev[r].cert} \ revoked)
          /\ rev' = [rev EXCEPT ![r].at = "job"]
       \/ jobs' \in {jobs, jobs \cup ({rev[r].cert} \ revoked)} /\ End(r, 500, "silent")
    /\ UNCHANGED revoked

\* variant with a bug: a job that takes too long is taken for done
PollJobOptimistic(r) ==
    /\ rev[r].at = "job"
    /\ IF rev[r].round = Rounds THEN End(r, 200, "plain")
       ELSE \/ rev' = [rev EXCEPT ![r].round = @ + 1]
            \/ rev[r].cert \in revoked /\ End(r, 200, "plain")
            \/ rev[r].cert \notin jobs /\ End(r, 500, "plain")
    /\ UNCHANGED <<revoked, jobs>>

PollJob(r) ==
    /\ rev[r].at = "job"
    /\ IF rev[r].round = Rounds THEN End(r, 500, "plain")
       ELSE \/ rev' = [rev EXCEPT ![r].round = @ + 1]
            \/ rev[r].cert \in revoked /\ End(r, 200, "plain")
            \/ rev[r].cert \notin jobs /\ End(r, 500, "plain")
    /\ UNCHANGED <<revoked, jobs>>

\* the CA carries out a job, or fails it
RunJob(c) ==
    /\ jobs' = jobs \ {c}
    /\ revoked' \in {revoked, revoked \cup {c}}
    /\ UNCHANGED rev

RevokeRemote(r) ==
    /\ \/ \E o \in Orders : StartRevoke(r, o)
       \/ Lookup(r) \/ PostRevoke(r) \/ PostJob(r) \/ PollJob(r)
    /\ UNCHANGED <<handler, dbVars, received, call, lost, excused, keyFile, raced>>

Ca ==
    \/ /\ \E i \in DOMAIN received : Decide(i)
       /\ UNCHANGED <<handler, keyFile, raced, revVars>>
    \/ /\ \E c \in jobs : RunJob(c)
       /\ UNCHANGED <<handler, dbVars, received, call, lost, excused, keyFile, raced>>

RemoteNext ==
    \/ \E o \in Orders : EnrollRemote(o) \/ Poll(o)
    \/ \E i \in DOMAIN received : Trigger(i)
    \/ \E r \in RevokeCalls : RevokeRemote(r)
    \/ Ca

RemoteSpec == RemoteInit /\ [][RemoteNext]_remoteVars

-----------------------------------------------------------------------------
(* Properties                                                              *)

Of(o) == {i \in DOMAIN received : received[i].order = o}

Issued(i)   == i \in DOMAIN received /\ received[i].state = "issued"
Rejected(i) == i \in DOMAIN received /\ received[i].state = "rejected"

Answers == [kind : {"certificate", "unstorable", "waiting", "failed", "raised"},
            cert : Nat, poll : Nat \cup {CaPage}]
BeforeReply == {"idle", "key", "register", "account", "submit", "failed"}
Following   == {"reply", "wait", "nonce", "approve", "status", "fetch", "job"}

EnrollCall == [at : BeforeReply \cup Following \cup {"store", "ended"},
               tries : Nat, round : Nat, id : Nat, chain : BOOLEAN,
               key : Orders \cup {0}, account : Orders \cup {0}, answer : Answers]
RevokeCall == [at : {"idle", "lookup", "post", "job", "ended"}, cert : Nat,
               tries : Nat, round : Nat, code : {0, 200, 400, 500},
               end : {"none", "plain", "silent"}]

RemoteType ==
    /\ handler \in Handlers
    /\ received \in Seq([order : Orders, state : {"pending", "issued", "rejected"}])
    /\ revoked \subseteq Nat /\ jobs \subseteq Nat
    /\ row \in [Orders -> [cert : Nat, poll : Nat \cup {CaPage}]]
    /\ order \in [Orders -> {"processing", "valid", "invalid"}]
    /\ call \in [Orders -> EnrollCall] /\ rev \in [RevokeCalls -> RevokeCall]
    /\ lost \in [Orders -> Nat] /\ excused \subseteq Orders
    /\ keyFile \in [key : Orders \cup {0}, account : Orders \cup {0}]
    /\ raced \in BOOLEAN

\* A stored certificate and a poll identifier belong to a request of their own
\* order, the certificate was issued by the CA, and an order is valid only
\* with one.  Of certifier the identifier may be the page of the CA, and an
\* order whose submission was repeated may be invalidated over a certificate
\* the trigger brought.
OrderFits(o) ==
    /\ row[o].cert \in {0} \cup Of(o)
    /\ row[o].poll \in {0} \cup Of(o)
          \cup IF handler = "certifier" THEN {CaPage} ELSE {}
    /\ row[o].cert # 0 => Issued(row[o].cert)
    /\ order[o] = "valid" => row[o].cert # 0
    /\ row[o].cert # 0 => order[o] = "valid" \/ lost[o] > 0

\* What a handler is about to return describes the request it follows.  One
\* that neither returns it nor saw it rejected is excused.  Certifier, whose
\* orders a trigger may complete meanwhile, fails for a rejection only, or
\* after a submission whose answer was lost.
AnswerFits(o, a) ==
    LET i == call[o].id IN
    /\ a.kind = "certificate" => a.cert = i /\ Issued(i) /\ a.poll \in {0, i}
    /\ a.kind = "waiting" => \/ a.poll = i /\ i # 0
                             \/ handler = "certifier" /\ a.poll = CaPage
    /\ a.kind \in {"failed", "raised", "unstorable"} => a.poll = 0
    /\ a.kind = "failed" /\ handler = "certifier" =>
          lost[o] > 0 \/ \A j \in Of(o) : Rejected(j)
    /\ \/ o \in excused \/ i = 0 \/ Rejected(i)
       \/ a.kind = "certificate"
       \/ a.kind = "waiting" /\ a.poll = i

\* A call follows a request of its order.  Without a lost answer it is the
\* only one, and each lost answer leaves one request more; only openxpki
\* submits again.  Until the call ends only certifier completes the order.
CallFits(o) ==
    LET c == call[o] IN
    /\ c.id \in {0} \cup Of(o)
    /\ c.at \in BeforeReply /\ handler # "openxpki" => c.id = 0
    /\ c.at \in Following => c.id # 0
    /\ c.at \in {"key", "register", "account"} => handler = "acme"
    /\ c.at \in {"nonce", "approve", "status"} => handler \in {"dogtag", "dogtag_approve"}
    /\ c.at = "job" => handler = "nclm"
    /\ c.at = "fetch" => Issued(c.id)
    /\ c.at = "store" => AnswerFits(o, c.answer)
    /\ c.at # "ended" => /\ order[o] # "invalid"
                         /\ handler # "certifier" => row[o].cert = 0
    /\ lost[o] = 0 => Of(o) \subseteq {c.id}
    /\ lost[o] > 0 => o \in excused
    /\ Cardinality(Of(o)) <= lost[o] + IF c.id = 0 THEN 0 ELSE 1

\* A call of acme holds the key of the key file, or generates the first one.
KeyFits ==
    \/ raced
    \/ /\ keyFile.account \in {0, keyFile.key}
       /\ \A o \in Orders :
             /\ At(o, "key") => call[o].key = o /\ keyFile.key = 0
             /\ call[o].at \in {"register", "account"} =>
                   call[o].key = keyFile.key /\ keyFile.key # 0
             /\ At(o, "account") => call[o].account = call[o].key

RevokeFits(r) ==
    /\ rev[r].code # 0 => rev[r].at = "ended"
    /\ rev[r].at \in {"lookup", "post", "job"} => handler \notin Unsupported
    /\ rev[r].at = "job" => handler = "nclm"

\* The inductive invariant: what the rows hold, what each call is about to do.
RemoteInv ==
    /\ RemoteType /\ KeyFits
    /\ \A o \in Orders : OrderFits(o) /\ CallFits(o)
    /\ \A r \in RevokeCalls : RevokeFits(r)

\* An order leaves one request at the CA, and one more for each submission
\* whose answer was lost.
OneRequest == \A o \in Orders : Cardinality(Of(o)) <= 1 + lost[o]

\* When a call has ended, a request the CA has not rejected is stored with the
\* order, or its identifier waits in the row of an order in processing, unless
\* an answer was lost or incomplete, the handler raised, or it gave up.
NothingForgotten ==
    \A i \in DOMAIN received :
        LET o == received[i].order IN
        (At(o, "ended") /\ received[i].state # "rejected") =>
            \/ row[o].cert = i
            \/ row[o].poll = i /\ order[o] = "processing"
            \/ o \in excused

\* The account in the key file is the one of the key, unless two calls created
\* the key at the same time or it could not be written.
AccountFitsKey == keyFile.account \in {0, keyFile.key} \/ raced

\* A revocation answered with 200 was carried out, except with certifier when
\* no answer came.
RevocationAnswered ==
    \A r \in RevokeCalls :
        rev[r].code = 200 => \/ rev[r].cert \in revoked
                             \/ handler = "certifier" /\ rev[r].end = "silent"
=============================================================================
