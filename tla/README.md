# acme2certifier in TLA+

acme2certifier is an ACME server (RFC 8555) that passes certificate requests on to
a CA. This directory holds TLA+ modules that model its core logic, configurations
that let TLC check them on small instances, and proofs that TLAPS checks for every
value of the constants. Everything is translated from the Python code under
`src/acme2certifier/`; `PROJECT.json` names the source lines of each definition.

## The system

An ACME client creates an account, asks for an order with identifiers, proves the
control of each identifier with a challenge of its authorization, and finalizes the
order with a CSR. The server keeps all state in a database (sqlite through
`wsgi_handler.py`, or any Django backend through `django_handler.py`). It runs as
several threads or processes, also behind a load balancer. No transaction spans two
database calls, so requests interleave at every call.

| Component | State | Operations | Correct when | Modules |
|---|---|---|---|---|
| Orders `order.py` | rows of `orders`: status, expires, profile | create, poll, finalize, invalidate expired | one enrollment per order, none for unauthorized or expired orders, every request answered | `Order`, `Issuance`, `Identifiers` |
| Enrollment `certificate.py`, `certificate_manager.py`, `threadwithreturnvalue.py` | rows of `certificate`; one thread per finalize | store CSR, enroll, reuse, store certificate or error, poll, revoke, download, clean up | a valid order has a certificate, a stored certificate stays and belongs to its account | `Order`, `Certificates`, `Issuance` |
| Authorizations `authorization.py` | rows of `authorization`: status, token, expires | view (token, challenge set, prevalidation, dns-persist), expire | valid only by a validation for its holder or a list of the operator | `Order`, `Challenge`, `Issuance` |
| Challenges `challenge.py`, `challenge_business_logic.py` | rows of `challenge`; one thread per validation | create set, validate with retries, update challenge and authorization | valid only after a validation succeeded, processing ends, the authorization agrees with its challenges | `Challenge`, `Validators` |
| Challenge validators `challenge_validators/` | none | one lookup or connection per attempt | the answer was made for the account | `Validators` |
| Nonces `nonce.py` | rows of `nonce` | generate, consume, expire | accepted at most once, refused only for a cause | `Nonce`, `OneTimeToken` |
| Messages `message.py`, `signature.py` | none | decode, nonce, EAB check, signature, response with a new nonce | no handler runs for an unsigned message | `Nonce`, `Account` |
| Accounts `account.py` | rows of `account`: key, contact, status, eab_kid | register, EAB, contact, key rollover, deactivate | one account per text of a key, deactivation is final | `Account` |
| Trigger and poll tool `trigger.py`, `a2c_cert_poll.py` | none | complete a pending enrollment | only completes orders that wait for a certificate | `Order`, `RemoteCa` |
| Housekeeping `housekeeping.py` | reports | clean-ups, date update | removes only what is outdated | `Certificates`, `Nonce` |
| Renewal information `renewalinfo.py` | flag `replaced`, housekeeping parameter | complete old rows, suggested window, replaced update | marks survive, window lies within the validity | `Certificates` |
| Database handlers | tables | one call per operation | conditional updates are atomic | all |
| CA handlers `cahandlers/` | files or tables of a local CA; requests of a remote one | enroll, poll, trigger, revoke | confirmed revocations stay, nothing the CA knows is forgotten | `LocalCa`, `CaExchange`, `RemoteCa` |
| EAB handlers, profiles `eabhandlers/`, `helpers/eab.py` | key file or database | credentials, profiles that override settings | an account gets what its own profile grants | `Configuration`, `Account` |
| Helpers `helpers/` | configuration; functions and variables shared by the process | domain and CSR checks, downloads | calls do not disturb each other | `Identifiers`, `Configuration`, `ProcessState` |
| Directory, web applications, hooks, command line tools | configuration | glue to the outside | | |

**Interaction.** A web request reaches one component through the web application.
`Message.check` consumes a nonce, checks the EAB credentials of the account and then the
signature. Orders start enrollment in a daemon thread of `certificate.py` and wait for
it with a timeout. The thread calls a CA handler; it, the worker that waits, the poll
tool and the trigger all write the same order row. Challenge validation runs in a thread
too; its result goes to the authorization, and the next order request that sees only
valid authorizations sets the order to ready. The view of a prevalidated authorization
sets the order to ready itself. Threads of one process also share what their downloads
and Kerberos enrollments patch in it.

**What is hard.** A status is read in one database call and acted on in a later one.
Only two writes are conditional: the claim `ready -> processing`
(`order_update_if_status`) and the consumption of a nonce. The other updates read a row
and write all of its columns back. Errors of the database are mostly logged and
swallowed. Threads outlive the request that started them. Processes stop with daemon
threads at work. Calls to a CA are repeated whatever they do. The enrollment looks
account and profile up again by the text of the CSR. The list `hazards` in
`PROJECT.json` gives the line of each hazard and the properties aimed at it.

## The modules

| Module | Content |
|---|---|
| `Order` | life of orders: creation, requests, finalize, enrollment threads, authorization view, poll tool and trigger |
| `Challenge` | authorization views, challenge sets, challenge requests and validation threads |
| `Nonce`, `OneTimeToken` | nonce table, requests of several processes, cleanup, restarts; what nonces promise, without processes and database |
| `Account` | registration with EAB, contact, key rollover, deactivation, the check of every signed request |
| `Certificates` | the certificate table and everything that works on it |
| `LocalCa` | the CA handlers openssl and xca |
| `CaExchange`, `RemoteCa` | a remote CA, its network and the treatment of what a handler returns; the sixteen handlers that forward to one |
| `ProcessState` | what the threads of a process share besides the database |
| `Identifiers` | identifiers, their comparison with lists and with CSRs (operators) |
| `Configuration` | effective settings: files, profiles of accounts, the profile a submission is granted (operators) |
| `Validators` | challenge sets and the result of each validator (operators) |
| `Issuance` | composes the last three: from the identifiers of an order to the submission to a CA |
| `MC*`, `MC*.cfg` | instances for TLC |
| `OrderProofs`, `NonceProofs`, `ChallengeProofs`, `AccountProofs`, `CertificatesProofs`, `ProcessProofs`, `IssuanceProofs` | theorems about the module of that name |
| `CaProofs` | theorems about `LocalCa` and `RemoteCa` |

The state machines have history variables, which properties read and no action depends
on. Those that have faults select them by a constant or a field: a database call that raises
("db"), a hook ("hook"), a CA handler that raises or returns something unparsable ("ca"),
a stopped process ("crash"), an EAB handler ("eab"), an unreadable key file ("keys").

### Order

State: the order rows (`ostatus`, `oexpires`), the authorization rows (`astatus`,
`aexpires`, `viewed` for those with a token), one possible certificate row per finalize
request (`cert`), the workers' locals and the threads'. `pc[r]` is the place of the
worker that serves request `r`, `tpc[r]` that of the enrollment thread it started,
`bpc[r]` that of the poll tool or trigger that works on the row of `r`.

One action is one database call, CA call or wait, with the code up to the next one:

- `parse_order_content`: `SearchExpired` and `InvalidateExpired` (unless the expiry check
  is disabled), `CheckMessage`, `ReadOrder`, `ReadAuthorizations`, `MarkReady`
  (`get_order_details`), `DispatchOrder`. A successful answer runs `get_order_details`
  once more: `Succeed` sends the worker back to `ReadOrder` with `code = "ok"`.
- finalize: `ClaimOrder` (compare-and-set), `CheckAuthorizations`, `RejectOrder`,
  `SubmitCsr`, `JoinResult` or `JoinTimeout`, `MarkValid`.
- thread: `CaEnroll` (pre hook and CA), `StoreCertificate`, `ThreadMarkValid`,
  `ThreadMarkInvalid`, `SaveError`; `ThreadEnd` covers success and post hooks.
- poll tool and trigger: `FindPending`, `BackStore`, `BackMark`.
- authorization view: `ViewAuthorization`, `Prevalidate`, `PrevalidateAuthorization`,
  `PrevalidateOrder`.
- environment: `NewOrder`, `AddAuthorization`, `Created`, `ChallengeResult`,
  `ExpireAuthorization`, `Receive`, `Crash`, `Tick`.

`Faults` selects what may go wrong: a database call that raises ("db"), a hook that
raises ("hook"), a CA handler that raises or returns something unparsable ("ca"), and a
process that stops ("crash"). History variables (`claimed`, `asked`, `everOK`,
`reopened`, `lost`) record what properties talk about and are never read by an action.

Known behaviour: `_update_validity_list` (`order.py:1597`) writes `ready` without a
condition. A request reads `pending`, another one sets `ready`, claims the order and
enrolls; then the first writes `ready` over `processing` and the order is claimed again,
which `src/test/test_order.py:1758` ("Second concurrent finalize loses") does not expect.
`reopened` marks such orders; the properties hold for all others. After a join timeout
the name of the certificate is the word `timeout`; if the thread completes before the
answer is built, the answer contains `.../cert/timeout`, which leads to no certificate.
`UrlServesCertificate` says who can get it: only the finalize that gave up waiting, whose
own certificate is stored by then, so that the next answer about the order names it.

Abstracted: identifiers, profiles, owner and CSR checks are nondeterministic choices
between accepting and rejecting (`Issuance` has what they decide); `expired` and
`deactivated` authorizations are `invalid`, because the order code asks for `valid` only;
a database call is atomic, also where the handler reads a row before it writes it (`authorization_update`).

### Challenge

State: the authorization rows (`astatus`, `tokened` for those with a token), the
challenge rows (`cstatus`; a row is named by the view that created it and its type),
`offered` (challenges whose URL a client was told), and the locals of three kinds of
processes: the views of an authorization (`vpc`), the challenge requests (`pc`) and the
validation thread each request may start (`tpc`).

- view (`get_authorization_details`, `get_challenge_set_for_authorization`):
  `ReadAuthorization`, `LookupForToken` and `StoreToken` (the read and the write inside
  `authorization_update`), `FindChallenges`, `CreateChallenge` once per type.
- request (`process_challenge_request`): `Receive`, `ReadChallenge`, `HandleRequest`
  (ownership, payload of tkauth-01, status read before; starts the thread), `Join`,
  `Answer` with a fresh read.
- thread (`_perform_challenge_validation`): `MarkProcessing`, `ReadProfile`, then
  `CheckSourceAddress` if validation is disabled, otherwise `Attempt` up to
  `RetryLimit` times; `WriteChallenge`, `WriteAuthorization`; after an exception
  `FailChallenge`, `FailAuthorization`.
- environment: `Crash`.

`LookupForToken` covers both database handlers. wsgi reads the row and updates all its
columns later. django updates in a transaction, then saves the whole object again
(`Django = TRUE`: the token is stored with the first call). The other updates of both
handlers name the status they write, so one step with the last write stands for them.

What a validator finds is a choice among the results its type can report
(`ValidatorResults`). `http-01`, `tls-alpn-01` and `email-reply-00` can be inconclusive;
the dns validators decide at each attempt. History variables (`passed`, `overlapped`,
`reverted`, `lost`) record what properties talk about.

Known behaviour: two requests that both read `pending` both start a thread, and
`processing` is written over a result (`overlapped`), although the documentation starts a
validation only if none runs; `dns-01` is never retried, because its validator reports an
error together with `invalid`; the second save of django's `authorization_update` restores
the status read before (`reverted`).

Abstracted: the message check passes or fails; identifiers are one of five sorts; the
mail of an email challenge and the read-only GET of a challenge are left out. The branch
for an unsupported challenge type cannot be reached while the configuration stays the
same. Prevalidation is in `Order` and `Issuance`, the dns-persist validation during a view in
`Issuance`. `Order` takes the view's token write as one atomic step and lets challenge
results arrive at any time (`ChallengeResult`); `Challenge` has the detail of both.

### Nonce

`table` and `created` are the rows, `boot[p]` the time process `p` imported `nonce.py`.
Requests are `newnonce` (cleanup, then a new nonce), `post` (consume, then a new nonce)
and `cleanup` (at start-up). `Restart` loses the requests of a process. `Validity` is
the configured one; `DefaultValidity` is what an object has whose configuration was not
loaded, which is the case in `newnonce` of the wsgi server. Of a POST only the nonce is
modelled: later checks do not give it back.
The values of `uuid4` never repeat. Known behaviour: the default argument
`timestamp=uts_now()` of the cleanup is evaluated at import, so that it removes what was
outdated when the process started.

### Account

One action is one database call. A registration checks the
credentials (`CheckRegistration`), looks for the key (`FindKey`) and inserts
(`AddAccount`); every other signed request runs `CheckEab`, which may deactivate the
account before `CheckSignature`; deactivation, contact update and rollover are a read and
a write of the row (`UpdateRead`, `UpdateWrite`). wsgi writes all columns of the active
row it read; django updates the named ones and saves the whole object once more.
`Backends` lets a behaviour choose either. A row keeps its key as a text, the JSON of
the jwk with its members in the order the client sent them (`Jwks`, of which a key of
`Keys` has several: `KeyIn`), and is looked up by that text. A deactivated account has the
text `DEACTIVATED <reason> <second>`. History: `meant` (what completed writes meant),
`shown` (texts that signed for an account), `asked` and `unbound` (causes of a
deactivation), `raced` and `overlapped` (texts and rows two requests wrote at a time).

Known behaviour: a key sent with its members in another order is another text
(`account.py:338`, `500`, `702`, `746`), so that a second registration makes a second
active account of the same key, without any race, and neither `onlyReturnExisting` nor the
check of a rollover finds the first one. Signatures are not affected: the account is found by
its name and its key parsed from the text. `OneAccountPerKey` says how far uniqueness goes: two
active accounts of one key keep it as different texts, or stored the same text in a race.
Besides, two deactivations in the same second take
the same key, which the unique column of wsgi refuses with an exception; with django a
deactivated account raises a JSON error when it is shown; a registration with a known
key updates the contact with wsgi only. The wsgi handler searches keys with LIKE, which
is modelled as equality.

### Certificates

`row` is the certificate table, one row per CSR. `Thread(r)` is the enrollment thread of
a row with the search for a certificate to reuse, `Tool(j)` the cleanup, purge, date
update, the completion of old rows by renewal information and the poll tool, `Serve(j)`
the requests download, revoke and replaced. `certificate_add` is two database calls.
Rows can change between the selection of a tool and each of its writes. `overlapped` has
the rows for which a write fell between a read and the write that follows from it.

The invariant is inductive. `WorkInv` says what each process may be about to write and to
which row, `EarlyInv` that nobody works on a row before its CSR is stored and nobody polls
for it before it was enrolled, `RecordsFit` that certificate, raw form and owner belong
together in every row and in every copy that is still to be written back. `Calm` holds for
a row that is not in `overlapped`: its dates are those of its certificate, a tool that
selected it knows it as it is, and an unfinished write takes nothing from it that is still
valid. Without that condition it is false: a cleanup, a completion of old rows, two polls and the
late saves of django can leave a row with a certificate and the dates of another state of
it, so that not only rows of older versions lack their dates.

Known behaviour the model has: with wsgi, the first renewal information request sets
the dates of old rows to 0 (`renewalinfo.py:286`, `wsgi_handler.py:290`), and an exception
ends it before it is noted as done; a cleared row with such dates ends the whole date
update; a row purged while it is enrolled is stored again for order 0, whose own order
becomes valid without certificate; reuse in the second of expiry may pick the text that
cleanup wrote instead of a certificate; a download of a cleared row answers that text
with 200; reuse does not ask whether the certificate was revoked.

### LocalCa

Both handlers sign themselves and are called from any thread without a lock. openssl:
the lists and the validity within the chain (`EnrollOpenssl`), the file, and for a
revocation `LoadCrl`, `Truncate` and `WriteCrl`. xca: item, request, item, certificate in
transactions of their own; a revocation searches and inserts. `Stop(c)` ends a call
anywhere. Time is in half days, because the code rounds to days and compares a local
clock with UTC. Serial numbers are random; a certificate is named by its call. The
earliest end of the chain is a recursive function over it (`Soonest`).

The invariant is inductive: the steps each kind of call goes through (`PhaseInv`), the
file that only a revocation leaves unreadable (`TornByCall`), what is on record
(`IssuedIsRecorded`, `RowsRefer`, `RequestsByTwo`), and that a revocation which nobody
overlapped has taken over every confirmed entry (`OverlapNoted`, `ListTakenOver`).

The lists are compared with what `csr_san_get` and `csr_cn_get` return (`Checked`): DNS
names, IP addresses, e-mail addresses and the first common name. The signature takes over all
names of the CSR (`Csr` has the kinds of names).

Known behaviour: of two overlapping revocations the later file has one entry less. Names of
other types, such as URIs, and further common names are in the certificate although nobody held
them against the lists (`csr.py:95`, `openssl_ca_handler.py:877`); `IssuedWithinPolicy` is about
the names that are read. An unreadable list, allowed or blocked, does not block all names, as
the log says: it becomes the regular expression `block.all`, which is searched for anywhere in
a name (`openssl_ca_handler.py:396`, `408`, `636`), so names that contain it pass
(`BlockAllNames`); it also drops the allowed list that could be read. The deprecated whitelist,
read later, overrides both lists. A SAN with a colon (IPv6) is refused where there is a list. A CA with less than a day left is taken for none
(`openssl_ca_handler.py:746`), while `docs/openssl.md:70` promises a validity within all
CAs of the chain. Not modelled: encoding, templates, the check of the chain file.

### CaExchange and RemoteCa

`CaExchange` has the CA (its requests in order, its decisions), calls that may arrive
without an answer and are repeated up to `Retries` times (`network.py:903`) or, by acme, once
(`Attempts`), and what the server does with the five kinds of results of `enroll`. `RemoteCa` has for each handler
what it looks up before it submits (`Prepare`), how it submits, how it follows a pending request
(up to `Rounds` questions), what `poll`, `trigger` and `revoke` do. `handler` is chosen
initially. `lost` counts submissions whose answer was lost, `excused` the calls that missed
something the CA knows (`Missed`). The requests of the CA are called `received`.

The invariant is inductive. By order it says what the rows hold (`OrderFits`), that a call
follows a request of its own order and how many the order has (`CallFits`), and that what
a handler is about to return describes that request (`AnswerFits`); `KeyFits` describes
the calls of acme between reading and writing the key file, `RevokeFits` a revocation.

Known behaviour: certifier stores the page of the CA as poll identifier when a submission
is answered without body, and looks for a key in the text of an error, so that a
revocation that got no answer is answered with 200; handlers without poll (entrust, nclm,
openxpki, dogtag, msicpr) leave the order of an undecided request in processing; with
digicert without chain and with a pending mscertsrv request the order is invalid though
the CA may issue later; a bundle of one certificate cannot be stored; two first
enrollments of acme can leave the key of one with the account of the other; acme sends
`newOrder` a second time, without profile, after any exception, also when none was configured or
when the first one arrived and only its answer was lost (`acme_ca_handler.py:650`), which
leaves a second order at the CA (counted in `lost`); a repeated
revocation that was carried out is answered with an error; an acme order counts as
validated when any of its authorizations is. Storing and polling are single steps here;
`Order` splits them.

### ProcessState

The download of an http-01 challenge replaces urllib3's connect function and puts back
what it found (`network.py:530`), other downloads narrow the address family and widen it
again (`network.py:345`), mscertsrv sets `KRB5_CONFIG` and puts it back
(`mscertsrv_ca_handler.py:490`), and it and msicpr keep Kerberos tickets in temporary
files. Each read and each write of these is a step. `Restart` starts the process anew.
History: `crossed` and `mixed` (two calls were inside at once), `shaken` (calls that ran
during the download of another one), `stuck` (files that could not be removed).

Known behaviour: of two downloads that overlap, each may be connected to the other's
address, against the docstring `network.py:497-499`; in one order of their steps both
variables keep a pinned function, and then every connection of the process ends in a
recursion until a restart (theorem `NeverRestored`). An exception of the credential check
of mscertsrv leaves the ticket file. Not modelled: redirects that are followed with the
pinned function, `txt_get`'s change of the default DNS resolver. One request stands for
the four of certsrv.

### Identifiers, Configuration, Validators, Issuance

Names are sequences of labels and separators, so that prefix and suffix comparison is
the code's. `Identifiers` has the matching of patterns, the policy of newOrder and the
comparison of a CSR with its order (strict, loose, TN lists). `Configuration` has how
lists, profiles and the sections of an account's EAB profile combine, including lists
that cannot be read and parameters that raise. `Validators` has the challenge set of an
identifier, what each validator makes of an answer, the source address check and
prevalidation. `Issuance` is a state machine whose steps are whole requests, each stopped
after any of its database writes: `NewOrder`, `ViewJustInTime`, `View`, `Validate`,
`Poll`, `RejectFinalize`, `Finalize`, and the thread `Enroll`, which looks everything up
again by the CSR. The configuration is fixed in a behaviour (`case`); only the key file
may be unreadable at each look-up. `basis` records why an authorization is valid.

Known behaviour: account and profile come from the oldest row with the same CSR, the
header field from the newest. The pattern `*.a` matches the wildcard name `*.ba`, because
the bases of wildcards are compared without a label boundary (`domain_utils.py:37`). The check at
the first view (dns-persist, `dns_persist_jit_validation`) gets the name without `*.` and so
never asks for the wildcard policy: a record of the base makes the wildcard valid, whatever
its policy and the configuration say, although `docs/dns-persist-01.md:29` says that it is off
by default and `:55` that the usual checks apply. Such an authorization has the basis
`base`, and `NamesAuthorized` names the case; the run reaches it (`Persist(TRUE)`). A view
that validates sets the order to ready whatever its state. Loose binding ignores the
common name, TN orders compare only the extensions. An unreadable key file makes the
general configuration apply; EAB profiling without a handler refuses every submission;
an unreadable domain list allows no name; a single configured profile replaces an unknown
one. The comparison sees what `csr_san_get` and `csr_cn_get` return (`SansRead`, `CnRead`): SANs of
other types, common names after the first and, when the extensions cannot be parsed, all
SANs are submitted to the CA uncompared (`csr.py:38`, `csr.py:95`), and so are empty names;
`NamesAuthorized` is about the others, the run has CSRs of each kind (`Unread`), and the lists
of an EAB profile do not see these names either. A refused profile leaves a pending order without authorizations,
a CSR that does not fit and a dry run leave the order in processing.

## The runs

| Run | Question | Instance |
|---|---|---|
| `race` | does the claim admit one finalize, and none after expiry? | two finalize requests, one identifier, database faults |
| `tools` | does a valid order have its certificate, whoever sets it valid? | finalize, poll, poll tool or trigger, all faults |
| `live` | is the CA asked only for authorized orders, and every request answered? | two identifiers, one prevalidated, a finalize and an authorization request, idempotent finalize, CA and database faults, weak fairness |
| `nonce_replay` | is a nonce accepted once and refused only for a cause? | django, two processes, three nonces, clock to 2, all faults; also the refinement |
| `challenge_race` | does valid rest on a validation, and does the authorization agree with its challenges? | one wildcard authorization, two views, two requests, database faults and crashes |
| `challenge_accounts` | can one account validate for another, and does a challenge leave processing? | email and tnauthlist authorizations of two accounts, EAB profiles, sectigo simulation, five attempts, database faults, weak fairness of the threads except where they wait for a peer without timeout |
| `account` | how far do keys stay unique, do updates stay, have deactivations a cause? | two registrations of one key in two texts, two requests of any other kind, credentials removed at any time, database and EAB faults, both handlers |
| `certificates` | do rows keep the certificates, owners and marks they should? | a new and an old row with one CSR, owners equal or not; cleanup, purge or replacement against date update, completion, poll tool, download or revocation; database faults, both handlers |
| `ca_local` | do certificates and revocations stay on record, within lists and chain? | two enrollments, three revocations, any of them stopped anywhere; all kinds of lists; pairs of CAs with a long, short or past life; clocks on both sides of UTC |
| `ca_remote` | which request belongs to which order, what is forgotten, what does a confirmed revocation mean? | two orders, one revocation, each of the handlers, one retry, one round of waiting |
| `process` | does a call leave the process as it found it, and reach its own peer? | three calls of any kind, two addresses, four Kerberos configurations, restarts |
| `issuance` | are submitted names authorized, and lists and profiles kept? | one or two orders under thirteen deployments that between them switch every setting, with the identifiers, CSRs and answers that tell its settings apart |

All of them pass. `PROJECT.json` has for every property a change of a modelled definition,
as a plausible bug would make it, that TLC finds with the same configuration.

**Bounds.** Orders do not share rows, so one order shows every interleaving of its
requests; two requests suffice for a race and for a stale write, and the poll tool adds
a third actor. The clock takes two values (`MaxTime = 1` with validities of 1), enough
for an order or authorization to expire between any two steps. Two processes and three
nonces let a nonce be used, reused and cleaned up with the responses of the requests
themselves; with a clock to 2 and a validity of 1 they outlive it between any two steps.
Authorizations share no rows, and a challenge request touches one challenge and
one authorization: two requests give two threads on one challenge or on two of the same
authorization, two views a late token write and two challenge sets. `RetryLimit` is 5 as
in the code. Accounts meet in the text of a key only: two registrations of a key, with the same text or another, and two other requests
give each pair of writers, and a third as bystander. A row of the certificate table is
read and written by its thread and at most two tools at a time; the second row shares its
CSR and may be reused. Three revocations make two on the file and one that finds their
result. Remote requests of different orders meet in the list of the CA and in the key file
of acme only, so two orders suffice; one retry shows a lost and a repeated submission, one
round a request that is and one that is not decided in time. Three calls of a process
make a bystander of two that overlap, which meets what they leave. In `issuance`, two orders meet in the CSR only; `MaxRows = 2`
bounds the accepted finalize requests. Interchangeable requests are symmetric in the
safety runs. Deadlock is not checked because a behaviour ends when all requests are
answered.

**Fairness.** `FairSpec` assumes weak fairness of `Serve(r)`: a worker that can take its
next step takes it. Nothing is assumed of the CA, the threads, the clients or the tools.
The wait for the enrollment thread has a timeout in the code
(`join(timeout=enrollment_timeout)`), so `JoinTimeout` is enabled whenever the thread has
not ended; that is why `EveryRequestAnswered` holds although the thread may never end.
The result needs an enabled enrollment timeout (the default).

`ThreadSpec` of `Challenge` assumes that validation threads go on, except where they wait
for a peer that no timeout gives up (`Waits`). The lookups of the dns validators and of
the address check end with the lifetime of the resolver, and tkauth-01 asks nobody. The
TLS connection of tls-alpn-01 (`network.py:701`) and the connection to the IMAP server
(`email_handler.py:243`) have no timeout, and the timeout of http-01 bounds the silence
of a web server, not the length of its answer: no step of these attempts is assumed.
`ProcessingEnds` therefore says that a challenge leaves processing, or a thread waits for
such a peer for ever (`[]Stuck`). It also exempts authorizations a fault concerned: after a
second database error nothing takes the challenge out of processing.

The other modules state no liveness: nothing in the code makes a poll tool, a housekeeping
job or a CA go on.

## What is proved

Each theorem holds for any values of the constants that meet the named assumption of its
module: any numbers of requests, orders, accounts, calls, any configuration and faults.

`OrderProofs`, from `OrderAssumption`:

- `OrderInvariant`: `Spec => []OrderInv`. The invariant is `TypeOK` with
  `RequestsKnown` (requests serve orders whose creation was completed), `ClaimsKept` (a
  claimed order has left pending and ready, or was reopened), `ExpirySeen` (a request
  past the expiry check cannot claim an expired order), `EnrollAuthorized`,
  `RowsOfSubmitted` (no certificate row, thread or answer before the CSR),
  `StoredBeforeValid` (whoever may set the order to valid next has stored its
  certificate, or the database lost it) and `RowsOfClaimed` (rows belong to requests that
  claimed the order, and an answer names a row of its own order).
- `ClaimsExclusive`, `NoExpiredClaim`, `OnlyAuthorizedIssue`: none of these is inductive
  alone. A second claim needs the status `ready`, which `ClaimsKept` excludes; a claim of
  an expired order needs a request that passed the check, which `ExpirySeen` describes;
  the CA is called by a thread whose request checked the authorizations earlier, which
  `EnrollAuthorized` remembers.
- `CertificatesKept`: `[][...]_vars` from the invariant, because the only action that
  takes a row back to "csr" is taken by a request without a row (`RowsOfSubmitted`).
- `ValidCertificates`: `ValidHasCertificate`. The four writers of `valid` (`MarkValid`,
  the thread, poll tool and trigger) are the issuers `StoredBeforeValid` describes, and a
  stored certificate stays.
- `UrlsServe`: `UrlServesCertificate`, the answer `.../cert/timeout` included. A request reads the status, the row and the
  authorizations in separate steps; when it has read `valid`, the row it names is the one
  with the certificate, because by `ClaimExclusive` an order that was not reopened has one
  row only (`ValidServed`).

The arguments share two lemmas: `StatusStep` says how any step changes the status of an
order, `RequestStep` how it changes the locals of a request.

`NonceProofs`, from `NonceAssumption`: `NonceInvariant` (an accepted nonce was drawn and
is not in the table; values are drawn once), `UsedOnce`, and `Refinement`: every step of
`Nonce` is a step of `OneTimeToken` or leaves its variables alone, where `live` is the
table and `spender` the accepted requests. `Refusals` proves `RefusedForCause`: a drawn value
that is in no row has its cause, and a row a cleanup has found is old for it
(`GoneForCause`); a cause once there never goes away (`CauseKept`).

`ChallengeProofs`, from `ChallengeAssumption`:

- `ChallengeInvariant`: `Spec => []ChallengeInv`.
- `ValidShown`: `ValidWasShown` is not inductive alone. A thread writes its verdict long
  after its request was checked, so `ThreadInv` keeps that it runs for the holder of its
  target and that the verdict `valid` comes from its own validation; a view writes back a
  status it read earlier, so `SeenWasShown` says that this status was justified as well.
  The justification is a history that only grows (`passed`), which is why it survives
  overwritten rows.
- `SettledAgreement`: `SettledAgrees`, through `Calm`: an undisturbed authorization has one
  thread at a time, which wrote its challenge before it writes the authorization, and
  agrees with its challenges while no thread has begun to write. `RowsKept` (a row is
  created once, before anyone is told of it) is why a view cannot reset the challenge.
- `ProcessingWorkedOn`: only `MarkProcessing` writes `processing`, and the same thread
  leaves `Working` by writing a result to that challenge, or by a fault.

`AccountProofs`, from `AccountAssumption`: `AccountInvariant` and the four properties of the
run. An update writes what it read earlier, so `SnapshotFits` says what its copy has in
common with the row as long as no other update overlaps, and that the key and the cause in
the copy were shown already; `UnknownOrRaced` says that a text a request did not find is
still unknown, or that two requests store it; `OneAccountPerJwk` is uniqueness of texts, from which
`OneAccountPerKey` follows.

`ProcessProofs`, from `ProcessAssumption`: `ProcessInvariant`, `PeersOwn` and `NeverRestored`.
The invariant says who may have left its function in `create` and `orig`: while one
download is inside, the saved function is urllib3's; only after two crossed may it be that
of a call, and then no step of a call brings urllib3's back.

`IssuanceProofs`, from `IssuanceAssumption`: `IssuanceInvariant`, `NamesAlwaysAuthorized` and
`PolicyAlwaysKept`. newOrder is the only step that fills in an order; all others keep its
identifiers and account and only add reasons (`RequestKeeps`). So what was compared when a
certificate row was made still holds when it is submitted (`RowFits`), and a submission
that found its own row by the CSR has its own grant (`SentFits`, `LooksUpItself`). Of the
operators on names the proofs need only that an accepted identifier has a value, and that the
check at the first view sees a plain name as it is (`RecordOfBase`).

`CertificatesProofs`, from `CertificatesAssumption` (any rows, owners, CSRs and tools):

- `CertificatesInvariant`: `Spec => []CertificatesInv`. Each step is one of a thread, a tool
  or a request, and writes one row at most. `Frame` says what it leaves to all other
  processes and rows, `WritesRow` how it changes its own; a step that writes a row another
  process knows puts the row into `overlapped`, where `Calm` asks nothing any more.
- `CertificatesFit`: `CertificateFits`. A certificate comes to a row from the CA, by reuse
  after account and key were compared, or by a late write of a copy; `RecordsFit` covers
  the copies. What was served or revoked went through the comparison of owners.
- `IssuedKept`, `ReplacedKept`: no invariant of the rows alone suffices, because a cleanup
  decides by dates it read before and writes all columns back. `Calm` carries the decision
  to the write: the certificate it removes has expired, and the mark `replaced` it
  writes is the one of the row.

`CaProofs`, the local CAs, from `LocalCaAssumption` (any number of calls, names and CAs):

- `LocalCaInvariant`: `LocalCaInv` with `RevokedIsListed`, by the phases of a call.
  `RevocationsStay` follows: openssl reads the list, truncates the file and writes it, and
  the entries confirmed meanwhile are exactly those the call noted as contended or has in
  its copy.
- `PolicyHolds`: what was signed passed the comparison with both lists at the moment it was
  signed, and neither changes (`PassedIsAllowed`; with an unreadable list the names it reads are
  those `block.all` is found in).
- `ValidityHolds`: by induction over the chain, `Soonest[i]` ends no later than any of its
  first `i` CAs, and half days are rounded in the right direction. The induction is stated
  for sets of naturals (`NatSetInduction`), from well-foundedness of `<`.

`CaProofs`, the remote CAs, from `ExchangeAssumption` (any of the handlers, any orders,
revocations, retries and rounds):

- `RemoteInvariant`: `RemoteSpec => []RemoteInv`. A step of one order leaves the others
  alone except for decisions of the CA, and a decision takes nothing back (`OthersSafe`,
  `DecidedStays`). What a handler returns is treated once for all handlers (`Fitting`,
  `Answered`): each handler owes only that its answers describe what it was shown. The
  lemmas `DirectKept`, `CertifierKept`, `DogtagKept`, `NclmKept` and `OpenxpkiKept` pay that.
- `RequestsBounded`: `OneRequest`, by counting the requests of an order against lost answers
  and the identifier the call holds.
- `RequestsRemembered`: `NothingForgotten`. When the answer is stored (`StoreKept`), the
  request that `AnswerFits` describes goes into the row, and by `CallFits` it is the only
  one of the order, unless an answer was lost; poll and trigger replace an identifier by its
  certificate only (`LaterKept`).
- `AccountOfKey`: `AccountFitsKey`, from `KeyFits`.
- `RevocationsCarriedOut`: `RevocationAnswered`, by the codes each handler can answer with
  (`CodesFit`): only certifier has 200 among those for a missing answer.

Only model-checked: the liveness properties `EveryRequestAnswered` and `ProcessingEnds`, which
are beyond the prover.

## Plan

Done: `Order`, `Nonce` with `OneTimeToken`, `Challenge`, `Account`, `Certificates`, `LocalCa`,
`CaExchange` with `RemoteCa`, `ProcessState`, `Identifiers`, `Configuration`, `Validators` and
`Issuance`, with their runs; proofs about `Order`, `Nonce`, `Challenge`, `Account`,
`ProcessState`, `Issuance`, `Certificates`, `LocalCa` and `RemoteCa`.

Left, in this order:

1. Lemmas about the operators of `Identifiers` and `Configuration` (what an accepted CSR
   says about the identifiers of its order, what a profile may override).
2. Who may complete an order, `RemoteCa` and `Order` together: that the answers of `RemoteCa`
   are among those `Order` assumes of a CA.
3. The window of renewal information as an operator, with its reference definition.
4. The challenge provisioning of the acme handler.

## Not modelled

- Inputs from outside are choices: answers of DNS, web and mail servers, decisions of CAs,
  files of the operator. Proxies, TLS, encodings, key and certificate parsing are left out.
- The directory, reports, logging, the formatting of answers, the web applications beyond
  their newnonce handlers and start-up change none of the modelled state.
- The command line tools (clients, migration of a database from wsgi to django, schema
  updates) run outside the server.
- CA handlers: login, encoding of requests, synchronization of profiles, the reporting
  functions of entrust, the challenge provisioning and renewal information of acme.
- Revocation by an account that holds the names of a certificate without owning it: the
  comparison with its authorizations is a choice.
- An order that stays in processing (a CSR that does not fit, a failing pre hook, a dry run, a
  handler without poll) contradicts nothing the repository states, so no property is about
  it; the same holds for two challenge sets of one authorization.

`PROJECT.json` lists every component with its status.
