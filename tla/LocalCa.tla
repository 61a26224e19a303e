------------------------------ MODULE LocalCa ------------------------------
(***************************************************************************)
(* The two CA handlers that sign certificates themselves.  openssl keeps   *)
(* issued certificates as files and revoked ones in a CRL file it reads,   *)
(* truncates and writes again; xca keeps both in the tables of an XCA      *)
(* (sqlite) database, each statement a transaction of its own.  Neither    *)
(* takes a lock, and the server calls them from any thread or process.     *)
(*                                                                         *)
(* A certificate is named after the call that signed it: serial numbers    *)
(* are random uuids.  Time is in half days, since the code compares days   *)
(* it has rounded down, in a local clock, with dates in UTC.               *)
(***************************************************************************)
EXTENDS Integers, Sequences, SequencesExt

CONSTANTS
    Enrollers, Revokers,  \* calls of enroll and of revoke
    Csrs,                 \* CSRs, see Csr
    Confs,                \* configurations, see Conf
    Names,                \* domain names
    BlockAllNames,        \* those the regular expression block.all is found in
    NoName, Absent, Unparsable, NoCall

Callers == Enrollers \cup Revokers
Serials == Enrollers

\* A name in the CSR: one with a colon (an IPv6 address) does not split; other
\* ones, all but DNS names, IP addresses and e-mail, nobody reads, and a second CN
\* is like them.  csr_san_get returns the rest in this order.
San  == [name : Names, kind : {"plain", "colon", "other"}]
Csr  == [sans : Seq(San), cn : Names \cup {NoName}]
\* The options of acme_srv.cfg.  A list of domains is a set of names it matches.
Lists == (SUBSET Names) \cup {Absent, Unparsable}
Conf == [handler : {"openssl", "xca"},
         allowed : Lists, blocked : Lists, whitelist : Lists, blacklist : Lists,
         days : Nat, adjust : BOOLEAN,
         chain : Seq(Int),         \* ends of chain and issuer, in half days
         zone : {-1, 0, 1}]        \* local clock minus UTC, in half days

ASSUME LocalCaAssumption ==
    /\ Enrollers \cap Revokers = {} /\ NoCall \notin Callers
    /\ NoName \notin Names /\ BlockAllNames \subseteq Names
    /\ Absent # Unparsable /\ \A list \in SUBSET Names : list \notin {Absent, Unparsable}
    /\ Csrs \subseteq Csr /\ Confs \subseteq Conf
    /\ \A c \in Confs : c.chain # <<>>

VARIABLES
    conf,
    files,                \* openssl: certificates in cert_save_path
    crl,                  \* openssl: the CRL file, [state, listed]
    items, requests, certs, revocations,      \* xca: the tables
    pc, csr, cert, rowId, target, snap,       \* locals of the calls
    \* history, never read by the program:
    signed, served,       \* certificates signed, certificates answered
    acked,                \* how often the revocation of a serial was confirmed
    contended,            \* serials whose revocation overlapped another one
    together              \* CSRs two calls imported at the same time

tableVars == <<items, requests, certs, revocations>>
localVars == <<csr, cert, rowId, target, snap>>
ghostVars == <<signed, served, acked, contended, together>>
vars == <<conf, files, crl, tableVars, pc, localVars, ghostVars>>

NoCsr   == [sans |-> <<>>, cn |-> NoName]
NoCert  == [end |-> 0, csr |-> NoCsr]
Openssl == conf.handler = "openssl"

Init ==
    /\ conf \in Confs
    /\ files = {} /\ crl = [state |-> "none", listed |-> {}]
    /\ items = <<>> /\ requests = {} /\ certs = {} /\ revocations = <<>>
    /\ pc = [c \in Callers |-> "idle"]
    /\ csr = [e \in Enrollers |-> NoCsr] /\ cert = [e \in Enrollers |-> NoCert]
    /\ rowId = [e \in Enrollers |-> 0]
    /\ target = [r \in Revokers |-> NoCall] /\ snap = [r \in Revokers |-> {}]
    /\ signed = {} /\ served = {} /\ acked = [s \in Serials |-> 0]
    /\ contended = {} /\ together = {}

-----------------------------------------------------------------------------
(* openssl: which CSR it signs                                             *)

\* An unreadable list, allowed or blocked, makes the allowed list the regular
\* expression block.all, which is found in some names; the deprecated options are
\* read later and overrule.
BlockAll == [set |-> TRUE, names |-> BlockAllNames]
Loaded(list, old) ==
    IF list = Absent THEN old
    ELSE IF list = Unparsable THEN BlockAll
    ELSE [set |-> list # {}, names |-> list]
NoList == [set |-> FALSE, names |-> {}]
AllowedList ==
    LET allowed == Loaded(conf.allowed, NoList)
        blocked == IF conf.blocked = Unparsable THEN BlockAll ELSE allowed
        white   == Loaded(conf.whitelist, blocked)
    IN  IF conf.blacklist = Unparsable THEN BlockAll ELSE white
BlockedList ==
    LET Read(list, old) == IF list = Unparsable THEN old ELSE Loaded(list, old)
    IN  Read(conf.blacklist, Read(conf.blocked, NoList))

\* what csr_san_get returns, what of it splits, and the names a CSR is judged by
ReadSans(c) == {i \in DOMAIN c.sans : c.sans[i].kind # "other"}
Parsed(c) == {i \in DOMAIN c.sans : c.sans[i].kind = "plain"}
Checked(c) == {c.sans[i].name : i \in Parsed(c)} \cup ({c.cn} \ {NoName})
\* An empty list lets every name pass
InList(n, list) == ~list.set \/ n \in list.names
NamePasses(n) ==
    /\ InList(n, AllowedList)
    /\ BlockedList.set => ~InList(n, BlockedList)
\* variant with a bug: a SAN that does not parse is not held against the CSR
CsrPassesParsed(c) ==
    AllowedList.set \/ BlockedList.set => \A n \in Checked(c) : NamePasses(n)
CsrPasses(c) ==
    AllowedList.set \/ BlockedList.set =>
        /\ Checked(c) # {}
        /\ ReadSans(c) = Parsed(c)
        /\ \A n \in Checked(c) : NamePasses(n)

-----------------------------------------------------------------------------
(* openssl: how long a certificate is valid                                *)

Days(end) == (end - conf.zone) \div 2
\* Days to the end of the CA that expires first, and that end.  0 days also
\* stands for "none seen so far"; variant with a bug: takes the CA that expires
\* last
Later(best, end) ==
    IF best.days = 0 \/ Days(end) > best.days
      THEN [days |-> Days(end), end |-> end] ELSE best
Sooner(best, end) ==
    IF best.days = 0 \/ Days(end) < best.days
      THEN [days |-> Days(end), end |-> end] ELSE best
\* of the first i CAs of the chain
Soonest[i \in 0 .. Len(conf.chain)] ==
    IF i = 0 THEN [days |-> 0, end |-> 0] ELSE Sooner(Soonest[i - 1], conf.chain[i])
CaExpiry == Soonest[Len(conf.chain)]
CertEnd ==
    IF conf.adjust /\ CaExpiry.days < conf.days THEN CaExpiry.end ELSE 2 * conf.days

-----------------------------------------------------------------------------
(* enroll                                                                  *)

Goto(c, label) == pc' = [pc EXCEPT ![c] = label]
Sign(e, c, end) ==
    /\ cert' = [cert EXCEPT ![e] = [end |-> end, csr |-> c]]
    /\ signed' = signed \cup {e}

\* config check, CSR check and signing touch nothing shared
EnrollOpenssl(e) ==
    /\ Openssl /\ pc[e] = "idle"
    /\ \E c \in Csrs :
          /\ csr' = [csr EXCEPT ![e] = c]
          /\ IF CsrPasses(c) THEN Sign(e, c, CertEnd) /\ Goto(e, "store")
             ELSE Goto(e, "refused") /\ UNCHANGED <<cert, signed>>
    /\ UNCHANGED <<conf, files, crl, tableVars, rowId, target, snap, served, acked,
                   contended, together>>

StoreFile(e) ==
    /\ Openssl /\ pc[e] = "store"
    /\ files' = files \cup {e} /\ Goto(e, "bundle")
    /\ UNCHANGED <<conf, crl, tableVars, localVars, ghostVars>>

\* chain files or chain rows are read and the certificate is returned
Bundle(e) ==
    /\ pc[e] = "bundle"
    /\ served' = served \cup {e} /\ Goto(e, "done")
    /\ UNCHANGED <<conf, files, crl, tableVars, localVars, signed, acked, contended,
                   together>>

\* xca names the request after the CN or the first SAN it reads
HasRequestName(c) ==
    c.cn # NoName \/ \E i \in Parsed(c) : \A j \in ReadSans(c) : i <= j
Importing(c) == {e \in Enrollers : pc[e] \in {"item", "request"} /\ csr[e] = c}
\* The CSR is looked up, and imported in two more transactions if it is new
EnrollXca(e) ==
    /\ ~Openssl /\ pc[e] = "idle"
    /\ \E c \in Csrs :
          /\ csr' = [csr EXCEPT ![e] = c]
          /\ Goto(e, IF ~HasRequestName(c) THEN "refused"
                     ELSE IF \E q \in requests : q.csr = c THEN "sign" ELSE "item")
          /\ together' = together \cup IF Importing(c) # {} THEN {c} ELSE {}
    /\ UNCHANGED <<conf, files, crl, tableVars, cert, rowId, target, snap, signed,
                   served, acked, contended>>

\* lastrowid of the insert
NewId == Len(items) + 1

ItemInsert(e, type) ==
    /\ items' = Append(items, type)
    /\ rowId' = [rowId EXCEPT ![e] = NewId]

ImportItem(e) ==
    /\ pc[e] = "item" /\ ItemInsert(e, "request") /\ Goto(e, "request")
    /\ UNCHANGED <<conf, files, crl, requests, certs, revocations, csr, cert, target,
                   snap, ghostVars>>

ImportRequest(e) ==
    /\ pc[e] = "request" /\ Goto(e, "sign")
    /\ requests' = requests \cup {[item |-> rowId[e], csr |-> csr[e]]}
    /\ UNCHANGED <<conf, files, crl, items, certs, revocations, localVars, ghostVars>>

\* xca signs for the configured days, whatever the CA's own end, and stores
SignXca(e) ==
    /\ pc[e] = "sign" /\ Sign(e, csr[e], 2 * conf.days)
    /\ ItemInsert(e, "cert") /\ Goto(e, "cert")
    /\ UNCHANGED <<conf, files, crl, requests, certs, revocations, csr, target, snap,
                   served, acked, contended, together>>

\* variant with a bug: an insert that is refused goes unnoticed
CertInsertUnchecked(e) ==
    /\ pc[e] = "cert" /\ Goto(e, "bundle")
    /\ certs' \in {certs, certs \cup {[item |-> rowId[e], serial |-> e]}}
    /\ UNCHANGED <<conf, files, crl, items, requests, revocations, localVars, ghostVars>>

CertInsert(e) ==
    /\ pc[e] = "cert" /\ Goto(e, "bundle")
    /\ certs' = certs \cup {[item |-> rowId[e], serial |-> e]}
    /\ UNCHANGED <<conf, files, crl, items, requests, revocations, localVars, ghostVars>>

-----------------------------------------------------------------------------
(* revoke                                                                  *)

Revoking == {r \in Revokers : pc[r] \in {"truncate", "write", "insert"}}
NoteOverlap(s) ==
    contended' = contended \cup
        IF Revoking = {} THEN {} ELSE {s} \cup {target[r] : r \in Revoking}
Confirm(r) ==
    /\ acked' = [acked EXCEPT ![target[r]] = @ + 1]
    /\ Goto(r, "done")

\* variant with a bug: the new CRL does not take over the old entries
CrlEntriesNone == {}

\* the serials the new CRL starts from
CrlEntries == crl.listed
\* Reads the CRL; one that is being written does not load, and raises
LoadCrl(r) ==
    /\ Openssl /\ pc[r] = "idle"
    /\ \E s \in served :
          /\ target' = [target EXCEPT ![r] = s]
          /\ NoteOverlap(s)
          /\ snap' = [snap EXCEPT ![r] = CrlEntries]
          /\ Goto(r, IF crl.state = "torn" THEN "failed"
                     ELSE IF s \in crl.listed THEN "refused" ELSE "truncate")
    /\ UNCHANGED <<conf, files, crl, tableVars, csr, cert, rowId, signed, served, acked,
                   together>>

\* open(..., "wb") empties the file
Truncate(r) ==
    /\ pc[r] = "truncate" /\ Goto(r, "write")
    /\ crl' = [state |-> "torn", listed |-> {}]
    /\ UNCHANGED <<conf, files, tableVars, localVars, ghostVars>>

\* of two writers the later one's content is read back
WriteCrl(r) ==
    /\ pc[r] = "write"
    /\ crl' = [state |-> "good", listed |-> snap[r] \cup {target[r]}]
    /\ Confirm(r)
    /\ UNCHANGED <<conf, files, tableVars, localVars, signed, served, contended, together>>

Revoked(s) == s \in Range(revocations)
SearchRevocation(r) ==
    /\ ~Openssl /\ pc[r] = "idle"
    /\ \E s \in served :
          /\ target' = [target EXCEPT ![r] = s]
          /\ NoteOverlap(s)
          /\ Goto(r, IF Revoked(s) THEN "refused" ELSE "insert")
    /\ UNCHANGED <<conf, files, crl, tableVars, csr, cert, rowId, snap, signed, served,
                   acked, together>>

InsertRevocation(r) ==
    /\ pc[r] = "insert"
    /\ revocations' = Append(revocations, target[r])
    /\ Confirm(r)
    /\ UNCHANGED <<conf, files, crl, items, requests, certs, localVars, signed, served,
                   contended, together>>

-----------------------------------------------------------------------------

Running == {"store", "bundle", "item", "request", "sign", "cert", "truncate", "write",
            "insert"}
\* An exception (disk full, database locked, CA not loadable) or a crash ends
\* a call between two of its effects; nothing is undone
Stop(c) ==
    /\ pc[c] \in Running /\ Goto(c, "failed")
    /\ UNCHANGED <<conf, files, crl, tableVars, localVars, ghostVars>>

Enroll(e) ==
    \/ EnrollOpenssl(e) \/ StoreFile(e) \/ Bundle(e)
    \/ EnrollXca(e) \/ ImportItem(e) \/ ImportRequest(e) \/ SignXca(e) \/ CertInsert(e)
Revoke(r) ==
    \/ LoadCrl(r) \/ Truncate(r) \/ WriteCrl(r)
    \/ SearchRevocation(r) \/ InsertRevocation(r)

Next ==
    \/ \E e \in Enrollers : Enroll(e)
    \/ \E r \in Revokers : Revoke(r)
    \/ \E c \in Callers : Stop(c)

Spec == Init /\ [][Next]_vars

-----------------------------------------------------------------------------
(* Properties                                                              *)

EnrollPc == {"idle", "store", "bundle", "item", "request", "sign", "cert", "done",
             "failed", "refused"}
RevokePc == {"idle", "truncate", "write", "insert", "done", "failed", "refused"}

\* Types and the calls that work on each handler's store.
TypeOK ==
    /\ conf \in Confs /\ files \subseteq signed
    /\ crl \in [state : {"none", "good", "torn"}, listed : SUBSET Serials]
    /\ crl.listed \subseteq served
    /\ items \in Seq({"request", "cert"}) /\ revocations \in Seq(served)
    /\ requests \subseteq [item : DOMAIN items, csr : Csrs]
    /\ certs \subseteq [item : DOMAIN items, serial : signed]
    /\ served \subseteq signed /\ signed \subseteq Serials
    /\ acked \in [Serials -> Nat]
    /\ contended \subseteq Serials /\ together \subseteq Csrs
    /\ pc \in [Callers -> EnrollPc \cup RevokePc]
    /\ csr \in [Enrollers -> Csrs \cup {NoCsr}]
    /\ cert \in [Enrollers -> [end : Int, csr : Csrs \cup {NoCsr}]]
    /\ rowId \in [Enrollers -> Nat]
    /\ target \in [Revokers -> Serials \cup {NoCall}]
    /\ snap \in [Revokers -> SUBSET Serials]
    /\ \A r \in Revokers : snap[r] \subseteq served
    /\ IF Openssl THEN items = <<>> /\ revocations = <<>> ELSE files = {} /\ crl.state = "none"

\* Which steps the calls of each handler go through, and what they know there.
EnrollPhase(e) ==
    /\ pc[e] \in EnrollPc
    /\ pc[e] \in {"item", "request", "sign", "cert"} => ~Openssl /\ csr[e] \in Csrs
    /\ pc[e] = "store" => Openssl
    /\ pc[e] \in {"store", "bundle", "cert"} => e \in signed
RevokePhase(r) ==
    /\ pc[r] \in RevokePc
    /\ r \in Revoking => target[r] \in served
    /\ IF Openssl THEN pc[r] # "insert" ELSE pc[r] \notin {"truncate", "write"}
PhaseInv ==
    /\ \A e \in Enrollers : EnrollPhase(e)
    /\ \A r \in Revokers : RevokePhase(r)

\* The CRL file is unreadable only from the truncation by a call to a write.
TornByCall ==
    crl.state = "torn" => \E r \in Revokers : pc[r] \in {"write", "done", "failed"}

Recorded(s) == IF Openssl THEN s \in files ELSE \E t \in certs : t.serial = s
\* A certificate that was handed out is on record: as a file, or as a row of
\* certs with an item, whatever stopped in between.
IssuedIsRecorded ==
    /\ \A s \in served : Recorded(s)
    /\ \A e \in Enrollers : pc[e] = "bundle" => Recorded(e)

\* Rows of the XCA database refer to items of their own kind, no two to the same
\* one; so will the row a call is about to write.
RowsRefer ==
    /\ \A q \in requests : items[q.item] = "request"
    /\ \A t \in certs : items[t.item] = "cert"
    /\ \A t, u \in certs : t.item = u.item => t = u
    /\ \A e \in Enrollers :
          /\ pc[e] = "request" => rowId[e] \in DOMAIN items /\ items[rowId[e]] = "request"
          /\ pc[e] = "cert" =>
                /\ rowId[e] \in DOMAIN items /\ items[rowId[e]] = "cert"
                /\ \A t \in certs : t.item # rowId[e]
                /\ \A d \in Enrollers : pc[d] = "cert" /\ rowId[d] = rowId[e] => d = e

\* A CSR has two requests only when two calls imported it together.
RequestsByTwo ==
    /\ \A q, u \in requests : q.csr = u.csr /\ q # u => q.csr \in together
    /\ \A e \in Enrollers : e \in Importing(csr[e]) =>
          /\ \A q \in requests : q.csr = csr[e] => csr[e] \in together
          /\ \A d \in Importing(csr[e]) : d # e => csr[e] \in together

\* A serial that is being revoked twice is noted; of any other, the call knows all
\* that was confirmed before, and nobody confirmed it yet.
OverlapNoted ==
    \A r \in Revoking : target[r] \notin contended =>
        /\ Revoking = {r}
        /\ acked[target[r]] = 0
ListTakenOver ==
    \A r \in Revoking, s \in Serials :
        Openssl /\ acked[s] > 0 => s \in contended \cup snap[r]

\* The stores of both handlers are consistent wherever an enrollment or a
\* revocation stopped (_store_cert of xca, enroll and revoke of openssl).
LocalCaInv ==
    /\ TypeOK /\ PhaseInv /\ TornByCall /\ IssuedIsRecorded /\ RowsRefer
    /\ RequestsByTwo /\ OverlapNoted /\ ListTakenOver

StaysListed ==
    \A s \in Serials : acked[s] > 0 =>
        \/ s \in contended
        \/ IF Openssl THEN s \in crl.listed \/ crl.state = "torn" ELSE Revoked(s)

RevokedOnce == \A s \in Serials : acked[s] > 1 => s \in contended

\* A revocation the server confirmed stays on the CRL, or in the revocations
\* table, however many others follow: only one that overlapped it may take it
\* off again (CAhandler.revoke of openssl rewrites the whole file), and only
\* while the file is unreadable is it not listed.  It is confirmed once: the
\* second request learns that the certificate is revoked already, unless the
\* two overlapped.
RevokedIsListed == StaysListed /\ RevokedOnce

\* An unreadable list leaves only the names block.all is found in
WithinPolicy(n) ==
    /\ Unparsable \in {conf.allowed, conf.blocked} => n \in BlockAllNames
    /\ conf.allowed \notin {Absent, {}} /\ Unparsable \notin {conf.allowed, conf.blocked}
         => n \in conf.allowed
    /\ conf.blocked \notin {Absent, Unparsable} => n \notin conf.blocked
ReadNames(c) == {c.sans[i].name : i \in ReadSans(c)} \cup ({c.cn} \ {NoName})
CsrWithinPolicy(c) ==
    /\ \A n \in ReadNames(c) : WithinPolicy(n)
    /\ {conf.allowed, conf.blocked} \subseteq {Absent, {}} \/ ReadNames(c) # {}

\* Without the deprecated options, every DNS name, IP address, e-mail address and
\* first CN of a certificate openssl signs is one the lists allow, and where there
\* is a list, there is such a name (_csr_check).  It says nothing of other names:
\* they are copied into the certificate, although nobody held them against the
\* lists.
IssuedWithinPolicy ==
    \A e \in signed :
        Openssl /\ conf.whitelist = Absent /\ conf.blacklist = Absent =>
            CsrWithinPolicy(cert[e].csr)

\* cert_validity_adjust keeps a certificate within its chain to the day, as
\* long as no CA of the chain is in its last day.
ValidWithinChain ==
    \A e \in signed :
        Openssl /\ conf.adjust /\ (\A i \in DOMAIN conf.chain : Days(conf.chain[i]) # 0)
            => \A i \in DOMAIN conf.chain : cert[e].end < conf.chain[i] + 2
=============================================================================
