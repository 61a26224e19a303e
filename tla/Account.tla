------------------------------ MODULE Account ------------------------------
(***************************************************************************)
(* Accounts of acme2certifier: registration with external account binding  *)
(* (EAB), lookup of an existing account, deactivation, contact update and  *)
(* key rollover, and the check of every other signed request, which looks  *)
(* up the EAB credentials of the account and may deactivate it.            *)
(*                                                                         *)
(* One database call is one step.  An update of an account consists of two *)
(* of them with both database handlers: wsgi reads the active row and then *)
(* writes all its columns, django updates the named columns and then saves *)
(* the whole object once more.                                             *)
(***************************************************************************)
EXTENDS Integers, FiniteSets

CONSTANTS
    Requests,
    Jwks, Keys,          \* keys as clients write them down, and keys
    KeyIn,               \* the key a jwk writes down: the order of its members is free
    Kids,                \* key identifiers of EAB credentials
    Asks,                \* what a request may ask for, see Kinds
    JwkOf,               \* the jwk a request without account name embeds
    NewJwk,              \* the jwk a rollover request names
    Kid,                 \* the EAB credentials of a registration, or NoKid
    Backends,            \* database handlers of the deployments: TRUE is django
    EabCheck, EabStrict, EabLoaded, KidCheck, KidDeactivate,
    MaxTime,
    Faults,              \* what may go wrong: "db", "eab"
    NoAccount, NoKid

Kinds    == {"new", "existing", "deactivate", "contact", "rollover", "query",
             "other"}
Embedded == {"new", "existing"}   \* signed with the embedded key
\* The values the jwk column of a deactivated account takes: the word
\* DEACTIVATED, the reason and the time in seconds.
DeadJwks == {"own", "eab"} \X Nat

ASSUME AccountAssumption ==
    /\ Asks \in [Requests -> SUBSET Kinds]
    /\ KeyIn \in [Jwks -> Keys]
    /\ JwkOf \in [Requests -> Jwks] /\ NewJwk \in [Requests -> Jwks]
    /\ Kid \in [Requests -> Kids \cup {NoKid}]
    /\ Backends \subseteq BOOLEAN
    /\ {EabCheck, EabStrict, EabLoaded, KidCheck, KidDeactivate} \subseteq BOOLEAN
    /\ KidCheck => EabCheck
    /\ MaxTime \in Nat
    /\ NoAccount \notin Requests /\ NoKid \notin Kids
    /\ Jwks \cap DeadJwks = {}

Status    == {"none", "valid", "deactivated"}
RequestPc == {"idle", "register", "find", "add", "existing", "eab", "signature",
              "lookup", "newkey", "read", "write", "reread", "done"}

VARIABLES
    django, now,
    row, kid,        \* the account a registration created, named by its request
    store,           \* the credentials the EAB handler knows
    pc, asks, target, found, snap, answer,       \* locals of a request
    evicting,        \* requests that deactivate the account for its credentials
    told,            \* account names clients were told
    \* history, never read by the program:
    meant,           \* rows as the completed writes meant them
    shown,           \* jwks that signed a registration or rollover, per account
    asked, unbound,  \* accounts: deactivation signed, credentials not found
    raced,           \* jwks two requests were storing at a time
    overlapped       \* accounts written while another update was under way

rowVars   == <<row, kid>>
localVars == <<asks, target, found, snap, answer, evicting>>
ghostVars == <<meant, shown, asked, unbound, raced, overlapped>>
vars == <<django, now, rowVars, store, pc, localVars, told, ghostVars>>

NoRow == [status |-> "none", jwk |-> <<"own", 0>>, contact |-> NoAccount]

Init ==
    /\ django \in Backends
    /\ now = 0
    /\ row = [a \in Requests |-> NoRow]
    /\ kid = [a \in Requests |-> NoKid]
    /\ store = Kids
    /\ pc = [r \in Requests |-> "idle"]
    /\ asks = [r \in Requests |-> "none"]
    /\ target = [r \in Requests |-> NoAccount]
    /\ found = [r \in Requests |-> NoAccount]
    /\ snap = [r \in Requests |-> NoRow]
    /\ answer = [r \in Requests |-> "none"]
    /\ evicting = {} /\ told = {}
    /\ meant = [a \in Requests |-> NoRow]
    /\ shown = [a \in Requests |-> {}]
    /\ asked = {} /\ unbound = {} /\ raced = {} /\ overlapped = {}

-----------------------------------------------------------------------------
(* Helpers                                                                 *)

Stored == {a \in Requests : row[a].status # "none"}

\* account_lookup: the wsgi handler finds active accounts only
Visible(a)   == row[a].status = "valid" \/ (django /\ row[a].status # "none")
\* the column holds json.dumps of the jwk and is compared as text: the same key
\* with its members in another order is not found
HoldersOf(j) == {a \in Requests : Visible(a) /\ row[a].jwk = j}

\* the wsgi handler declares the jwk column UNIQUE, the django model does not;
\* variant with a bug: neither does
JwkTakenNever(a, j) == FALSE
JwkTaken(a, j) == ~django /\ \E b \in Stored \ {a} : row[b].jwk = j

Goto(r, label) == pc' = [pc EXCEPT ![r] = label]
Respond(r, c)  == Goto(r, "done") /\ answer' = [answer EXCEPT ![r] = c]
Tell(r, a)     == Respond(r, "ok") /\ told' = told \cup {a}

\* the columns an update names, and the values it gives them; variant with a
\* bug: a new contact sets the status as well
NamedStatus(r) == IF asks[r] = "contact" THEN {"status", "contact"}
                  ELSE IF asks[r] = "deactivate" \/ r \in evicting
                    THEN {"status", "jwk"} ELSE {"jwk"}
Named(r) == IF asks[r] = "deactivate" \/ r \in evicting THEN {"status", "jwk"}
            ELSE IF asks[r] = "contact" THEN {"contact"} ELSE {"jwk"}
Value(r) == [status |-> "deactivated",
             jwk |-> IF r \in evicting THEN <<"eab", now>>
                     ELSE IF asks[r] = "deactivate" THEN <<"own", now>>
                     ELSE NewJwk[r],
             contact |-> r]
Changed(r, old, new) ==
    [status  |-> IF "status" \in Named(r) THEN new.status ELSE old.status,
     jwk     |-> IF "jwk" \in Named(r) THEN new.jwk ELSE old.jwk,
     contact |-> IF "contact" \in Named(r) THEN new.contact ELSE old.contact]

\* r writes the row of a while another update of it is under way
NoteOverlap(r, a) ==
    overlapped' = IF \E q \in Requests \ {r} : pc[q] = "write" /\ target[q] = a
                    THEN overlapped \cup {a} ELSE overlapped
\* r stores jwk j while another request, which did not find it, is about to
Storing(j) == {q \in Requests :
    \/ pc[q] = "add" /\ found[q] = NoAccount /\ JwkOf[q] = j
    \/ /\ pc[q] \in {"read", "write"} /\ asks[q] = "rollover" /\ NewJwk[q] = j
       /\ q \notin evicting}
NoteRace(r, j) ==
    raced' = IF Storing(j) \ {r} # {} THEN raced \cup {j} ELSE raced

-----------------------------------------------------------------------------
(* Arrival: nonce and decoding may fail.  A registration is signed with    *)
(* the key it embeds; other requests name an account the client was told   *)
(* of, and the key they are signed with may be an outdated one.            *)

Receive(r) ==
    /\ pc[r] = "idle"
    /\ \E k \in Asks[r] :
          /\ asks' = [asks EXCEPT ![r] = k]
          /\ \/ /\ k \in Embedded
                /\ Goto(r, IF k = "new" THEN "register" ELSE "existing")
                /\ UNCHANGED <<target, answer>>
             \/ /\ k \notin Embedded
                /\ \E a \in told : target' = [target EXCEPT ![r] = a]
                /\ Goto(r, IF KidCheck THEN "eab" ELSE "signature")
                /\ UNCHANGED answer
             \/ Respond(r, "problem") /\ UNCHANGED target
    /\ UNCHANGED <<django, now, rowVars, store, found, snap, evicting, told,
                   ghostVars>>

-----------------------------------------------------------------------------
(* Registration: terms of service, EAB, contact; then account_add          *)

EabSkipped(r) == ~EabCheck \/ (~EabStrict /\ Kid[r] = NoKid)
EabAccepted(r) == EabSkipped(r) \/ (EabLoaded /\ Kid[r] \in store)

CheckRegistration(r) ==
    /\ pc[r] = "register"
    /\ \/ EabAccepted(r) /\ Goto(r, "find") /\ UNCHANGED answer
       \/ Respond(r, "problem")
    /\ UNCHANGED <<django, now, rowVars, store, asks, target, found, snap,
                   evicting, told, ghostVars>>

\* a search that fails finds nothing with wsgi and raises with django
FindKey(r) ==
    /\ pc[r] = "find"
    /\ \/ /\ IF HoldersOf(JwkOf[r]) = {} THEN found' = found
             ELSE \E a \in HoldersOf(JwkOf[r]) : found' = [found EXCEPT ![r] = a]
          /\ Goto(r, "add") /\ UNCHANGED <<answer, raced>>
       \/ /\ "db" \in Faults
          /\ IF django THEN Respond(r, "problem") ELSE Goto(r, "add") /\ UNCHANGED answer
          /\ raced' = raced \cup {JwkOf[r]}
          /\ UNCHANGED found
    /\ UNCHANGED <<django, now, rowVars, store, asks, target, snap, evicting,
                   told, meant, shown, asked, unbound, overlapped>>

WithContact(s, r) == [status |-> s.status, jwk |-> s.jwk, contact |-> r]
\* the key was found: wsgi updates the contact of the row that has the key
\* now, django leaves the row alone; the answer names the account found
RegisterAgain(r) ==
    /\ pc[r] = "add" /\ found[r] # NoAccount
    /\ \/ /\ LET hit == {a \in Stored : ~django /\ row[a].jwk = JwkOf[r]} IN
             /\ row' = [a \in Requests |->
                          IF a \in hit THEN WithContact(row[a], r) ELSE row[a]]
             /\ meant' = [a \in Requests |->
                          IF a \in hit THEN WithContact(meant[a], r) ELSE meant[a]]
             /\ overlapped' = overlapped \cup
                  {a \in hit : \E q \in Requests : pc[q] = "write" /\ target[q] = a}
          /\ Tell(r, found[r])
       \/ "db" \in Faults /\ Respond(r, "problem")
          /\ UNCHANGED <<row, told, meant, overlapped>>
    /\ UNCHANGED <<django, now, kid, store, asks, target, found, snap, evicting,
                   shown, asked, unbound, raced>>

\* the key was not found: insert a row, whatever happened since
AddAccount(r) ==
    /\ pc[r] = "add" /\ found[r] = NoAccount
    /\ \/ /\ ~JwkTaken(r, JwkOf[r])
          /\ row' = [row EXCEPT ![r] = [status |-> "valid", jwk |-> JwkOf[r],
                                        contact |-> r]]
          /\ kid' = [kid EXCEPT ![r] = IF EabCheck THEN Kid[r] ELSE NoKid]
          /\ meant' = [meant EXCEPT ![r] = [status |-> "valid", jwk |-> JwkOf[r],
                                            contact |-> r]]
          /\ shown' = [shown EXCEPT ![r] = @ \cup {JwkOf[r]}]
          /\ NoteRace(r, JwkOf[r])
          /\ Tell(r, r)
       \/ /\ "db" \in Faults \/ JwkTaken(r, JwkOf[r])
          /\ Respond(r, "problem")
          /\ UNCHANGED <<rowVars, told, meant, shown, raced>>
    /\ UNCHANGED <<django, now, store, asks, target, found, snap, evicting, asked,
                   unbound, overlapped>>

\* onlyReturnExisting: the account with the key, then its details
ReturnExisting(r) ==
    /\ pc[r] = "existing"
    /\ \/ \E a \in HoldersOf(JwkOf[r]) :
             target' = [target EXCEPT ![r] = a] /\ Goto(r, "reread")
             /\ UNCHANGED answer
       \/ /\ HoldersOf(JwkOf[r]) = {} \/ "db" \in Faults
          /\ Respond(r, "problem") /\ UNCHANGED target
    /\ UNCHANGED <<django, now, rowVars, store, asks, found, snap, evicting, told,
                   ghostVars>>

-----------------------------------------------------------------------------
(* The check of a request that names an account: first its EAB             *)
(* credentials, and only then the signature                                *)

\* the handler does not know the credentials, or it fails
KidMissing(a) == EabLoaded /\ kid[a] # NoKid /\ (kid[a] \notin store \/ "eab" \in Faults)
KidPresent(a) == ~EabLoaded \/ kid[a] \in store
              \/ (kid[a] = NoKid /\ ~EabStrict)

CheckEab(r) ==
    /\ pc[r] = "eab"
    /\ LET a == target[r] IN
       \/ /\ Visible(a) /\ ~(EabStrict /\ kid[a] = NoKid)
          /\ KidPresent(a)
          /\ Goto(r, "signature") /\ UNCHANGED <<answer, evicting, unbound>>
       \/ /\ Visible(a) /\ KidMissing(a)
          /\ unbound' = unbound \cup {a}
          /\ IF KidDeactivate
               THEN /\ Goto(r, "read") /\ evicting' = evicting \cup {r}
                    /\ UNCHANGED answer
               ELSE Respond(r, "problem") /\ UNCHANGED evicting
       \/ /\ ~Visible(a) \/ (EabStrict /\ kid[a] = NoKid) \/ "db" \in Faults
          /\ Respond(r, "problem") /\ UNCHANGED <<evicting, unbound>>
    /\ UNCHANGED <<django, now, rowVars, store, asks, target, found, snap, told,
                   meant, shown, asked, raced, overlapped>>

\* jwk_load finds active accounts only
HasKey(r) == row[target[r]].status = "valid"

AfterSignature(r) ==
    CASE asks[r] = "deactivate" -> "lookup"
      [] asks[r] = "contact"    -> "read"
      [] asks[r] = "rollover"   -> "newkey"
      [] OTHER                  -> "reread"

\* a deactivation or rollover may still be malformed, a contact invalid
CheckSignature(r) ==
    /\ pc[r] = "signature"
    /\ \/ /\ HasKey(r)                   \* and the signature verifies with it
          /\ Goto(r, AfterSignature(r))
          /\ asked' = IF asks[r] = "deactivate" THEN asked \cup {target[r]} ELSE asked
          /\ UNCHANGED answer
       \/ Respond(r, "problem") /\ UNCHANGED asked
    /\ UNCHANGED <<django, now, rowVars, store, asks, target, found, snap, evicting,
                   told, meant, shown, unbound, raced, overlapped>>

-----------------------------------------------------------------------------
(* Deactivation, contact update and key rollover                           *)

FindAccount(r) ==
    /\ pc[r] = "lookup"
    /\ \/ Visible(target[r]) /\ Goto(r, "read") /\ UNCHANGED answer
       \/ /\ ~Visible(target[r]) \/ "db" \in Faults
          /\ Respond(r, "problem")
    /\ UNCHANGED <<django, now, rowVars, store, asks, target, found, snap, evicting,
                   told, ghostVars>>

\* the new key signed the inner message; a lookup that fails counts as a key
\* that does not exist; then URL and account of both messages are compared
FindNewKey(r) ==
    /\ pc[r] = "newkey"
    /\ \/ /\ HoldersOf(NewJwk[r]) = {} /\ Goto(r, "read")
          /\ UNCHANGED <<answer, raced>>
       \/ /\ "db" \in Faults /\ Goto(r, "read")
          /\ raced' = raced \cup {NewJwk[r]} /\ UNCHANGED answer
       \/ Respond(r, "problem") /\ UNCHANGED raced
    /\ UNCHANGED <<django, now, rowVars, store, asks, target, found, snap, evicting,
                   told, meant, shown, asked, unbound, overlapped>>

\* what a write of the row s by r means to the history
Written(r, s) ==
    LET a == target[r] IN
    /\ meant' = [meant EXCEPT ![a] = Changed(r, @, s)]
    /\ shown' = IF asks[r] = "rollover" /\ r \notin evicting
                  THEN [shown EXCEPT ![a] = @ \cup {NewJwk[r]}] ELSE shown
    /\ NoteOverlap(r, a)
    /\ NoteRace(r, s.jwk)

\* first call of account_update
UpdateRead(r) ==
    /\ pc[r] = "read"
    /\ LET a == target[r]
           s == Changed(r, row[a], Value(r))
       IN
       \/ /\ ~django /\ Visible(a)
          /\ snap' = [snap EXCEPT ![r] = s]
          /\ Goto(r, "write")
          /\ UNCHANGED <<row, answer, meant, shown, raced, overlapped>>
       \/ /\ django
          /\ snap' = [snap EXCEPT ![r] = s]
          /\ row' = [row EXCEPT ![a] = s]
          /\ Written(r, s)
          /\ Goto(r, "write")
          /\ UNCHANGED answer
       \/ /\ "db" \in Faults \/ ~Visible(a)
          /\ Respond(r, "problem")
          /\ UNCHANGED <<row, snap, meant, shown, raced, overlapped>>
    /\ UNCHANGED <<django, now, kid, store, asks, target, found, evicting, told,
                   asked, unbound>>

AfterUpdate(r) ==
    IF r \in evicting THEN Respond(r, "problem")
    ELSE IF asks[r] = "contact" THEN Goto(r, "reread") /\ UNCHANGED answer
    ELSE Respond(r, "ok")

\* second call: all columns of the row as it was read; variants with a bug: the
\* status is not written, every update makes the account active
WriteSnapshotKeepStatus(r) ==
    row' = [row EXCEPT ![target[r]] = [snap[r] EXCEPT !.status = row[target[r]].status]]
WriteSnapshotActive(r) ==
    row' = [row EXCEPT ![target[r]] = [snap[r] EXCEPT !.status = "valid"]]
WriteSnapshot(r) == row' = [row EXCEPT ![target[r]] = snap[r]]

UpdateWrite(r) ==
    /\ pc[r] = "write"
    /\ \/ /\ ~JwkTaken(target[r], snap[r].jwk)
          /\ WriteSnapshot(r)
          /\ snap' = [snap EXCEPT ![r] = NoRow]
          /\ IF django THEN NoteOverlap(r, target[r]) /\ NoteRace(r, snap[r].jwk)
                            /\ UNCHANGED <<meant, shown>>
             ELSE Written(r, snap[r])
          /\ AfterUpdate(r)
       \/ /\ "db" \in Faults \/ JwkTaken(target[r], snap[r].jwk)
          /\ Respond(r, "problem")
          /\ UNCHANGED <<row, snap, meant, shown, raced, overlapped>>
    /\ UNCHANGED <<django, now, kid, store, asks, target, found, evicting, told, asked,
                   unbound>>

\* The answer of a contact update, a query or onlyReturnExisting shows the
\* account: the key of a deactivated one is not JSON, which raises with django.
\* Other requests go on in their own modules.
Reread(r) ==
    /\ pc[r] = "reread"
    /\ LET a == target[r] IN
       \/ asks[r] = "other" /\ Respond(r, "ok") /\ UNCHANGED told
       \/ asks[r] # "other" /\ row[a].status = "valid" /\ Tell(r, a)
       \/ /\ asks[r] # "other"
          /\ ~Visible(a) \/ "db" \in Faults
          /\ IF asks[r] = "query" THEN Respond(r, "problem") /\ UNCHANGED told
             ELSE Tell(r, a)
       \/ /\ asks[r] # "other" /\ django /\ row[a].status = "deactivated"
          /\ Respond(r, "problem") /\ UNCHANGED told
    /\ UNCHANGED <<django, now, rowVars, store, asks, target, found, snap, evicting,
                   ghostVars>>

-----------------------------------------------------------------------------
\* an operator removes EAB credentials from the store
RemoveKid(k) ==
    /\ k \in store
    /\ store' = store \ {k}
    /\ UNCHANGED <<django, now, rowVars, pc, localVars, told, ghostVars>>

Tick ==
    /\ now < MaxTime
    /\ now' = now + 1
    /\ UNCHANGED <<django, rowVars, store, pc, localVars, told, ghostVars>>

Serve(r) ==
    \/ CheckRegistration(r) \/ FindKey(r) \/ RegisterAgain(r) \/ AddAccount(r)
    \/ ReturnExisting(r) \/ CheckEab(r) \/ CheckSignature(r) \/ FindAccount(r)
    \/ FindNewKey(r) \/ UpdateRead(r) \/ UpdateWrite(r) \/ Reread(r)

Next ==
    \/ \E r \in Requests : Receive(r) \/ Serve(r)
    \/ \E k \in Kids : RemoveKid(k)
    \/ Tick

Spec == Init /\ [][Next]_vars

-----------------------------------------------------------------------------
(* Properties                                                              *)

AnyJwk == Jwks \cup DeadJwks
Row == [status : Status, jwk : AnyJwk, contact : Requests \cup {NoAccount}]

\* The values of the account table and of the locals of a request.
TypeOK ==
    /\ django \in BOOLEAN /\ now \in Nat
    /\ row \in [Requests -> Row] /\ kid \in [Requests -> Kids \cup {NoKid}]
    /\ store \subseteq Kids
    /\ pc \in [Requests -> RequestPc]
    /\ asks \in [Requests -> Kinds \cup {"none"}]
    /\ target \in [Requests -> Requests \cup {NoAccount}]
    /\ found \in [Requests -> Requests \cup {NoAccount}]
    /\ snap \in [Requests -> Row]
    /\ answer \in [Requests -> {"none", "ok", "problem"}]
    /\ evicting \subseteq Requests /\ told \subseteq Requests
    /\ meant \in [Requests -> Row] /\ shown \in [Requests -> SUBSET Jwks]
    /\ asked \subseteq Requests /\ unbound \subseteq Requests
    /\ raced \subseteq AnyJwk /\ overlapped \subseteq Requests

\* Two active accounts have one key only if its clients wrote it down in two ways:
\* the server compares the text of the jwk. The text itself is never shared with
\* the wsgi handler, although registration and rollover look for it long before
\* they store it; with django only if two requests stored it at a time, or a late
\* write brought an old one back.
OneAccountPerKey ==
    \A a, b \in Requests :
        a # b /\ row[a].status = "valid" /\ row[b].status = "valid"
              /\ KeyIn[row[a].jwk] = KeyIn[row[b].jwk]
            => \/ /\ row[a].jwk # row[b].jwk
                  /\ row[a].jwk \in shown[a] /\ row[b].jwk \in shown[b]
               \/ /\ django
                  /\ row[a].jwk \in raced \/ a \in overlapped \/ b \in overlapped

\* The row of an account says what the writes that were completed meant to say:
\* a deactivation is final, a rolled over key does not come back, a contact
\* stays. Only updates that overlap undo each other, because each one writes all
\* columns as it read them.
UpdatesKept ==
    \A a \in Requests : row[a] = meant[a] \/ a \in overlapped

\* The jwk of an active account was shown by a signature made with its key, in the
\* registration or in a rollover of this account, whatever stale rows were
\* written back.
KeyWasShown ==
    \A a \in Requests : row[a].status = "valid" => row[a].jwk \in shown[a]

\* An account is deactivated only if a request signed with its key asked for it,
\* or a check did not find its EAB credentials (before it looked at the
\* signature); a late write does not deactivate anything else.
DeactivatedForCause ==
    \A a \in Requests : row[a].status = "deactivated" => a \in asked \cup unbound

\* The inductive invariant behind the theorems of AccountProofs. Names lead to
\* rows, and a row is there only after its registration, ...
RowsKnown ==
    /\ \A a \in Stored : pc[a] = "done"
    /\ told \subseteq Stored
    /\ \A r \in Requests : {target[r], found[r]} \subseteq Stored \cup {NoAccount}
    /\ \A r \in Requests :
          pc[r] \in {"eab", "signature", "lookup", "newkey", "read", "write", "reread"}
              => target[r] \in Stored
\* ... what an update is about to write still fits the row, unless another one
\* wrote in between, and is justified already, ...
SnapshotFits(r) ==
    LET a == target[r] IN
    /\ snap[r].status # "none"
    /\ \/ a \in overlapped
       \/ IF django THEN row[a] = snap[r]
          ELSE snap[r] = Changed(r, row[a], snap[r])
    /\ snap[r].status = "valid" =>
          \/ snap[r].jwk \in shown[a]
          \/ /\ ~django /\ asks[r] = "rollover" /\ r \notin evicting
             /\ snap[r].jwk = NewJwk[r]
    /\ snap[r].status = "deactivated" => a \in asked \cup unbound
CausesKept ==
    \A r \in Requests :
        /\ r \in evicting => target[r] \in unbound /\ pc[r] \in {"read", "write", "done"}
        /\ pc[r] = "newkey" => asks[r] = "rollover"
        /\ pc[r] = "lookup" => asks[r] = "deactivate"
        /\ pc[r] \in {"read", "write"} =>
              r \in evicting \/ asks[r] \in {"deactivate", "contact", "rollover"}
        /\ asks[r] = "deactivate" /\ pc[r] \in {"lookup", "read", "write"}
              => target[r] \in asked \cup unbound
\* ... and a jwk that was not found is still unknown, unless it is raced for.
UnknownOrRaced ==
    IF ~django THEN \A a, b \in Stored : a # b => row[a].jwk # row[b].jwk
    ELSE \A r \in Requests, b \in Stored :
        /\ pc[r] = "add" /\ found[r] = NoAccount /\ row[b].jwk = JwkOf[r]
              => JwkOf[r] \in raced
        /\ pc[r] = "read" /\ asks[r] = "rollover" /\ r \notin evicting
                          /\ row[b].jwk = NewJwk[r]
              => NewJwk[r] \in raced
AccountInv ==
    /\ TypeOK /\ RowsKnown /\ CausesKept /\ UnknownOrRaced
    /\ \A r \in Requests : pc[r] = "write" => SnapshotFits(r)
=============================================================================
