--------------------------- MODULE AccountProofs ---------------------------
(***************************************************************************)
(* The inductive invariant AccountInv of module Account and the properties *)
(* it supports, for any numbers of requests and keys and both database     *)
(* handlers.                                                               *)
(***************************************************************************)
EXTENDS Account, TLAPS

\* OneAccountPerKey for the text of a key
OneAccountPerJwk ==
    \A a, b \in Requests :
        a # b /\ row[a].status = "valid" /\ row[b].status = "valid"
              /\ row[a].jwk = row[b].jwk
            => /\ django
               /\ row[a].jwk \in raced \/ a \in overlapped \/ b \in overlapped

\* Everything that is shown to hold together: the parts of AccountInv and the
\* properties they support.
Snapshots == \A r \in Requests : pc[r] = "write" => SnapshotFits(r)
AllInv == AccountInv /\ KeyWasShown /\ DeactivatedForCause /\ UpdatesKept
                     /\ OneAccountPerJwk

\* The invariant holds initially, when there are no rows.
LEMMA AccountInit == Init => AllInv
<1> SUFFICES ASSUME Init PROVE AllInv
  OBVIOUS
<1> USE AccountAssumption DEF Init, NoRow, Stored
<1>1. NoRow \in Row
  BY DEF Row, AnyJwk, DeadJwks, Status
<1>2. TypeOK
  BY <1>1 DEF TypeOK, RequestPc
<1>3. RowsKnown /\ CausesKept /\ UnknownOrRaced
  BY DEF RowsKnown, CausesKept, UnknownOrRaced
<1> QED
  BY <1>2, <1>3 DEF AllInv, AccountInv, KeyWasShown, DeactivatedForCause,
                    UpdatesKept, OneAccountPerJwk

\* A row changed by an update is a row.
LEMMA ChangedRow ==
    ASSUME NEW r \in Requests, NEW old \in Row, NEW new \in Row
    PROVE  Changed(r, old, new) \in Row
BY DEF Changed, Row

LEMMA ValueRow == ASSUME TypeOK, NEW r \in Requests PROVE Value(r) \in Row
BY AccountAssumption DEF TypeOK, Value, Row, Status, AnyJwk, DeadJwks

\* Every step preserves the types of the variables.
LEMMA AccountType == TypeOK /\ RowsKnown /\ [Next]_vars => TypeOK'
<1> SUFFICES ASSUME TypeOK /\ RowsKnown, [Next]_vars PROVE TypeOK'
  OBVIOUS
<1> USE AccountAssumption DEF TypeOK, RowsKnown, RequestPc, vars, rowVars, localVars, ghostVars
<1>1. ASSUME NEW r \in Requests, Receive(r) PROVE TypeOK'
  BY <1>1 DEF Receive, Goto, Respond
<1>2. ASSUME NEW r \in Requests, CheckRegistration(r) PROVE TypeOK'
  BY <1>2 DEF CheckRegistration, Goto, Respond
<1>3. ASSUME NEW r \in Requests, FindKey(r) PROVE TypeOK'
  BY <1>3 DEF FindKey, Goto, Respond, HoldersOf, AnyJwk
<1>4. ASSUME NEW r \in Requests, RegisterAgain(r) PROVE TypeOK'
  <2>1. \A s \in Row : WithContact(s, r) \in Row
    BY DEF Row, WithContact
  <2>2. row' \in [Requests -> Row] /\ meant' \in [Requests -> Row]
    BY <1>4, <2>1 DEF RegisterAgain
  <2>3. /\ pc' \in [Requests -> RequestPc]
        /\ answer' \in [Requests -> {"none", "ok", "problem"}]
        /\ told' \subseteq Requests /\ overlapped' \subseteq Requests
    BY <1>4 DEF RegisterAgain, Goto, Respond, Tell, Stored
  <2> QED
    BY <1>4, <2>2, <2>3 DEF RegisterAgain
<1>5. ASSUME NEW r \in Requests, AddAccount(r) PROVE TypeOK'
  <2>1. [status |-> "valid", jwk |-> JwkOf[r], contact |-> r] \in Row
    BY DEF Row, Status, AnyJwk
  <2>2. row' \in [Requests -> Row] /\ meant' \in [Requests -> Row]
    BY <1>5, <2>1 DEF AddAccount
  <2>3. /\ pc' \in [Requests -> RequestPc]
        /\ answer' \in [Requests -> {"none", "ok", "problem"}]
        /\ told' \subseteq Requests
    BY <1>5 DEF AddAccount, Goto, Respond, Tell
  <2>4. /\ kid' \in [Requests -> Kids \cup {NoKid}]
        /\ shown' \in [Requests -> SUBSET Jwks] /\ raced' \subseteq AnyJwk
    BY <1>5 DEF AddAccount, NoteRace, AnyJwk
  <2> QED
    BY <1>5, <2>2, <2>3, <2>4 DEF AddAccount
<1>6. ASSUME NEW r \in Requests, ReturnExisting(r) PROVE TypeOK'
  BY <1>6 DEF ReturnExisting, Goto, Respond, HoldersOf
<1>7. ASSUME NEW r \in Requests, CheckEab(r) PROVE TypeOK'
  BY <1>7 DEF CheckEab, Goto, Respond, Stored
<1>8. ASSUME NEW r \in Requests, CheckSignature(r) PROVE TypeOK'
  BY <1>8 DEF CheckSignature, Goto, Respond, AfterSignature, Stored
<1>9. ASSUME NEW r \in Requests, FindAccount(r) PROVE TypeOK'
  BY <1>9 DEF FindAccount, Goto, Respond
<1>10. ASSUME NEW r \in Requests, FindNewKey(r) PROVE TypeOK'
  BY <1>10 DEF FindNewKey, Goto, Respond, AnyJwk
<1>11. ASSUME NEW r \in Requests, UpdateRead(r) PROVE TypeOK'
  <2> DEFINE a == target[r]
             s == Changed(r, row[a], Value(r))
             m == Changed(r, meant[a], s)
  <2>1. a \in Requests /\ snap[r] \in Row
    BY <1>11 DEF UpdateRead, RowsKnown, Stored
  <2>2. s \in Row
    BY <2>1, ChangedRow, ValueRow
  <2>3. m \in Row
    BY <2>1, <2>2, ChangedRow
  <2>4. s.jwk \in AnyJwk
    BY <2>2 DEF Row
  <2> HIDE DEF s, m
  <2>5. row' \in [Requests -> Row] /\ snap' \in [Requests -> Row]
    BY <1>11, <2>1, <2>2 DEF UpdateRead, Goto, s
  <2>6. meant' \in [Requests -> Row]
    BY <1>11, <2>1, <2>2, <2>3 DEF UpdateRead, Written, s, m
  <2>7. /\ shown' \in [Requests -> SUBSET Jwks]
        /\ raced' \subseteq AnyJwk /\ overlapped' \subseteq Requests
    BY <1>11, <2>1, <2>4 DEF UpdateRead, Written, NoteOverlap, NoteRace, s
  <2>8. /\ pc' \in [Requests -> RequestPc]
        /\ answer' \in [Requests -> {"none", "ok", "problem"}]
    BY <1>11 DEF UpdateRead, Goto, Respond
  <2> QED
    BY <1>11, <2>5, <2>6, <2>7, <2>8 DEF UpdateRead
<1>12. ASSUME NEW r \in Requests, UpdateWrite(r) PROVE TypeOK'
  <2> DEFINE a == target[r]
             m == Changed(r, meant[a], snap[r])
  <2>1. a \in Requests /\ snap[r] \in Row /\ NoRow \in Row
    BY <1>12 DEF UpdateWrite, RowsKnown, Stored, NoRow, Row, Status, AnyJwk, DeadJwks
  <2>2. m \in Row
    BY <2>1, ChangedRow
  <2>3. snap[r].jwk \in AnyJwk
    BY <2>1 DEF Row
  <2> HIDE DEF m
  <2>4. row' \in [Requests -> Row] /\ snap' \in [Requests -> Row]
    BY <1>12, <2>1 DEF UpdateWrite, WriteSnapshot
  <2>5. meant' \in [Requests -> Row]
    BY <1>12, <2>1, <2>2 DEF UpdateWrite, Written, m
  <2>6. /\ shown' \in [Requests -> SUBSET Jwks]
        /\ raced' \subseteq AnyJwk /\ overlapped' \subseteq Requests
    BY <1>12, <2>1, <2>3 DEF UpdateWrite, Written, NoteOverlap, NoteRace
  <2>7. /\ pc' \in [Requests -> RequestPc]
        /\ answer' \in [Requests -> {"none", "ok", "problem"}]
    BY <1>12 DEF UpdateWrite, Goto, Respond, AfterUpdate
  <2> QED
    BY <1>12, <2>4, <2>5, <2>6, <2>7 DEF UpdateWrite
<1>13. ASSUME NEW r \in Requests, Reread(r) PROVE TypeOK'
  BY <1>13 DEF Reread, Goto, Respond, Tell, Stored
<1>14. ASSUME NEW k \in Kids, RemoveKid(k) PROVE TypeOK'
  BY <1>14 DEF RemoveKid
<1>15. CASE Tick
  BY <1>15 DEF Tick
<1>16. CASE UNCHANGED vars
  BY <1>16 DEF vars
<1> QED
  BY <1>1, <1>2, <1>3, <1>4, <1>5, <1>6, <1>7, <1>8, <1>9, <1>10, <1>11, <1>12, <1>13, <1>14, <1>15, <1>16 DEF Next, Serve

\* Rows are written by their registration or by updates of known accounts, and
\* none is removed.
LEMMA AccountRows == TypeOK /\ RowsKnown /\ Snapshots /\ [Next]_vars => RowsKnown'
<1> SUFFICES ASSUME TypeOK /\ RowsKnown /\ Snapshots, [Next]_vars PROVE RowsKnown'
  OBVIOUS
<1> USE AccountAssumption DEF TypeOK, RowsKnown, Stored, RequestPc, vars, rowVars, localVars, ghostVars
<1>1. ASSUME NEW r \in Requests, Receive(r) PROVE RowsKnown'
  BY <1>1 DEF Receive, Goto, Respond
<1>2. ASSUME NEW r \in Requests, CheckRegistration(r) PROVE RowsKnown'
  BY <1>2 DEF CheckRegistration, Goto, Respond
<1>3. ASSUME NEW r \in Requests, FindKey(r) PROVE RowsKnown'
  BY <1>3 DEF FindKey, Goto, Respond, HoldersOf, AnyJwk, Visible
<1>4. ASSUME NEW r \in Requests, RegisterAgain(r) PROVE RowsKnown'
  <2>1. \A a \in Requests : row'[a].status = row[a].status
    BY <1>4 DEF RegisterAgain, WithContact
  <2>2. Stored' = Stored /\ Stored \subseteq Requests
    BY <2>1
  <2>3. found[r] \in Stored
    BY <1>4 DEF RegisterAgain
  <2> HIDE DEF Stored
  <2>4. told' \subseteq Stored' /\ \A q \in Requests : q # r => pc'[q] = pc[q]
    BY <1>4, <2>2, <2>3 DEF RegisterAgain, Goto, Respond, Tell
  <2>5. pc'[r] = "done" /\ target' = target /\ found' = found
    BY <1>4 DEF RegisterAgain, Goto, Respond, Tell
  <2> QED
    BY <2>2, <2>4, <2>5
<1>5. ASSUME NEW r \in Requests, AddAccount(r) PROVE RowsKnown'
  <2>1. /\ Stored' = Stored \/ Stored' = Stored \cup {r}
        /\ Stored \subseteq Requests
    BY <1>5 DEF AddAccount, Goto, Respond, Tell
  <2>2. Stored \subseteq Stored' /\ (told' = told \/ (told' = told \cup {r} /\ r \in Stored'))
    BY <1>5 DEF AddAccount, Goto, Respond, Tell
  <2>3. \A q \in Requests : q # r => pc'[q] = pc[q]
    BY <1>5 DEF AddAccount, Goto, Respond, Tell
  <2>4. pc'[r] = "done"
    BY <1>5 DEF AddAccount, Goto, Respond, Tell
  <2> HIDE DEF Stored
  <2>5. target' = target /\ found' = found
    BY <1>5 DEF AddAccount
  <2>6. Stored' \subseteq Stored \cup {r}
    BY <2>1
  <2>7. \A a \in Stored' : pc'[a] = "done"
    BY <2>1, <2>3, <2>4, <2>6
  <2>8. told' \subseteq Stored'
    BY <2>2
  <2>9. \A q \in Requests : {target'[q], found'[q]} \subseteq Stored' \cup {NoAccount}
    BY <2>2, <2>5
  <2>10. \A q \in Requests :
            pc'[q] \in {"eab", "signature", "lookup", "newkey", "read", "write", "reread"}
                => target'[q] \in Stored'
    BY <2>2, <2>3, <2>4, <2>5
  <2> QED
    BY <2>7, <2>8, <2>9, <2>10
<1>6. ASSUME NEW r \in Requests, ReturnExisting(r) PROVE RowsKnown'
  BY <1>6, SMTT(30) DEF ReturnExisting, Goto, Respond, HoldersOf, Visible
<1>7. ASSUME NEW r \in Requests, CheckEab(r) PROVE RowsKnown'
  BY <1>7 DEF CheckEab, Goto, Respond, Stored
<1>8. ASSUME NEW r \in Requests, CheckSignature(r) PROVE RowsKnown'
  BY <1>8 DEF CheckSignature, Goto, Respond, AfterSignature, Stored
<1>9. ASSUME NEW r \in Requests, FindAccount(r) PROVE RowsKnown'
  BY <1>9 DEF FindAccount, Goto, Respond
<1>10. ASSUME NEW r \in Requests, FindNewKey(r) PROVE RowsKnown'
  BY <1>10 DEF FindNewKey, Goto, Respond, AnyJwk
<1>11. ASSUME NEW r \in Requests, UpdateRead(r) PROVE RowsKnown'
  <2>1. target[r] \in Stored /\ target[r] \in Requests
    BY <1>11 DEF UpdateRead
  <2>2. Changed(r, row[target[r]], Value(r)).status # "none"
    BY <2>1 DEF Changed, Value
  <2>3. \/ row' = row
        \/ row' = [row EXCEPT ![target[r]] = Changed(r, row[target[r]], Value(r))]
    BY <1>11 DEF UpdateRead
  <2>4. Stored' = Stored /\ Stored \subseteq Requests
    BY <2>1, <2>2, <2>3
  <2> HIDE DEF Stored
  <2> QED
    BY <1>11, <2>1, <2>4 DEF UpdateRead, Goto, Respond
<1>12. ASSUME NEW r \in Requests, UpdateWrite(r) PROVE RowsKnown'
  <2>1. target[r] \in Stored /\ target[r] \in Requests
    BY <1>12 DEF UpdateWrite
  <2>2. snap[r].status # "none"
    BY <1>12 DEF UpdateWrite, Snapshots, SnapshotFits
  <2>3. row' = row \/ row' = [row EXCEPT ![target[r]] = snap[r]]
    BY <1>12 DEF UpdateWrite, WriteSnapshot
  <2>4. Stored' = Stored /\ Stored \subseteq Requests
    BY <2>1, <2>2, <2>3
  <2> HIDE DEF Stored
  <2> QED
    BY <1>12, <2>1, <2>4 DEF UpdateWrite, Goto, Respond, AfterUpdate
<1>13. ASSUME NEW r \in Requests, Reread(r) PROVE RowsKnown'
  BY <1>13 DEF Reread, Goto, Respond, Tell, Stored
<1>14. ASSUME NEW k \in Kids, RemoveKid(k) PROVE RowsKnown'
  BY <1>14 DEF RemoveKid
<1>15. CASE Tick
  BY <1>15 DEF Tick
<1>16. CASE UNCHANGED vars
  BY <1>16 DEF vars
<1> QED
  BY <1>1, <1>2, <1>3, <1>4, <1>5, <1>6, <1>7, <1>8, <1>9, <1>10, <1>11, <1>12, <1>13, <1>14, <1>15, <1>16 DEF Next, Serve

\* Only a signed deactivation or missing credentials let a request deactivate.
LEMMA AccountCauses == TypeOK /\ RowsKnown /\ CausesKept /\ [Next]_vars => CausesKept'
<1> SUFFICES ASSUME TypeOK /\ RowsKnown /\ CausesKept, [Next]_vars PROVE CausesKept'
  OBVIOUS
<1> USE AccountAssumption DEF TypeOK, RowsKnown, CausesKept, Stored, RequestPc, vars, rowVars, localVars, ghostVars
<1>1. ASSUME NEW r \in Requests, Receive(r) PROVE CausesKept'
  BY <1>1 DEF Receive, Goto, Respond
<1>2. ASSUME NEW r \in Requests, CheckRegistration(r) PROVE CausesKept'
  BY <1>2 DEF CheckRegistration, Goto, Respond
<1>3. ASSUME NEW r \in Requests, FindKey(r) PROVE CausesKept'
  BY <1>3 DEF FindKey, Goto, Respond, HoldersOf, AnyJwk, Visible
<1>4. ASSUME NEW r \in Requests, RegisterAgain(r) PROVE CausesKept'
  BY <1>4 DEF RegisterAgain, Goto, Respond, Tell, Row, Stored
<1>5. ASSUME NEW r \in Requests, AddAccount(r) PROVE CausesKept'
  BY <1>5 DEF AddAccount, Goto, Respond, Tell, NoteRace, Row, Status, AnyJwk
<1>6. ASSUME NEW r \in Requests, ReturnExisting(r) PROVE CausesKept'
  BY <1>6 DEF ReturnExisting, Goto, Respond, HoldersOf, Visible
<1>7. ASSUME NEW r \in Requests, CheckEab(r) PROVE CausesKept'
  BY <1>7 DEF CheckEab, Goto, Respond, Stored
<1>8. ASSUME NEW r \in Requests, CheckSignature(r) PROVE CausesKept'
  BY <1>8 DEF CheckSignature, Goto, Respond, AfterSignature, Stored
<1>9. ASSUME NEW r \in Requests, FindAccount(r) PROVE CausesKept'
  BY <1>9 DEF FindAccount, Goto, Respond
<1>10. ASSUME NEW r \in Requests, FindNewKey(r) PROVE CausesKept'
  BY <1>10 DEF FindNewKey, Goto, Respond, AnyJwk
<1>11. ASSUME NEW r \in Requests, UpdateRead(r) PROVE CausesKept'
  BY <1>11 DEF UpdateRead, Goto, Respond, Written, NoteOverlap, NoteRace
<1>12. ASSUME NEW r \in Requests, UpdateWrite(r) PROVE CausesKept'
  BY <1>12 DEF UpdateWrite, Goto, Respond, Written, NoteOverlap, NoteRace, AfterUpdate, WriteSnapshot, NoRow
<1>13. ASSUME NEW r \in Requests, Reread(r) PROVE CausesKept'
  BY <1>13 DEF Reread, Goto, Respond, Tell, Stored
<1>14. ASSUME NEW k \in Kids, RemoveKid(k) PROVE CausesKept'
  BY <1>14 DEF RemoveKid
<1>15. CASE Tick
  BY <1>15 DEF Tick
<1>16. CASE UNCHANGED vars
  BY <1>16 DEF vars
<1> QED
  BY <1>1, <1>2, <1>3, <1>4, <1>5, <1>6, <1>7, <1>8, <1>9, <1>10, <1>11, <1>12, <1>13, <1>14, <1>15, <1>16 DEF Next, Serve

\* What an update is about to write fits the row it read, or the row was written
\* in between and the account counts as overlapped.
LEMMA AccountSnapshots == AllInv /\ [Next]_vars => Snapshots'
<1> SUFFICES ASSUME AllInv, [Next]_vars PROVE Snapshots'
  OBVIOUS
<1> USE AccountAssumption DEF TypeOK, RowsKnown, CausesKept, Snapshots, SnapshotFits, Changed, Named, Stored, RequestPc, vars, rowVars, localVars, ghostVars
<1> USE DEF AllInv, AccountInv
<1>1. ASSUME NEW r \in Requests, Receive(r) PROVE Snapshots'
  BY <1>1 DEF Receive, Goto, Respond
<1>2. ASSUME NEW r \in Requests, CheckRegistration(r) PROVE Snapshots'
  BY <1>2 DEF CheckRegistration, Goto, Respond
<1>3. ASSUME NEW r \in Requests, FindKey(r) PROVE Snapshots'
  BY <1>3 DEF FindKey, Goto, Respond, HoldersOf, AnyJwk, Visible
<1>4. ASSUME NEW r \in Requests, RegisterAgain(r) PROVE Snapshots'
  <2> DEFINE hit == {a \in Stored : ~django /\ row[a].jwk = JwkOf[r]}
  <2>1. UNCHANGED <<django, target, snap, asks, evicting, shown, asked, unbound>>
    BY <1>4 DEF RegisterAgain
  <2>2. \A q \in Requests : pc'[q] = "write" => pc[q] = "write"
    BY <1>4 DEF RegisterAgain, Goto, Respond, Tell
  <2>3. overlapped \subseteq overlapped'
    BY <1>4 DEF RegisterAgain
  <2>4. row' = row \/ \A q \in Requests :
            pc[q] = "write" /\ target[q] \in hit => target[q] \in overlapped'
    BY <1>4 DEF RegisterAgain
  <2>5. \A b \in Requests : b \notin hit => row'[b] = row[b]
    BY <1>4 DEF RegisterAgain
  <2> SUFFICES ASSUME NEW q \in Requests, pc'[q] = "write" PROVE SnapshotFits(q)'
    BY DEF Snapshots
  <2>6. SnapshotFits(q) /\ target[q] \in Requests /\ pc[q] = "write"
    BY <2>2
  <2>7. target[q] \in overlapped' \/ row'[target[q]] = row[target[q]]
    BY <2>4, <2>5, <2>6
  <2> QED
    BY <2>1, <2>3, <2>6, <2>7
<1>5. ASSUME NEW r \in Requests, AddAccount(r) PROVE Snapshots'
  <2>1. UNCHANGED <<django, snap, target, asks, evicting, asked, unbound, overlapped>>
    BY <1>5 DEF AddAccount
  <2>2. r \notin Stored /\ \A q \in Requests : pc'[q] = "write" => pc[q] = "write"
    BY <1>5 DEF AddAccount, Goto, Respond, Tell
  <2>3. \A a \in Requests : a # r => row'[a] = row[a] /\ shown'[a] = shown[a]
    BY <1>5 DEF AddAccount
  <2> SUFFICES ASSUME NEW q \in Requests, pc'[q] = "write" PROVE SnapshotFits(q)'
    BY DEF Snapshots
  <2>4. SnapshotFits(q) /\ target[q] \in Requests /\ target[q] # r
    BY <2>2
  <2>5. row'[target[q]] = row[target[q]] /\ shown'[target[q]] = shown[target[q]]
    BY <2>3, <2>4
  <2> QED
    BY <2>1, <2>4, <2>5
<1>6. ASSUME NEW r \in Requests, ReturnExisting(r) PROVE Snapshots'
  <2>1. UNCHANGED <<django, row, snap, asks, evicting, shown, asked, unbound, overlapped>>
    BY <1>6 DEF ReturnExisting
  <2>2. \A q \in Requests : pc'[q] = "write" => pc[q] = "write" /\ target'[q] = target[q]
    BY <1>6 DEF ReturnExisting, Goto, Respond
  <2> QED
    BY <2>1, <2>2
<1>7. ASSUME NEW r \in Requests, CheckEab(r) PROVE Snapshots'
  BY <1>7 DEF CheckEab, Goto, Respond, Stored
<1>8. ASSUME NEW r \in Requests, CheckSignature(r) PROVE Snapshots'
  BY <1>8 DEF CheckSignature, Goto, Respond, AfterSignature, Stored
<1>9. ASSUME NEW r \in Requests, FindAccount(r) PROVE Snapshots'
  BY <1>9 DEF FindAccount, Goto, Respond
<1>10. ASSUME NEW r \in Requests, FindNewKey(r) PROVE Snapshots'
  BY <1>10 DEF FindNewKey, Goto, Respond, AnyJwk
<1>11. ASSUME NEW r \in Requests, UpdateRead(r) PROVE Snapshots'
  <2> DEFINE a == target[r]
             s == Changed(r, row[a], Value(r))
  <2>1. UNCHANGED <<django, target, asks, evicting, asked, unbound>>
    BY <1>11 DEF UpdateRead
  <2>2. a \in Requests /\ a \in Stored
    BY <1>11 DEF UpdateRead
  <2>3. \A b \in Requests : shown[b] \subseteq shown'[b]
    BY <1>11, <2>2 DEF UpdateRead, Written
  <2>4. \A b \in Requests : b # a => row'[b] = row[b]
    BY <1>11, <2>2 DEF UpdateRead
  <2>5. overlapped \subseteq overlapped'
    BY <1>11 DEF UpdateRead, Written, NoteOverlap
  <2>6. \A q \in Requests : pc'[q] = "write" /\ q # r =>
            pc[q] = "write" /\ snap'[q] = snap[q]
    BY <1>11 DEF UpdateRead, Goto, Respond
  <2>7. row' = row \/ \A q \in Requests \ {r} :
            pc[q] = "write" /\ target[q] = a => a \in overlapped'
    BY <1>11 DEF UpdateRead, Written, NoteOverlap
  <2>8. ASSUME NEW q \in Requests, pc'[q] = "write", q # r PROVE SnapshotFits(q)'
    <3>1. SnapshotFits(q) /\ target[q] \in Requests /\ pc[q] = "write"
          /\ snap'[q] = snap[q]
      BY <2>6, <2>8
    <3>2. target[q] \in overlapped' \/ row'[target[q]] = row[target[q]]
      BY <2>4, <2>7, <2>8, <3>1
    <3> QED
      BY <2>1, <2>3, <2>5, <3>1, <3>2
  <2>9. ASSUME pc'[r] = "write" PROVE SnapshotFits(r)'
    <3>1. snap'[r] = s /\ (django => row'[a] = s) /\ (~django => row' = row)
      BY <1>11, <2>2, <2>9 DEF UpdateRead, Goto, Respond
    <3>2. django /\ asks[r] = "rollover" /\ r \notin evicting => NewJwk[r] \in shown'[a]
      BY <1>11, <2>2, <2>9 DEF UpdateRead, Goto, Respond, Written
    <3>3. s.status # "none" /\ s = Changed(r, row[a], s)
      BY <2>2 DEF Value
    <3>4. s.status = "deactivated" => a \in asked \cup unbound
      BY <1>11, <2>2 DEF UpdateRead, Value, DeactivatedForCause
    <3>5. CASE r \in evicting \/ asks[r] = "deactivate"
      <4>1. s.status = "deactivated"
        BY <3>5 DEF Value
      <4> QED
        BY <2>1, <3>1, <3>3, <3>4, <4>1
    <3>6. CASE r \notin evicting /\ asks[r] = "contact"
      <4>1. s.status = row[a].status /\ s.jwk = row[a].jwk
        BY <3>6
      <4>2. s.status = "valid" => s.jwk \in shown'[a]
        BY <2>2, <2>3, <4>1 DEF KeyWasShown
      <4> QED
        BY <2>1, <3>1, <3>3, <3>4, <4>2
    <3>7. CASE r \notin evicting /\ asks[r] = "rollover"
      <4>1. s.jwk = NewJwk[r]
        BY <3>7 DEF Value
      <4> QED
        BY <2>1, <3>1, <3>2, <3>3, <3>4, <3>7, <4>1
    <3> QED
      BY <1>11, <3>5, <3>6, <3>7 DEF UpdateRead
  <2> QED
    BY <2>8, <2>9
<1>12. ASSUME NEW r \in Requests, UpdateWrite(r) PROVE Snapshots'
  <2> DEFINE a == target[r]
  <2>1. UNCHANGED <<django, target, asks, evicting, asked, unbound>>
    BY <1>12 DEF UpdateWrite
  <2>2. a \in Requests
    BY <1>12 DEF UpdateWrite
  <2>3. \A b \in Requests : shown[b] \subseteq shown'[b]
    <3>1. shown' \in {shown, [shown EXCEPT ![a] = @ \cup {NewJwk[r]}]}
      BY <1>12 DEF UpdateWrite, Written
    <3>2. shown \in [Requests -> SUBSET Jwks]
      BY DEF AllInv, AccountInv, TypeOK
    <3> QED
      BY <2>2, <3>1, <3>2
  <2>4. \A b \in Requests : b # a => row'[b] = row[b]
    BY <1>12, <2>2 DEF UpdateWrite, WriteSnapshot
  <2>5. overlapped \subseteq overlapped'
    BY <1>12 DEF UpdateWrite, Written, NoteOverlap
  <2>6. \A q \in Requests : pc'[q] = "write" =>
            q # r /\ pc[q] = "write" /\ snap'[q] = snap[q]
    BY <1>12 DEF UpdateWrite, Goto, Respond, AfterUpdate
  <2>7. row' = row \/ \A q \in Requests \ {r} :
            pc[q] = "write" /\ target[q] = a => a \in overlapped'
    BY <1>12 DEF UpdateWrite, Written, NoteOverlap
  <2> SUFFICES ASSUME NEW q \in Requests, pc'[q] = "write" PROVE SnapshotFits(q)'
    BY DEF Snapshots
  <2>8. SnapshotFits(q) /\ target[q] \in Requests /\ q # r /\ pc[q] = "write"
        /\ snap'[q] = snap[q]
    BY <2>6
  <2>9. target[q] \in overlapped' \/ row'[target[q]] = row[target[q]]
    BY <2>4, <2>7, <2>8
  <2> QED
    BY <2>1, <2>3, <2>5, <2>8, <2>9
<1>13. ASSUME NEW r \in Requests, Reread(r) PROVE Snapshots'
  BY <1>13 DEF Reread, Goto, Respond, Tell, Stored
<1>14. ASSUME NEW k \in Kids, RemoveKid(k) PROVE Snapshots'
  BY <1>14 DEF RemoveKid
<1>15. CASE Tick
  BY <1>15 DEF Tick
<1>16. CASE UNCHANGED vars
  BY <1>16 DEF vars
<1> QED
  BY <1>1, <1>2, <1>3, <1>4, <1>5, <1>6, <1>7, <1>8, <1>9, <1>10, <1>11, <1>12, <1>13, <1>14, <1>15, <1>16 DEF Next, Serve

\* A key that was looked for and not found is still unknown when it is stored,
\* or counts as raced for; with wsgi the column is unique.
LEMMA AccountKeys == AllInv /\ [Next]_vars => UnknownOrRaced'
<1> SUFFICES ASSUME AllInv, [Next]_vars PROVE UnknownOrRaced'
  OBVIOUS
<1> USE AccountAssumption DEF TypeOK, RowsKnown, CausesKept, UnknownOrRaced, Stored, RequestPc, vars, rowVars, localVars, ghostVars
<1> USE DEF AllInv, AccountInv
<1>1. ASSUME NEW r \in Requests, Receive(r) PROVE UnknownOrRaced'
  BY <1>1 DEF Receive, Goto, Respond
<1>2. ASSUME NEW r \in Requests, CheckRegistration(r) PROVE UnknownOrRaced'
  BY <1>2 DEF CheckRegistration, Goto, Respond
<1>3. ASSUME NEW r \in Requests, FindKey(r) PROVE UnknownOrRaced'
  BY <1>3 DEF FindKey, Goto, Respond, HoldersOf, AnyJwk, Visible
<1>4. ASSUME NEW r \in Requests, RegisterAgain(r) PROVE UnknownOrRaced'
  <2>1. UNCHANGED <<django, found, asks, evicting, raced>>
    BY <1>4 DEF RegisterAgain
  <2>2. \A q \in Requests : pc'[q] # "done" => pc'[q] = pc[q]
    BY <1>4 DEF RegisterAgain, Goto, Respond, Tell
  <2>3. \A b \in Requests : row'[b].jwk = row[b].jwk /\ row'[b].status = row[b].status
    BY <1>4 DEF RegisterAgain, WithContact
  <2>4. Stored' = Stored /\ Stored \subseteq Requests
    BY <2>3 DEF Stored
  <2> HIDE DEF Stored
  <2> QED
    BY <2>1, <2>2, <2>3, <2>4
<1>5. ASSUME NEW r \in Requests, AddAccount(r) PROVE UnknownOrRaced'
  <2>1. UNCHANGED <<django, found, asks, evicting>>
    BY <1>5 DEF AddAccount
  <2>2. \A q \in Requests : q # r => pc'[q] = pc[q]
    BY <1>5 DEF AddAccount, Goto, Respond, Tell
  <2>3. pc'[r] = "done" /\ raced \subseteq raced'
    BY <1>5 DEF AddAccount, Goto, Respond, Tell, NoteRace
  <2>4. CASE row' = row
    BY <2>1, <2>2, <2>3, <2>4
  <2>5. CASE ~(row' = row) /\ ~django
    <3>1. ~JwkTaken(r, JwkOf[r]) /\ row'[r].jwk = JwkOf[r]
          /\ \A b \in Requests \ {r} : row'[b] = row[b]
      BY <1>5, <2>5 DEF AddAccount
    <3> QED
      BY <2>1, <2>5, <3>1 DEF JwkTaken
  <2>6. CASE ~(row' = row) /\ django
    <3>1. row'[r].jwk = JwkOf[r] /\ \A b \in Requests \ {r} : row'[b] = row[b]
      BY <1>5, <2>6 DEF AddAccount
    <3>2. \A q \in Storing(JwkOf[r]) \ {r} : JwkOf[r] \in raced'
      BY <1>5, <2>6 DEF AddAccount, NoteRace
    <3> QED
      BY <2>1, <2>2, <2>3, <2>6, <3>1, <3>2 DEF Storing
  <2> QED
    BY <2>4, <2>5, <2>6
<1>6. ASSUME NEW r \in Requests, ReturnExisting(r) PROVE UnknownOrRaced'
  BY <1>6 DEF ReturnExisting, Goto, Respond, HoldersOf, Visible
<1>7. ASSUME NEW r \in Requests, CheckEab(r) PROVE UnknownOrRaced'
  BY <1>7 DEF CheckEab, Goto, Respond, Stored
<1>8. ASSUME NEW r \in Requests, CheckSignature(r) PROVE UnknownOrRaced'
  BY <1>8 DEF CheckSignature, Goto, Respond, AfterSignature, Stored
<1>9. ASSUME NEW r \in Requests, FindAccount(r) PROVE UnknownOrRaced'
  BY <1>9 DEF FindAccount, Goto, Respond
<1>10. ASSUME NEW r \in Requests, FindNewKey(r) PROVE UnknownOrRaced'
  BY <1>10 DEF FindNewKey, Goto, Respond, AnyJwk, HoldersOf, Visible
<1>11. ASSUME NEW r \in Requests, UpdateRead(r) PROVE UnknownOrRaced'
  <2> DEFINE a == target[r]
             s == Changed(r, row[a], Value(r))
  <2>1. UNCHANGED <<django, found, asks, evicting>> /\ raced \subseteq raced'
    BY <1>11 DEF UpdateRead, Written, NoteRace
  <2>2. a \in Requests /\ a \in Stored
    BY <1>11 DEF UpdateRead
  <2>3. \A q \in Requests : q # r => pc'[q] = pc[q]
    BY <1>11 DEF UpdateRead, Goto, Respond
  <2>4. pc'[r] \in {"write", "done"}
    BY <1>11 DEF UpdateRead, Goto, Respond
  <2>5. CASE row' = row
    BY <2>1, <2>3, <2>4, <2>5
  <2>6. CASE ~(row' = row)
    <3>1. django /\ row'[a] = s /\ \A b \in Requests \ {a} : row'[b] = row[b]
      BY <1>11, <2>2, <2>6 DEF UpdateRead
    <3>2. \A q \in Storing(s.jwk) \ {r} : s.jwk \in raced'
      BY <1>11, <2>6 DEF UpdateRead, Written, NoteRace
    <3> HIDE DEF s
    <3> QED
      BY <2>1, <2>2, <2>3, <2>4, <3>1, <3>2 DEF Storing
  <2> QED
    BY <2>5, <2>6
<1>12. ASSUME NEW r \in Requests, UpdateWrite(r) PROVE UnknownOrRaced'
  <2> DEFINE a == target[r]
  <2>1. UNCHANGED <<django, found, asks, evicting>> /\ raced \subseteq raced'
    BY <1>12 DEF UpdateWrite, Written, NoteRace
  <2>2. a \in Requests /\ a \in Stored
    BY <1>12 DEF UpdateWrite
  <2>3. \A q \in Requests : q # r => pc'[q] = pc[q]
    BY <1>12 DEF UpdateWrite, Goto, Respond, AfterUpdate
  <2>4. pc'[r] \in {"reread", "done"}
    BY <1>12 DEF UpdateWrite, Goto, Respond, AfterUpdate
  <2>5. CASE row' = row
    BY <2>1, <2>3, <2>4, <2>5
  <2>6. CASE ~(row' = row)
    <3>1. /\ row'[a] = snap[r] /\ \A b \in Requests \ {a} : row'[b] = row[b]
          /\ ~JwkTaken(a, snap[r].jwk)
      BY <1>12, <2>2, <2>6 DEF UpdateWrite, WriteSnapshot
    <3>2. CASE ~django
      BY <2>1, <2>2, <3>1, <3>2 DEF JwkTaken
    <3>3. CASE django
      <4>1. \A q \in Storing(snap[r].jwk) \ {r} : snap[r].jwk \in raced'
        BY <1>12, <2>6, <3>3 DEF UpdateWrite, Written, NoteRace
      <4> QED
        BY <2>1, <2>2, <2>3, <2>4, <3>1, <3>3, <4>1, SMTT(30) DEF Storing
    <3> QED
      BY <3>2, <3>3
  <2> QED
    BY <2>5, <2>6
<1>13. ASSUME NEW r \in Requests, Reread(r) PROVE UnknownOrRaced'
  BY <1>13 DEF Reread, Goto, Respond, Tell, Stored
<1>14. ASSUME NEW k \in Kids, RemoveKid(k) PROVE UnknownOrRaced'
  BY <1>14 DEF RemoveKid
<1>15. CASE Tick
  BY <1>15 DEF Tick
<1>16. CASE UNCHANGED vars
  BY <1>16 DEF vars
<1> QED
  BY <1>1, <1>2, <1>3, <1>4, <1>5, <1>6, <1>7, <1>8, <1>9, <1>10, <1>11, <1>12, <1>13, <1>14, <1>15, <1>16 DEF Next, Serve


\* Rows change in four actions only; what else happens adds to the history.
QuietStep ==
    /\ UNCHANGED <<django, row, meant, shown, overlapped>>
    /\ asked \subseteq asked' /\ unbound \subseteq unbound' /\ raced \subseteq raced'
LoudStep ==
    \E r \in Requests :
        RegisterAgain(r) \/ AddAccount(r) \/ UpdateRead(r) \/ UpdateWrite(r)

LEMMA AccountSteps == [Next]_vars => QuietStep \/ LoudStep
<1> SUFFICES ASSUME [Next]_vars, ~LoudStep PROVE QuietStep
  OBVIOUS
<1> USE DEF QuietStep, vars, rowVars, localVars, ghostVars
<1>1. ASSUME NEW r \in Requests, Receive(r) PROVE QuietStep
  BY <1>1 DEF Receive
<1>2. ASSUME NEW r \in Requests, CheckRegistration(r) PROVE QuietStep
  BY <1>2 DEF CheckRegistration
<1>3. ASSUME NEW r \in Requests, FindKey(r) PROVE QuietStep
  BY <1>3 DEF FindKey
<1>4. ASSUME NEW r \in Requests, ReturnExisting(r) PROVE QuietStep
  BY <1>4 DEF ReturnExisting
<1>5. ASSUME NEW r \in Requests, CheckEab(r) PROVE QuietStep
  BY <1>5 DEF CheckEab
<1>6. ASSUME NEW r \in Requests, CheckSignature(r) PROVE QuietStep
  BY <1>6 DEF CheckSignature
<1>7. ASSUME NEW r \in Requests, FindAccount(r) PROVE QuietStep
  BY <1>7 DEF FindAccount
<1>8. ASSUME NEW r \in Requests, FindNewKey(r) PROVE QuietStep
  BY <1>8 DEF FindNewKey
<1>9. ASSUME NEW r \in Requests, Reread(r) PROVE QuietStep
  BY <1>9 DEF Reread
<1>10. ASSUME NEW k \in Kids, RemoveKid(k) PROVE QuietStep
  BY <1>10 DEF RemoveKid
<1>11. CASE Tick
  BY <1>11 DEF Tick
<1> QED
  BY <1>1, <1>2, <1>3, <1>4, <1>5, <1>6, <1>7, <1>8, <1>9, <1>10, <1>11
     DEF Next, Serve, LoudStep

\* Every write keeps what the completed writes meant, unless they overlap.
LEMMA AccountUpdates == AllInv /\ [Next]_vars => UpdatesKept'
<1> SUFFICES ASSUME AllInv, [Next]_vars PROVE UpdatesKept'
  OBVIOUS
<1> USE DEF AllInv, AccountInv, TypeOK, RowsKnown, UpdatesKept, Stored, rowVars
<1>1. CASE QuietStep
  BY <1>1 DEF QuietStep
<1>2. ASSUME NEW r \in Requests, RegisterAgain(r) PROVE UpdatesKept'
  BY <1>2 DEF RegisterAgain
<1>3. ASSUME NEW r \in Requests, AddAccount(r) PROVE UpdatesKept'
  BY <1>3 DEF AddAccount
<1>4. ASSUME NEW r \in Requests, UpdateRead(r) PROVE UpdatesKept'
  <2> DEFINE a == target[r]
             s == Changed(r, row[a], Value(r))
  <2>1. a \in Requests
    BY <1>4 DEF UpdateRead
  <2>2. overlapped \subseteq overlapped'
    BY <1>4 DEF UpdateRead, Written, NoteOverlap
  <2>3. CASE UNCHANGED <<row, meant>>
    BY <2>2, <2>3
  <2>4. CASE row' = [row EXCEPT ![a] = s] /\ Written(r, s)
    <3>1. \A b \in Requests \ {a} : row'[b] = row[b] /\ meant'[b] = meant[b]
      BY <2>1, <2>4 DEF Written
    <3>2. row'[a] = s /\ meant'[a] = Changed(r, meant[a], s)
      BY <2>1, <2>4 DEF Written
    <3>3. Changed(r, row[a], s) = s
      BY DEF Changed
    <3> QED
      BY <2>2, <3>1, <3>2, <3>3
  <2> QED
    BY <1>4, <2>3, <2>4 DEF UpdateRead
<1>5. ASSUME NEW r \in Requests, UpdateWrite(r) PROVE UpdatesKept'
  <2> DEFINE a == target[r]
  <2>1. a \in Requests /\ SnapshotFits(r)
    BY <1>5 DEF UpdateWrite
  <2>2. overlapped \subseteq overlapped'
    BY <1>5 DEF UpdateWrite, Written, NoteOverlap
  <2>3. CASE UNCHANGED <<row, meant>>
    BY <2>2, <2>3
  <2>4. CASE WriteSnapshot(r) /\ UNCHANGED meant /\ django
    BY <2>1, <2>2, <2>4 DEF WriteSnapshot, SnapshotFits
  <2>5. CASE WriteSnapshot(r) /\ Written(r, snap[r]) /\ ~django
    <3>1. \A b \in Requests \ {a} : row'[b] = row[b] /\ meant'[b] = meant[b]
      BY <2>1, <2>5 DEF Written, WriteSnapshot
    <3>2. row'[a] = snap[r] /\ meant'[a] = Changed(r, meant[a], snap[r])
      BY <2>1, <2>5 DEF Written, WriteSnapshot
    <3>3. a \in overlapped \/ Changed(r, row[a], snap[r]) = snap[r]
      BY <2>1, <2>5 DEF SnapshotFits
    <3> QED
      BY <2>2, <3>1, <3>2, <3>3
  <2> QED
    BY <1>5, <2>3, <2>4, <2>5 DEF UpdateWrite
<1> QED
  BY <1>1, <1>2, <1>3, <1>4, <1>5, AccountSteps DEF LoudStep

\* What is written as deactivated has a cause, what is written as active has a
\* key that was shown.
LEMMA AccountJustified == AllInv /\ [Next]_vars => KeyWasShown' /\ DeactivatedForCause'
<1> DEFINE Justified == KeyWasShown /\ DeactivatedForCause
<1> SUFFICES ASSUME AllInv, [Next]_vars PROVE Justified'
  OBVIOUS
<1> USE DEF AllInv, AccountInv, TypeOK, RowsKnown, CausesKept, KeyWasShown,
            DeactivatedForCause, Stored, rowVars
<1>1. CASE QuietStep
  BY <1>1 DEF QuietStep
<1>2. ASSUME NEW r \in Requests, RegisterAgain(r) PROVE Justified'
  <2>1. \A a \in Requests : row'[a].status = row[a].status /\ row'[a].jwk = row[a].jwk
    BY <1>2 DEF RegisterAgain, WithContact
  <2> QED
    BY <1>2, <2>1 DEF RegisterAgain
<1>3. ASSUME NEW r \in Requests, AddAccount(r) PROVE Justified'
  BY <1>3 DEF AddAccount
<1>4. ASSUME NEW r \in Requests, UpdateRead(r) PROVE Justified'
  <2> DEFINE a == target[r]
             s == Changed(r, row[a], Value(r))
  <2>1. a \in Requests /\ UNCHANGED <<asked, unbound>>
    BY <1>4 DEF UpdateRead
  <2>2. CASE UNCHANGED <<row, shown>>
    BY <2>1, <2>2
  <2>3. CASE row' = [row EXCEPT ![a] = s] /\ Written(r, s)
    <3>1. /\ row'[a] = s
          /\ \A b \in Requests \ {a} : row'[b] = row[b]
          /\ \A b \in Requests : shown[b] \subseteq shown'[b]
      BY <2>1, <2>3 DEF Written
    <3>2. CASE r \in evicting \/ asks[r] = "deactivate"
      <4>1. s.status = "deactivated" /\ a \in asked \cup unbound
        BY <1>4, <3>2 DEF UpdateRead, Changed, Named, Value
      <4> HIDE DEF s
      <4> QED
        BY <2>1, <3>1, <4>1
    <3>3. CASE r \notin evicting /\ asks[r] = "contact"
      <4>1. s.status = row[a].status /\ s.jwk = row[a].jwk
        BY <3>3 DEF Changed, Named
      <4> HIDE DEF s
      <4> QED
        BY <2>1, <3>1, <4>1
    <3>4. CASE r \notin evicting /\ asks[r] = "rollover"
      <4>1. s.status = row[a].status /\ s.jwk = NewJwk[r]
        BY <3>4 DEF Changed, Named, Value
      <4>2. NewJwk[r] \in shown'[a]
        BY <2>1, <2>3, <3>4 DEF Written
      <4> HIDE DEF s
      <4> QED
        BY <2>1, <3>1, <4>1, <4>2
    <3> QED
      BY <1>4, <3>2, <3>3, <3>4 DEF UpdateRead
  <2> QED
    BY <1>4, <2>2, <2>3 DEF UpdateRead
<1>5. ASSUME NEW r \in Requests, UpdateWrite(r) PROVE Justified'
  <2> DEFINE a == target[r]
  <2>1. a \in Requests /\ SnapshotFits(r) /\ UNCHANGED <<asked, unbound>>
    BY <1>5 DEF UpdateWrite
  <2>2. CASE UNCHANGED <<row, shown>>
    BY <2>1, <2>2
  <2>3. CASE WriteSnapshot(r) /\ (django => UNCHANGED shown)
                              /\ (~django => Written(r, snap[r]))
    <3>1. /\ row'[a] = snap[r]
          /\ \A b \in Requests \ {a} : row'[b] = row[b]
          /\ \A b \in Requests : shown[b] \subseteq shown'[b]
      BY <2>1, <2>3 DEF WriteSnapshot, Written
    <3>2. ~django /\ asks[r] = "rollover" /\ r \notin evicting => NewJwk[r] \in shown'[a]
      BY <2>1, <2>3 DEF Written
    <3> QED
      BY <2>1, <3>1, <3>2 DEF SnapshotFits
  <2> QED
    BY <1>5, <2>2, <2>3 DEF UpdateWrite
<1> QED
  BY <1>1, <1>2, <1>3, <1>4, <1>5, AccountSteps DEF LoudStep

\* A second active account of a jwk comes from a race or an overlap.
LEMMA AccountUnique == AllInv /\ [Next]_vars /\ UnknownOrRaced' => OneAccountPerJwk'
<1> SUFFICES ASSUME AllInv, [Next]_vars, UnknownOrRaced' PROVE OneAccountPerJwk'
  OBVIOUS
<1> USE DEF AllInv, AccountInv, TypeOK, RowsKnown, CausesKept, OneAccountPerJwk, Stored, rowVars
<1>1. CASE ~django'
  BY <1>1 DEF UnknownOrRaced
<1>2. CASE QuietStep
  BY <1>2 DEF QuietStep
<1>3. ASSUME NEW r \in Requests, RegisterAgain(r) PROVE OneAccountPerJwk'
  <2>1. \A a \in Requests : row'[a].status = row[a].status /\ row'[a].jwk = row[a].jwk
    BY <1>3 DEF RegisterAgain, WithContact
  <2>2. overlapped \subseteq overlapped' /\ UNCHANGED <<raced, django>>
    BY <1>3 DEF RegisterAgain
  <2> QED
    BY <2>1, <2>2
<1>4. ASSUME NEW r \in Requests, AddAccount(r), django' PROVE OneAccountPerJwk'
  <2>1. /\ raced \subseteq raced' /\ UNCHANGED <<django, overlapped>>
        /\ \A a \in Requests \ {r} : row'[a] = row[a]
    BY <1>4 DEF AddAccount, NoteRace
  <2>2. row' = row \/ row'[r].jwk = JwkOf[r]
    BY <1>4 DEF AddAccount
  <2>3. \A b \in Stored : row[b].jwk = JwkOf[r] => JwkOf[r] \in raced
    BY <1>4, <2>1 DEF AddAccount, UnknownOrRaced
  <2> QED
    BY <1>4, <2>1, <2>2, <2>3
<1>5. ASSUME NEW r \in Requests, UpdateRead(r), django' PROVE OneAccountPerJwk'
  <2> DEFINE a == target[r]
             s == Changed(r, row[a], Value(r))
  <2>1. a \in Requests /\ UNCHANGED django
    BY <1>5 DEF UpdateRead
  <2>2. raced \subseteq raced' /\ overlapped \subseteq overlapped'
    BY <1>5 DEF UpdateRead, Written, NoteRace, NoteOverlap
  <2>3. CASE row' = row
    BY <2>1, <2>2, <2>3
  <2>4. CASE row' = [row EXCEPT ![a] = s]
    <3>1. row'[a] = s /\ \A b \in Requests \ {a} : row'[b] = row[b]
      BY <2>1, <2>4
    <3>2. \/ s.status = "deactivated"
          \/ s.status = row[a].status /\ s.jwk = row[a].jwk
          \/ s.jwk = NewJwk[r] /\ asks[r] = "rollover" /\ r \notin evicting
      BY <1>5 DEF UpdateRead, Changed, Named, Value
    <3>3. asks[r] = "rollover" /\ r \notin evicting =>
            \A b \in Stored : row[b].jwk = NewJwk[r] => NewJwk[r] \in raced
      BY <1>5, <2>1 DEF UpdateRead, UnknownOrRaced
    <3> HIDE DEF s
    <3> QED
      BY <1>5, <2>1, <2>2, <3>1, <3>2, <3>3
  <2> QED
    BY <1>5, <2>3, <2>4 DEF UpdateRead
<1>6. ASSUME NEW r \in Requests, UpdateWrite(r), django' PROVE OneAccountPerJwk'
  <2> DEFINE a == target[r]
  <2>1. a \in Requests /\ SnapshotFits(r) /\ UNCHANGED django
    BY <1>6 DEF UpdateWrite
  <2>2. raced \subseteq raced' /\ overlapped \subseteq overlapped'
    BY <1>6 DEF UpdateWrite, Written, NoteRace, NoteOverlap
  <2>3. a \in overlapped \/ row' = row
    BY <1>6, <2>1 DEF UpdateWrite, WriteSnapshot, SnapshotFits
  <2>4. \A b \in Requests \ {a} : row'[b] = row[b]
    BY <1>6, <2>1 DEF UpdateWrite, WriteSnapshot
  <2> QED
    BY <1>6, <2>1, <2>2, <2>3, <2>4
<1> QED
  BY <1>1, <1>2, <1>3, <1>4, <1>5, <1>6, AccountSteps DEF LoudStep

\* AllInv holds throughout every behaviour.
LEMMA AccountInvariance == Spec => []AllInv
<1>1. AllInv /\ [Next]_vars => AllInv'
  <2> SUFFICES ASSUME AllInv, [Next]_vars PROVE AllInv'
    OBVIOUS
  <2>1. TypeOK /\ RowsKnown /\ CausesKept /\ UnknownOrRaced /\ Snapshots
    BY DEF AllInv, AccountInv, Snapshots
  <2>2. TypeOK' /\ RowsKnown' /\ CausesKept' /\ UnknownOrRaced'
    BY <2>1, AccountType, AccountRows, AccountCauses, AccountKeys
  <2>3. Snapshots'
    BY AccountSnapshots
  <2>4. KeyWasShown' /\ DeactivatedForCause' /\ UpdatesKept'
    BY AccountJustified, AccountUpdates
  <2>5. OneAccountPerJwk'
    BY <2>2, AccountUnique
  <2> QED
    BY <2>2, <2>3, <2>4, <2>5 DEF AllInv, AccountInv, Snapshots
<1> QED
  BY <1>1, AccountInit, PTL DEF Spec

\* The inductive invariant of accounts: types, known names, causes and what an
\* update is about to write.
THEOREM AccountInvariant == Spec => []AccountInv
<1>1. AllInv => AccountInv
  BY DEF AllInv
<1> QED
  BY <1>1, AccountInvariance, PTL

\* Two active accounts have one key only if clients signed with it in two ways of
\* writing its jwk, which account_add and _validate_key_change compare as text; or
\* with django, after a race for the jwk or overlapping updates.
THEOREM AccountsHaveTheirKey == Spec => []OneAccountPerKey
<1>1. AllInv => OneAccountPerKey
  BY DEF AllInv, OneAccountPerJwk, OneAccountPerKey, KeyWasShown
<1> QED
  BY <1>1, AccountInvariance, PTL

\* An account shows what the completed updates wrote unless they overlapped:
\* account_update writes back all columns it read.
THEOREM AccountUpdatesKept == Spec => []UpdatesKept
<1>1. AllInv => UpdatesKept
  BY DEF AllInv
<1> QED
  BY <1>1, AccountInvariance, PTL

\* Whatever stale row is written back, the key of an active account is one its
\* client proved to hold.
THEOREM AccountKeyShown == Spec => []KeyWasShown
<1>1. AllInv => KeyWasShown
  BY DEF AllInv
<1> QED
  BY <1>1, AccountInvariance, PTL

\* An account is deactivated on a signed request or for missing credentials.
THEOREM AccountDeactivation == Spec => []DeactivatedForCause
<1>1. AllInv => DeactivatedForCause
  BY DEF AllInv
<1> QED
  BY <1>1, AccountInvariance, PTL
=============================================================================
