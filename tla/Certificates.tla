---------------------------- MODULE Certificates ----------------------------
(***************************************************************************)
(* The certificate table of acme2certifier and everything that works on    *)
(* it: the enrollment thread, the poll tool, the cleanup and date update   *)
(* of the housekeeping, the one-time completion of serial numbers by the   *)
(* renewal information, and the requests that download a certificate,      *)
(* revoke it or mark it as replaced.                                       *)
(*                                                                         *)
(* One database call is one step.  certificate_add is two of them with     *)
(* both database handlers: wsgi looks for the row, takes over the columns  *)
(* the caller does not name, and writes all; django updates or creates the *)
(* row and then saves the object once more.                                *)
(***************************************************************************)
EXTENDS Integers, FiniteSets

CONSTANTS
    Rows,                \* rows of the table: one per accepted CSR
    Legacy,              \* rows of an older version, without serial number
    Jobs, JobKinds,      \* tools and requests, and what each one may do
    Accounts, Csr,
    Backends,            \* database handlers of the deployments: TRUE is django
    ReuseTime,           \* cert_reusage_timeframe, 0 switches it off
    Life,                \* validity of a certificate
    InFlight,            \* the time a CSR may take to become a certificate
    MaxTime,
    Faults,              \* what may go wrong: "db"
    NoRow, Removed

Kinds   == {"cleanup", "purge", "dates", "backfill", "poll", "download", "revoke",
            "replace"}
Tools   == {"cleanup", "purge", "dates", "backfill", "poll"}
Writers == Rows \cup Jobs

ASSUME CertificatesAssumption ==
    /\ Legacy \subseteq Rows /\ Rows \cap Jobs = {}
    /\ JobKinds \in [Jobs -> SUBSET Kinds]
    /\ DOMAIN Csr = Rows
    /\ Backends \subseteq BOOLEAN
    /\ {ReuseTime, InFlight, MaxTime} \subseteq Nat /\ Life \in Nat \ {0}
    /\ {NoRow, Removed} \cap (Rows \cup Accounts) = {} /\ NoRow # Removed

VARIABLES
    django, now,
    owner,               \* account of the order of a row
    row,                 \* the certificate table, see Row
    order,               \* status of the order of a row
    filled,              \* housekeeping parameter cert_aki_serial_update
    validTo,             \* end of the certificate a CA issued for a row, or 0
    revoked,             \* certificates a CA revoked, with the account that asked
    pc, pend,            \* the write a process is about to do
    kind, todo, seen, ts, \* locals of a tool: rows it found and still handles
    acct, ask,           \* locals of a request
    \* history, never read by the program:
    served,              \* certificates sent to an account
    kept,                \* certificate the last completed store of a row wrote
    marked,              \* rows marked as replaced
    overlapped           \* rows written while another process knew an older state

tableVars == <<row, order, filled, validTo, revoked>>
jobVars   == <<kind, todo, seen, ts, acct, ask>>
ghostVars == <<served, kept, marked, overlapped>>
vars == <<django, now, owner, tableVars, pc, pend, jobVars, ghostVars>>

\* expire stands for both dates, which are stored together; an orphan is a row
\* without order, which no lookup of the wsgi handler finds
Row == [there : {"no", "yes", "orphan"}, cert : Rows \cup {NoRow, Removed},
        raw : Rows \cup {NoRow}, expire : Nat, serial : BOOLEAN,
        replaced : BOOLEAN, poll : BOOLEAN, created : Nat]
Blank == [there |-> "no", cert |-> NoRow, raw |-> NoRow, expire |-> 0,
          serial |-> FALSE, replaced |-> FALSE, poll |-> FALSE, created |-> 0]
NoWrite == [what |-> "none", row |-> NoRow, new |-> Blank]

Init ==
    /\ django \in Backends
    /\ now = 0
    /\ owner \in [Rows -> Accounts]
    /\ \E undated \in SUBSET Legacy :
          row = [r \in Rows |->
                   IF r \notin Legacy THEN Blank
                   ELSE [Blank EXCEPT !.there = "yes", !.cert = r, !.raw = r,
                                      !.expire = IF r \in undated THEN 0 ELSE Life]]
    /\ order = [r \in Rows |-> IF r \in Legacy THEN "valid" ELSE "none"]
    /\ filled = FALSE /\ revoked = {}
    /\ validTo = [r \in Rows |-> IF r \in Legacy THEN Life ELSE 0]
    /\ pc = [w \in Writers |-> IF w \in Legacy THEN "done" ELSE "idle"]
    /\ pend = [w \in Writers |-> NoWrite]
    /\ kind = [j \in Jobs |-> "none"]
    /\ todo = [j \in Jobs |-> {}]
    /\ seen = [j \in Jobs |-> [r \in Rows |-> Blank]]
    /\ ts = [j \in Jobs |-> 0]
    /\ acct = [j \in Jobs |-> NoRow]
    /\ ask = [j \in Jobs |-> NoRow]
    /\ served = {}
    /\ kept = [r \in Rows |-> IF r \in Legacy THEN r ELSE NoRow]
    /\ marked = {} /\ overlapped = {}

-----------------------------------------------------------------------------
(* Helpers                                                                 *)

Found(r) == row[r].there = "yes"
Goto(w, label) == pc' = [pc EXCEPT ![w] = label]
\* the end of a write, or of its first part: the order is still to be updated
Proceed(w, label) ==
    /\ Goto(w, label)
    /\ pend' = IF label = "order" THEN pend ELSE [pend EXCEPT ![w] = NoWrite]
\* a tool or request ends and its variables are gone
End(j) ==
    /\ Proceed(j, "done")
    /\ kind' = [kind EXCEPT ![j] = "none"] /\ ts' = [ts EXCEPT ![j] = 0]
    /\ acct' = [acct EXCEPT ![j] = NoRow] /\ ask' = [ask EXCEPT ![j] = NoRow]
    /\ todo' = [todo EXCEPT ![j] = {}]
    /\ seen' = [seen EXCEPT ![j] = [r \in Rows |-> Blank]]
\* w writes the columns of new that what stands for
Write(w, what, r, new) ==
    /\ pend' = [pend EXCEPT ![w] = [what |-> what, row |-> r, new |-> new]]
    /\ Goto(w, "write")

\* the columns a caller of certificate_add names; variant with a bug: a store
\* leaves the dates to the date update
NamedUndated(what) ==
    CASE what = "store"    -> {"cert", "raw", "serial", "poll"}
      [] what = "clear"    -> {"cert", "raw"}
      [] what = "backfill" -> {"cert", "raw", "serial"}
      [] OTHER             -> {"poll"}
Named(what) ==
    CASE what = "store"    -> {"cert", "raw", "expire", "serial", "poll"}
      [] what = "clear"    -> {"cert", "raw", "expire"}
      [] what = "backfill" -> {"cert", "raw", "serial"}
      [] what \in {"error", "rejected"} -> {"poll"}
      [] OTHER             -> {}
\* other columns stay as they are in the row, except that the wsgi handler sets
\* dates to 0 when a certificate is written without dates; variant with a bug:
\* the flag replaced is reset with them
MergeReset(what, old, new) ==
    [f \in DOMAIN old |->
        IF f \in Named(what) THEN new[f]
        ELSE IF f = "replaced" THEN FALSE ELSE old[f]]
Merge(what, old, new) ==
    [f \in DOMAIN old |->
        IF f \in Named(what) THEN new[f]
        ELSE IF f = "expire" /\ ~django /\ what = "backfill" THEN 0
        ELSE old[f]]

\* the record of a certificate c with its dates and serial number
Entry(c, poll) == [Blank EXCEPT !.cert = c, !.raw = c, !.expire = validTo[c],
                                !.serial = TRUE, !.poll = poll]

\* w2 goes on with what it read of row r before
Knows(w2, r) ==
    \/ pc[w2] = "again" /\ pend[w2].row = r
    \/ /\ w2 \in Jobs
       /\ \/ kind[w2] # "poll" /\ r \in todo[w2]
          \/ kind[w2] # "poll" /\ pc[w2] = "write" /\ pend[w2].row = r
          \/ pc[w2] = "delete" /\ pend[w2].row = r
NoteOverlap(w, r) ==
    overlapped' = IF \E w2 \in Writers \ {w} : Knows(w2, r)
                    THEN overlapped \cup {r} ELSE overlapped

-----------------------------------------------------------------------------
(* Enrollment: the CSR is stored, an earlier certificate for the same CSR  *)
(* may be reused, otherwise a CA issues one, asks to poll or refuses       *)

StoreCsr(r) ==
    /\ pc[r] = "idle"
    /\ row' = [row EXCEPT ![r] = [Blank EXCEPT !.there = "yes", !.created = now]]
    /\ order' = [order EXCEPT ![r] = "processing"]
    /\ Goto(r, IF ReuseTime > 0 THEN "reuse" ELSE "enroll")
    /\ UNCHANGED <<django, now, owner, filled, validTo, revoked, pend, jobVars, ghostVars>>

\* a row that cleanup has cleared passes as well, at the second of its expiry;
\* variants with a bug: the account, or the expiry date is not compared
ReusableAny(r) ==
    {s \in Rows : /\ Found(s) /\ Csr[s] = Csr[r]
                  /\ row[s].raw # NoRow /\ row[s].cert # NoRow
                  /\ now - ReuseTime <= row[s].created /\ now <= row[s].expire}
Reusable(r) ==
    {s \in Rows : /\ Found(s) /\ Csr[s] = Csr[r] /\ owner[s] = owner[r]
                  /\ row[s].raw # NoRow /\ row[s].cert # NoRow
                  /\ now - ReuseTime <= row[s].created /\ now <= row[s].expire}
Latest(S) == {s \in S : \A t \in S : row[t].expire <= row[s].expire}

\* the text of a cleared row is no certificate: the thread ends with an error and
\* the order stays in processing
Reuse(r) ==
    /\ pc[r] = "reuse"
    /\ \/ \E s \in Latest(Reusable(r)) :
             \/ row[s].cert = Removed /\ Goto(r, "done") /\ UNCHANGED pend
             \/ row[s].cert # Removed /\ Write(r, "store", r, Entry(row[s].cert, TRUE))
       \/ /\ Reusable(r) = {} \/ "db" \in Faults
          /\ Goto(r, "enroll") /\ UNCHANGED pend
    /\ UNCHANGED <<django, now, owner, tableVars, jobVars, ghostVars>>

Enroll(r) ==
    /\ pc[r] = "enroll"
    /\ \/ /\ validTo' = [validTo EXCEPT ![r] = now + Life]
          /\ Write(r, "store", r, [Blank EXCEPT !.cert = r, !.raw = r,
                !.expire = now + Life, !.serial = TRUE])
          /\ UNCHANGED order
       \/ /\ Write(r, "error", r, [Blank EXCEPT !.poll = TRUE])
          /\ UNCHANGED <<order, validTo>>
       \/ /\ order' = [order EXCEPT ![r] = "invalid"]
          /\ Write(r, "error", r, Blank)
          /\ UNCHANGED validTo
    /\ UNCHANGED <<django, now, owner, row, filled, revoked, jobVars, ghostVars>>

-----------------------------------------------------------------------------
(* certificate_add, by a thread or a tool                                  *)

AfterWrite(w) ==
    IF pend[w].what \in {"store", "rejected"} /\ (w \in Rows \/ kind[w] = "poll")
      THEN "order" ELSE IF w \in Rows THEN "done" ELSE "row"

\* a failed call is logged: the thread leaves the order as it is, the poll tool
\* updates it whatever the result was; the completion of serial numbers ends
\* before it is noted as done
Fail(w) ==
    /\ \/ w \in Rows /\ Proceed(w, "done") /\ UNCHANGED jobVars
       \/ w \in Jobs /\ kind[w] # "backfill" /\ Proceed(w, AfterWrite(w)) /\ UNCHANGED jobVars
       \/ w \in Jobs /\ kind[w] = "backfill" /\ End(w)
    /\ UNCHANGED <<row, kept, overlapped>>

FirstCall(w) ==
    /\ pc[w] = "write"
    /\ LET r == pend[w].row
           merged == Merge(pend[w].what, row[r], pend[w].new)
       IN
       \/ /\ Found(r) /\ ~django
          /\ pend' = [pend EXCEPT ![w].new = merged]
          /\ Goto(w, "again")
          /\ UNCHANGED <<row, jobVars, kept, overlapped>>
       \/ /\ Found(r) /\ django
          /\ row' = [row EXCEPT ![r] = merged]
          /\ pend' = [pend EXCEPT ![w].new = merged]
          /\ NoteOverlap(w, r)
          /\ kept' = IF pend[w].what = "store" THEN [kept EXCEPT ![r] = merged.cert] ELSE kept
          /\ Goto(w, "again") /\ UNCHANGED jobVars
       \/ /\ row[r].there = "no" /\ ~django
          /\ row' = [row EXCEPT ![r] = [Blank EXCEPT !.there = "orphan", !.created = now]]
          /\ NoteOverlap(w, r)
          /\ Proceed(w, AfterWrite(w))
          /\ UNCHANGED <<jobVars, kept>>
       \/ /\ "db" \in Faults \/ row[r].there = "orphan" \/ (django /\ ~Found(r))
          /\ Fail(w)
    /\ UNCHANGED <<django, now, owner, order, filled, validTo, revoked, served, marked>>

\* wsgi: the columns taken over may have changed, and the row may be gone;
\* django: the object is saved as the first call left it, and inserted if need be
SecondCall(w) ==
    /\ pc[w] = "again"
    /\ LET r == pend[w].row IN
       \/ /\ row[r].there # "no" \/ django
          /\ row' = [row EXCEPT ![r] =
                       IF django THEN pend[w].new
                       ELSE IF pend[w].what \in {"error", "rejected"}
                         THEN [@ EXCEPT !.poll = pend[w].new.poll]
                         ELSE [pend[w].new EXCEPT !.there = row[r].there]]
          /\ NoteOverlap(w, r)
          /\ kept' = IF pend[w].what = "store" THEN [kept EXCEPT ![r] = pend[w].new.cert]
                     ELSE kept
          /\ Proceed(w, AfterWrite(w)) /\ UNCHANGED jobVars
       \/ /\ row[r].there = "no" /\ ~django
          /\ Proceed(w, AfterWrite(w))
          /\ UNCHANGED <<row, jobVars, kept, overlapped>>
       \/ "db" \in Faults /\ Fail(w)
    /\ UNCHANGED <<django, now, owner, order, filled, validTo, revoked, served, marked>>

\* after a store the thread, or its worker, and the poll tool set the order to
\* valid; after a rejection the poll tool sets it to invalid
SetOrder(w) ==
    /\ pc[w] = "order"
    /\ \/ order' = [order EXCEPT ![pend[w].row] =
                      IF pend[w].what = "store" THEN "valid" ELSE "invalid"]
       \/ "db" \in Faults /\ UNCHANGED order
    /\ Proceed(w, IF w \in Rows THEN "done" ELSE "row")
    /\ UNCHANGED <<django, now, owner, row, filled, validTo, revoked, jobVars, ghostVars>>

-----------------------------------------------------------------------------
(* Tools                                                                   *)

Start(j) ==
    /\ pc[j] = "idle"
    /\ \E k \in JobKinds[j] :
          /\ kind' = [kind EXCEPT ![j] = k]
          /\ ts' = [ts EXCEPT ![j] = IF k \in {"cleanup", "purge"} THEN now ELSE 0]
          /\ k = "backfill" => ~filled
          /\ Goto(j, IF k \in Tools THEN "select" ELSE "lookup")
    /\ UNCHANGED <<django, now, owner, tableVars, pend, todo, seen, acct, ask, ghostVars>>

\* the rows a tool searches for
Wanted(j) ==
    {r \in Rows :
        /\ Found(r)
        /\ CASE kind[j] \in {"cleanup", "purge"} -> row[r].expire <= ts[j]
             [] kind[j] = "dates"    -> row[r].expire = 0
             [] kind[j] = "backfill" -> ~row[r].serial
             [] OTHER                -> order[r] = "processing"}

Select(j) ==
    /\ pc[j] = "select"
    /\ \/ /\ todo' = [todo EXCEPT ![j] = Wanted(j)]
          /\ seen' = [seen EXCEPT ![j] =
                        [r \in Rows |-> IF r \in Wanted(j) THEN row[r] ELSE Blank]]
       \/ "db" \in Faults /\ UNCHANGED <<todo, seen>>
    /\ Goto(j, "row")
    /\ UNCHANGED <<django, now, owner, tableVars, pend, kind, ts, acct, ask, ghostVars>>

\* _check_invalidation: an expired certificate, a CSR that is old enough, or a
\* row cleared before; variant with a bug: a row without date counts as expired
ClearableUndated(s, t, purge) ==
    IF s.cert = Removed THEN purge
    ELSE s.expire # 0 \/ s.raw # NoRow \/ s.created < t - InFlight
Clearable(s, t, purge) ==
    IF s.cert = Removed THEN purge
    ELSE IF s.expire # 0 THEN TRUE
    ELSE IF s.raw # NoRow THEN validTo[s.raw] < t
    ELSE 0 < s.created /\ s.created < t - InFlight

CleanRow(j, r, s) ==
    \/ ~Clearable(s, ts[j], kind[j] = "purge") /\ Goto(j, "row") /\ UNCHANGED pend
    \/ /\ Clearable(s, ts[j], kind[j] = "purge") /\ kind[j] = "purge"
       /\ pend' = [pend EXCEPT ![j] = [what |-> "delete", row |-> r, new |-> s]]
       /\ Goto(j, "delete")
    \/ /\ Clearable(s, ts[j], kind[j] = "purge") /\ kind[j] = "cleanup"
       /\ Write(j, "clear", r,
                [s EXCEPT !.cert = Removed,
                          !.expire = IF s.raw = NoRow THEN @ ELSE validTo[s.raw]])

\* a cleared row whose dates were reset: the error ends the whole update
Stops(j, s) == kind[j] = "dates" /\ s.raw # NoRow /\ s.cert = Removed
DateRow(j, r, s) ==
    IF s.raw # NoRow /\ s.cert # Removed THEN Write(j, "store", r, Entry(s.raw, FALSE))
    ELSE Goto(j, "row") /\ UNCHANGED pend
FillRow(j, r, s) ==
    IF s.raw # NoRow THEN Write(j, "backfill", r, [s EXCEPT !.serial = TRUE])
    ELSE Goto(j, "row") /\ UNCHANGED pend

\* The poll tool asks the CA about rows with a poll identifier
PollRow(j, r, s) ==
    \/ /\ s.poll
       /\ validTo' = [validTo EXCEPT ![r] = IF @ = 0 THEN now + Life ELSE @]
       /\ Write(j, "store", r, [Blank EXCEPT !.cert = r, !.raw = r,
                !.expire = IF validTo[r] = 0 THEN now + Life ELSE validTo[r],
                !.serial = TRUE])
    \/ /\ s.poll /\ validTo[r] = 0
       /\ \E what \in {"error", "rejected"} : Write(j, what, r, s)
       /\ UNCHANGED validTo
    \/ Goto(j, "row") /\ UNCHANGED <<pend, validTo>>

HandleRow(j) ==
    /\ pc[j] = "row"
    /\ \E r \in todo[j] :
          /\ LET s == seen[j][r] IN
             /\ todo' = [todo EXCEPT ![j] = IF Stops(j, s) THEN {} ELSE @ \ {r}]
             /\ seen' = [seen EXCEPT ![j][r] = Blank]
             /\ \/ kind[j] \in {"cleanup", "purge"} /\ CleanRow(j, r, s) /\ UNCHANGED validTo
                \/ kind[j] = "dates" /\ DateRow(j, r, s) /\ UNCHANGED validTo
                \/ kind[j] = "backfill" /\ FillRow(j, r, s) /\ UNCHANGED validTo
                \/ kind[j] = "poll" /\ PollRow(j, r, s)
    /\ UNCHANGED <<django, now, owner, row, order, filled, revoked, kind, ts, acct, ask, ghostVars>>

Delete(j) ==
    /\ pc[j] = "delete"
    /\ LET r == pend[j].row IN
       \/ /\ row' = [row EXCEPT ![r] = Blank]
          /\ NoteOverlap(j, r)
       \/ "db" \in Faults /\ UNCHANGED <<row, overlapped>>
    /\ Proceed(j, "row")
    /\ UNCHANGED <<django, now, owner, order, filled, validTo, revoked, jobVars, served, kept, marked>>

EndTool(j) ==
    /\ pc[j] = "row" /\ todo[j] = {}
    /\ filled' = (filled \/ kind[j] = "backfill")
    /\ End(j)
    /\ UNCHANGED <<django, now, owner, row, order, validTo, revoked, ghostVars>>

-----------------------------------------------------------------------------
(* Requests                                                                *)

\* the account that asks must be that of the order
Allowed(a, r) == owner[r] = a
\* a download names the row, a revocation sends the certificate, a replacement
\* names its serial number; more checks (reason, authorizations) may refuse
ToDownload(a, c, r) == r = c /\ Allowed(a, r)
ToRevoke(a, c, r)   == row[r].raw = c /\ Allowed(a, r)
ToReplace(a, c, r)  == row[r].raw = c /\ Allowed(a, r)

Lookup(j) ==
    /\ pc[j] = "lookup"
    /\ \/ \E a \in Accounts, c, r \in Rows :
             /\ validTo[c] # 0 /\ Found(r)
             /\ \/ kind[j] = "download" /\ ToDownload(a, c, r)
                \/ kind[j] = "revoke" /\ ToRevoke(a, c, r)
                \/ kind[j] = "replace" /\ ToReplace(a, c, r)
             /\ acct' = [acct EXCEPT ![j] = a] /\ ask' = [ask EXCEPT ![j] = c]
             /\ pend' = [pend EXCEPT ![j] = [NoWrite EXCEPT !.row = r]]
             /\ Goto(j, kind[j]) /\ UNCHANGED <<kind, todo, seen, ts>>
       \/ End(j)
    /\ UNCHANGED <<django, now, owner, tableVars, ghostVars>>

Download(j) ==
    /\ pc[j] = "download"
    /\ \/ /\ Found(ask[j]) /\ order[ask[j]] = "valid"
          /\ served' = served \cup {<<acct[j], row[ask[j]].cert>>}
       \/ UNCHANGED served
    /\ End(j)
    /\ UNCHANGED <<django, now, owner, tableVars, kept, marked, overlapped>>

Revoke(j) ==
    /\ pc[j] = "revoke"
    /\ revoked' \in {revoked, revoked \cup {<<acct[j], ask[j]>>}}
    /\ End(j)
    /\ UNCHANGED <<django, now, owner, row, order, filled, validTo, ghostVars>>

\* certificate_replaced_update writes one column
MarkReplaced(j) ==
    /\ pc[j] = "replace"
    /\ LET r == pend[j].row IN
       \/ /\ Found(r)
          /\ row' = [row EXCEPT ![r].replaced = TRUE]
          /\ marked' = marked \cup {r}
          /\ NoteOverlap(j, r)
       \/ /\ ~Found(r) \/ "db" \in Faults
          /\ UNCHANGED <<row, marked, overlapped>>
    /\ End(j)
    /\ UNCHANGED <<django, now, owner, order, filled, validTo, revoked, served, kept>>

Tick ==
    /\ now < MaxTime
    /\ now' = now + 1
    /\ UNCHANGED <<django, owner, tableVars, pc, pend, jobVars, ghostVars>>

Thread(r) == StoreCsr(r) \/ Reuse(r) \/ Enroll(r)
Tool(j)   == Start(j) \/ Select(j) \/ HandleRow(j) \/ Delete(j) \/ EndTool(j)
Serve(j)  == Lookup(j) \/ Download(j) \/ Revoke(j) \/ MarkReplaced(j)
Store(w)  == FirstCall(w) \/ SecondCall(w) \/ SetOrder(w)

Next ==
    \/ \E r \in Rows : Thread(r)
    \/ \E j \in Jobs : Tool(j) \/ Serve(j)
    \/ \E w \in Writers : Store(w)
    \/ Tick

Spec == Init /\ [][Next]_vars

-----------------------------------------------------------------------------
(* Properties                                                              *)

ThreadPc == {"idle", "reuse", "enroll", "write", "again", "order", "done"}
JobPc    == {"idle", "select", "lookup", "row", "write", "again", "order", "delete",
             "download", "revoke", "replace", "done"}
What     == {"none", "store", "clear", "backfill", "error", "rejected", "delete"}

TypeOK ==
    /\ django \in BOOLEAN /\ now \in Nat /\ owner \in [Rows -> Accounts]
    /\ row \in [Rows -> Row]
    /\ order \in [Rows -> {"none", "processing", "valid", "invalid"}]
    /\ filled \in BOOLEAN /\ validTo \in [Rows -> Nat]
    /\ revoked \subseteq Accounts \X Rows
    /\ pc \in [Writers -> ThreadPc \cup JobPc]
    /\ pend \in [Writers -> [what : What, row : Rows \cup {NoRow}, new : Row]]
    /\ kind \in [Jobs -> Kinds \cup {"none"}] /\ ts \in [Jobs -> Nat]
    /\ todo \in [Jobs -> SUBSET Rows] /\ seen \in [Jobs -> [Rows -> Row]]
    /\ acct \in [Jobs -> Accounts \cup {NoRow}] /\ ask \in [Jobs -> Rows \cup {NoRow}]
    /\ served \subseteq Accounts \X (Rows \cup {NoRow, Removed})
    /\ kept \in [Rows -> Rows \cup {NoRow, Removed}]
    /\ marked \subseteq Rows /\ overlapped \subseteq Rows

\* A write is under way: it is about the row it was planned for, which the tool
\* has taken off its list, and of a sort the process writes.
Active(w) == pc[w] \in {"write", "again", "order", "delete"}
WritesOf(k) ==
    CASE k = "cleanup"  -> {"clear"}
      [] k = "purge"    -> {"delete"}
      [] k = "dates"    -> {"store"}
      [] k = "backfill" -> {"backfill"}
      [] k = "poll"     -> {"store", "error", "rejected"}
      [] OTHER          -> {}
ThreadInv(r) ==
    /\ pc[r] \in ThreadPc
    /\ Active(r) => pend[r].row = r /\ pend[r].what \in {"store", "error"}
JobInv(j) ==
    /\ pc[j] \in JobPc /\ ts[j] <= now
    /\ kind[j] \in Tools <=> pc[j] = "select" \/ pc[j] = "row" \/ Active(j)
    /\ todo[j] # {} => pc[j] = "row" \/ Active(j)
    /\ Active(j) =>
          /\ pend[j].row \in Rows \ todo[j] /\ pend[j].what \in WritesOf(kind[j])
          /\ pc[j] = "delete" <=> kind[j] = "purge"
          /\ pc[j] = "order" => kind[j] = "poll"
    /\ pc[j] \in {"download", "revoke"} => ask[j] \in Rows /\ owner[ask[j]] = acct[j]
    /\ pc[j] = "replace" => pend[j].row \in Rows
WorkInv == (\A r \in Rows : ThreadInv(r)) /\ (\A j \in Jobs : JobInv(j))

\* Nobody works on a row before its CSR is stored, and nobody asks a CA about it
\* before its thread has.
Untouched(r) ==
    /\ row[r] = Blank /\ kept[r] = NoRow /\ r \notin marked
    /\ \A j \in Jobs :
          /\ r \notin todo[j]
          /\ Active(j) \/ pc[j] = "replace" => pend[j].row # r
NotPolled(r) ==
    /\ validTo[r] = 0 /\ ~row[r].poll
    /\ \A j \in Jobs :
          /\ r \in todo[j] => ~seen[j][r].poll
          /\ Active(j) /\ pend[j].row = r => ~pend[j].new.poll
EarlyInv ==
    \A r \in Rows :
        /\ pc[r] = "idle" => Untouched(r)
        /\ pc[r] \in {"idle", "reuse", "enroll"} => NotPolled(r)

\* What a record of row r holds belongs together and to r.
Fits(r, s) ==
    /\ s.cert \in Rows => s.raw = s.cert
    /\ s.raw \in Rows =>
          owner[s.raw] = owner[r] /\ Csr[s.raw] = Csr[r] /\ validTo[s.raw] # 0
Complete(s) == s.cert \in Rows /\ s.raw = s.cert /\ s.expire = validTo[s.raw] /\ s.serial
RecordsFit ==
    /\ \A r \in Rows : Fits(r, row[r])
    /\ \A j \in Jobs : \A r \in todo[j] : Fits(r, seen[j][r])
    /\ \A w \in Writers : Active(w) =>
          /\ Fits(pend[w].row, pend[w].new)
          /\ pend[w].what = "store" => Complete(pend[w].new)
    /\ \A r \in Rows : kept[r] \in Rows => validTo[kept[r]] # 0

\* Dates are those of the certificate; only a row of an older version lacks its
\* dates or its serial number.
DatesFit(r, s) ==
    /\ s.raw \in Rows =>
          /\ s.expire = validTo[s.raw] \/ (s.expire = 0 /\ r \in Legacy)
          /\ s.serial \/ r \in Legacy
    /\ s.raw = NoRow => s.expire = 0

\* A process that knows row r from before knows it as it is, and its write will
\* take nothing from it that is still valid.
Expired(r) == row[r].cert \in Rows => validTo[row[r].cert] <= now
UpToDate(j, r) ==
    /\ seen[j][r] = row[r]
    /\ kind[j] \in {"cleanup", "purge"} => row[r].expire <= ts[j]
    /\ kind[j] = "backfill" => ~row[r].serial
Keeps(w, r) ==
    LET new == pend[w].new IN
    /\ pend[w].what = "clear" => /\ Expired(r) /\ new.cert = Removed
                                 /\ new.raw \in Rows => new.expire = validTo[new.raw]
                                 /\ new.raw = NoRow => new.expire = 0
                                 /\ new.raw = row[r].raw
    /\ pend[w].what = "backfill" => /\ new.cert = row[r].cert /\ new.raw = row[r].raw
                                    /\ new.raw \in Rows /\ r \in Legacy
HalfDone(w, r) ==
    /\ Found(r)
    /\ IF django THEN pend[w].new = row[r]
       ELSE /\ pend[w].new.there = row[r].there /\ pend[w].new.replaced = row[r].replaced
            /\ DatesFit(r, pend[w].new) /\ Keeps(w, r)
Calm(r) ==
    /\ DatesFit(r, row[r])
    /\ \A j \in Jobs : kind[j] # "poll" /\ r \in todo[j] => UpToDate(j, r)
    /\ \A w \in Writers : Active(w) /\ pend[w].row = r =>
          /\ pc[w] = "write" => Keeps(w, r)
          /\ pc[w] = "again" => HalfDone(w, r)
          /\ pc[w] = "delete" => Expired(r)

\* What the columns of a row, and of every copy of it that is still to be written
\* back, say together: a certificate and its raw form belong together, nothing is
\* polled for before it was enrolled, and as long as no write fell between a read
\* and the write that follows it, dates are those of the certificate and every
\* unfinished write knows the row as it is.
CertificatesInv ==
    /\ TypeOK /\ WorkInv /\ EarlyInv /\ RecordsFit
    /\ \A r \in Rows \ overlapped : Calm(r)

AnswersOwn ==
    \A x \in served \cup revoked : x[2] \in Rows => owner[x[2]] = x[1]

\* The certificate a row holds was issued for a CSR with the key of the row's own,
\* for the same account: whatever is reused, polled or written back late
\* (Certificate._check_certificate_reusability, _store_certificate_in_database).
\* So an account downloads and revokes only certificates that were issued for it,
\* although rows share them by reuse.
CertificateFits ==
    /\ \A r \in Rows : row[r].raw \in Rows =>
          /\ owner[row[r].raw] = owner[r] /\ Csr[row[r].raw] = Csr[r]
          /\ validTo[row[r].raw] # 0
    /\ AnswersOwn

\* A certificate that was stored stays in its row until it expires, whatever
\* cleanup, purge, date update and completion of serial numbers write back from
\* rows they read before (CertificateManager.cleanup_certificates), unless a
\* write to the row fell between their read and their write.
IssuedIsKept ==
    \A r \in Rows \ overlapped : kept[r] \in Rows /\ now < validTo[kept[r]] =>
        Found(r) /\ row[r].cert = kept[r] /\ row[r].raw = kept[r]

\* A row that was marked as replaced (Renewalinfo.update) stays marked through all
\* later writes of the other columns (DBstore._certificate_update).
ReplacedStays ==
    \A r \in marked \ overlapped : Found(r) => row[r].replaced
=============================================================================
