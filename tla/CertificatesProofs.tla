------------------------- MODULE CertificatesProofs -------------------------
(***************************************************************************)
(* The inductive invariant CertificatesInv of module Certificates with the *)
(* three properties it serves, for any number of rows, accounts, tools and *)
(* requests: a certificate fits the row that holds it and whoever gets or  *)
(* revokes it, and a certificate and the mark of a replaced one are kept   *)
(* unless a write fell between another process's read and its write.       *)
(***************************************************************************)
EXTENDS Certificates, TLAPS

-----------------------------------------------------------------------------
(* Records                                                                 *)

\* The names for no certificate are none of a certificate.
LEMMA NamesDiffer ==
    /\ NoRow \notin Rows /\ Removed \notin Rows /\ NoRow # Removed
    /\ \A r \in Rows : r \notin Jobs
    /\ Writers = Rows \cup Jobs
BY CertificatesAssumption DEF Writers

LEMMA BlankRow == Blank \in Row /\ NoWrite \in [what : What, row : Rows \cup {NoRow}, new : Row]
BY DEF Blank, Row, NoWrite, What

\* What a merge takes from the row and what from the record.
LEMMA MergeParts ==
    ASSUME NEW what \in What, NEW old \in Row, NEW new \in Row
    PROVE  LET m == Merge(what, old, new) IN
           /\ m \in Row
           /\ m.there = old.there /\ m.replaced = old.replaced /\ m.created = old.created
           /\ what \in {"store", "clear", "backfill"} => m.cert = new.cert /\ m.raw = new.raw
           /\ what \notin {"store", "clear", "backfill"} => m.cert = old.cert /\ m.raw = old.raw
           /\ what \in {"store", "clear"} => m.expire = new.expire
           /\ what \notin {"store", "clear", "backfill"} => m.expire = old.expire
           /\ what = "backfill" => m.expire = IF django THEN old.expire ELSE 0
           /\ what \in {"store", "backfill"} => m.serial = new.serial
           /\ what \notin {"store", "backfill"} => m.serial = old.serial
           /\ what \in {"store", "error", "rejected"} => m.poll = new.poll
           /\ what \notin {"store", "error", "rejected"} => m.poll = old.poll
BY DEF Merge, Row, Named

\* The record of a certificate with its dates.
LEMMA EntryParts ==
    ASSUME validTo \in [Rows -> Nat], NEW c \in Rows, NEW poll \in BOOLEAN
    PROVE  /\ Entry(c, poll) \in Row /\ Complete(Entry(c, poll))
           /\ Entry(c, poll).cert = c /\ Entry(c, poll).poll = poll
BY DEF Entry, Blank, Row, Complete

\* The record of a new certificate that ends at a time.
LEMMA NewParts ==
    ASSUME NEW c \in Rows, NEW end \in Nat
    PROVE  LET s == [Blank EXCEPT !.cert = c, !.raw = c, !.expire = end, !.serial = TRUE] IN
           /\ s \in Row /\ s.cert = c /\ s.raw = c /\ s.expire = end /\ s.serial
BY DEF Blank, Row

\* The invariant holds initially.
LEMMA CertificatesInit ==
    Init => CertificatesInv /\ AnswersOwn /\ IssuedIsKept /\ ReplacedStays
<1> SUFFICES ASSUME Init PROVE CertificatesInv /\ AnswersOwn /\ IssuedIsKept /\ ReplacedStays
  OBVIOUS
<1> USE NamesDiffer
<1>0. Life \in Nat \ {0} /\ Legacy \subseteq Rows /\ Backends \subseteq BOOLEAN
  BY CertificatesAssumption
<1>1. PICK undated \in SUBSET Legacy :
         row = [r \in Rows |->
                   IF r \notin Legacy THEN Blank
                   ELSE [Blank EXCEPT !.there = "yes", !.cert = r, !.raw = r,
                                      !.expire = IF r \in undated THEN 0 ELSE Life]]
  BY DEF Init
<1>2. ASSUME NEW r \in Rows
      PROVE  /\ row[r] \in Row
             /\ r \notin Legacy => row[r] = Blank
             /\ r \in Legacy => /\ row[r].there = "yes" /\ row[r].cert = r /\ row[r].raw = r
                                /\ row[r].expire \in {0, Life} /\ validTo[r] = Life
  BY <1>0, <1>1 DEF Blank, Row, Init
<1>3. TypeOK
  <2>1. row \in [Rows -> Row]
    BY <1>1, <1>2
  <2> QED
    BY <1>0, <2>1, BlankRow, CertificatesAssumption DEF TypeOK, ThreadPc, Init
<1>4. WorkInv
  <2>1. /\ \A w \in Writers : pc[w] \in {"idle", "done"}
        /\ \A j \in Jobs : /\ pc[j] = "idle" /\ kind[j] = "none" /\ todo[j] = {}
                            /\ ts[j] = 0 /\ now = 0
    BY <1>0 DEF Init
  <2>2. \A r \in Rows : ThreadInv(r)
    BY <2>1 DEF ThreadInv, ThreadPc, Active
  <2>3. \A j \in Jobs : JobInv(j)
    BY <2>1 DEF JobInv, JobPc, Active, Tools
  <2> QED
    BY <2>2, <2>3 DEF WorkInv
<1>10. /\ \A w \in Writers : ~Active(w) /\ pc[w] # "replace"
       /\ \A r \in Rows : IF r \in Legacy THEN pc[r] = "done" /\ kept[r] = r
                          ELSE pc[r] = "idle" /\ kept[r] = NoRow /\ validTo[r] = 0
       /\ \A j \in Jobs : todo[j] = {}
       /\ marked = {} /\ served = {} /\ revoked = {}
  BY <1>0 DEF Active, Init
<1>11. Blank.cert = NoRow /\ Blank.raw = NoRow /\ Blank.expire = 0 /\ ~Blank.poll
  BY DEF Blank
<1>5. EarlyInv
  <2>1. \A j \in Jobs : ~Active(j) /\ pc[j] # "replace"
    BY <1>10
  <2> QED
    BY <1>2, <1>10, <1>11, <2>1 DEF EarlyInv, Untouched, NotPolled
<1>6. RecordsFit
  <2>1. \A r \in Rows : Fits(r, row[r])
    BY <1>0, <1>2, <1>11 DEF Fits
  <2>2. \A r \in Rows : kept[r] \in Rows => validTo[kept[r]] # 0
    BY <1>0, <1>2, <1>10
  <2> QED
    BY <1>10, <2>1, <2>2 DEF RecordsFit
<1>7. \A r \in Rows \ overlapped : Calm(r)
  <2>1. \A r \in Rows : DatesFit(r, row[r])
    BY <1>0, <1>2, <1>11 DEF DatesFit
  <2> QED
    BY <1>10, <2>1 DEF Calm
<1>8. AnswersOwn /\ ReplacedStays
  BY <1>10 DEF AnswersOwn, ReplacedStays
<1>9. IssuedIsKept
  BY <1>2, <1>10 DEF IssuedIsKept, Found
<1> QED
  BY <1>3, <1>4, <1>5, <1>6, <1>7, <1>8, <1>9 DEF CertificatesInv

-----------------------------------------------------------------------------
(* Types                                                                   *)

PendType == [what : What, row : Rows \cup {NoRow}, new : Row]

\* What one process does next, and to no other.
LEMMA GotoFacts ==
    ASSUME TypeOK, NEW w \in Writers, NEW label \in ThreadPc \cup JobPc, Goto(w, label)
    PROVE  /\ pc' \in [Writers -> ThreadPc \cup JobPc] /\ pc'[w] = label
           /\ \A v \in Writers : v # w => pc'[v] = pc[v]
BY DEF TypeOK, Goto

LEMMA ProceedFacts ==
    ASSUME TypeOK, NEW w \in Writers, NEW label \in ThreadPc \cup JobPc, Proceed(w, label)
    PROVE  /\ pc' \in [Writers -> ThreadPc \cup JobPc] /\ pend' \in [Writers -> PendType]
           /\ pc'[w] = label
           /\ pend'[w] = IF label = "order" THEN pend[w] ELSE NoWrite
           /\ \A v \in Writers : v # w => pc'[v] = pc[v] /\ pend'[v] = pend[v]
BY BlankRow DEF TypeOK, Goto, Proceed, PendType

LEMMA WriteFacts ==
    ASSUME TypeOK, NEW w \in Writers, NEW what \in What, NEW r \in Rows, NEW new \in Row,
           Write(w, what, r, new)
    PROVE  /\ pc' \in [Writers -> ThreadPc \cup JobPc] /\ pend' \in [Writers -> PendType]
           /\ pc'[w] = "write"
           /\ pend'[w].what = what /\ pend'[w].row = r /\ pend'[w].new = new
           /\ \A v \in Writers : v # w => pc'[v] = pc[v] /\ pend'[v] = pend[v]
BY DEF TypeOK, Goto, Write, PendType, ThreadPc

LEMMA EndFacts ==
    ASSUME TypeOK, NEW j \in Jobs, End(j)
    PROVE  /\ pc' \in [Writers -> ThreadPc \cup JobPc] /\ pend' \in [Writers -> PendType]
           /\ pc'[j] = "done" /\ pend'[j] = NoWrite
           /\ \A v \in Writers : v # j => pc'[v] = pc[v] /\ pend'[v] = pend[v]
           /\ kind' \in [Jobs -> Kinds \cup {"none"}] /\ ts' \in [Jobs -> Nat]
           /\ todo' \in [Jobs -> SUBSET Rows] /\ seen' \in [Jobs -> [Rows -> Row]]
           /\ acct' \in [Jobs -> Accounts \cup {NoRow}] /\ ask' \in [Jobs -> Rows \cup {NoRow}]
           /\ kind'[j] = "none" /\ todo'[j] = {} /\ ts'[j] = 0
           /\ \A i \in Jobs : i # j =>
                 /\ kind'[i] = kind[i] /\ ts'[i] = ts[i] /\ todo'[i] = todo[i]
                 /\ seen'[i] = seen[i] /\ acct'[i] = acct[i] /\ ask'[i] = ask[i]
<1>1. j \in Writers /\ "done" \in ThreadPc \cup JobPc
  BY DEF Writers, ThreadPc
<1>2. Proceed(j, "done")
  BY DEF End
<1>3. /\ pc' \in [Writers -> ThreadPc \cup JobPc] /\ pend' \in [Writers -> PendType]
      /\ pc'[j] = "done" /\ pend'[j] = NoWrite
      /\ \A v \in Writers : v # j => pc'[v] = pc[v] /\ pend'[v] = pend[v]
  BY <1>1, <1>2, ProceedFacts
<1>4. [r \in Rows |-> Blank] \in [Rows -> Row]
  BY BlankRow
<1> QED
  BY <1>3, <1>4 DEF TypeOK, End

\* Reuse: an earlier certificate is written, the CSR goes to a CA, or the thread ends.
ReuseWrites(r, s, new) ==
    /\ owner[s] = owner[r] /\ Csr[s] = Csr[r] /\ row[s].cert \in Rows
    /\ Complete(new) /\ new.cert = row[s].cert
    /\ Write(r, "store", r, new)
LEMMA ReuseCases ==
    ASSUME TypeOK, NEW r \in Rows, Reuse(r)
    PROVE  \/ \E label \in {"done", "enroll"} : Goto(r, label) /\ pend' = pend
           \/ \E s \in Rows, new \in Row : ReuseWrites(r, s, new)
<1>1. CASE \E s \in Latest(Reusable(r)) :
              row[s].cert # Removed /\ Write(r, "store", r, Entry(row[s].cert, TRUE))
  <2>1. PICK s \in Latest(Reusable(r)) :
              row[s].cert # Removed /\ Write(r, "store", r, Entry(row[s].cert, TRUE))
    BY <1>1
  <2>2. s \in Rows /\ Csr[s] = Csr[r] /\ owner[s] = owner[r] /\ row[s].cert # NoRow
    BY <2>1 DEF Latest, Reusable
  <2>3. row[s].cert \in Rows
    BY <2>1, <2>2 DEF TypeOK, Row
  <2> DEFINE new == Entry(row[s].cert, TRUE)
  <2>4. new \in Row /\ Complete(new) /\ new.cert = row[s].cert
    <3>1. validTo \in [Rows -> Nat]
      BY DEF TypeOK
    <3> QED
      BY <2>3, <3>1, EntryParts
  <2>5. Write(r, "store", r, new)
    BY <2>1
  <2> HIDE DEF new
  <2> QED
    BY <2>2, <2>3, <2>4, <2>5 DEF ReuseWrites
<1>2. CASE \E label \in {"done", "enroll"} : Goto(r, label) /\ pend' = pend
  BY <1>2
<1> QED
  BY <1>1, <1>2 DEF Reuse

\* The steps of a thread keep the types.
LEMMA ThreadType ==
    ASSUME TypeOK, NEW r \in Rows, Thread(r) PROVE TypeOK'
<1> USE DEF tableVars, jobVars, ghostVars
<1>0. /\ r \in Writers /\ now \in Nat /\ now + Life \in Nat /\ row[r] \in Row
      /\ \A label \in {"reuse", "enroll", "done"} : label \in ThreadPc \cup JobPc
      /\ "store" \in What /\ "error" \in What
  BY CertificatesAssumption DEF Writers, TypeOK, ThreadPc, What
<1>1. CASE StoreCsr(r)
  <2>1. pc' \in [Writers -> ThreadPc \cup JobPc]
    BY <1>0, <1>1, GotoFacts DEF StoreCsr
  <2>2. [Blank EXCEPT !.there = "yes", !.created = now] \in Row
    BY <1>0 DEF Blank, Row
  <2> QED
    BY <1>1, <2>1, <2>2 DEF TypeOK, StoreCsr
<1>2. CASE Reuse(r)
  <2>1. pc' \in [Writers -> ThreadPc \cup JobPc] /\ pend' \in [Writers -> PendType]
    <3>1. ASSUME NEW label \in {"done", "enroll"}, Goto(r, label), pend' = pend
          PROVE  pc' \in [Writers -> ThreadPc \cup JobPc] /\ pend' \in [Writers -> PendType]
      BY <1>0, <3>1, GotoFacts DEF TypeOK, PendType
    <3>2. ASSUME NEW s \in Rows, NEW new \in Row, ReuseWrites(r, s, new)
          PROVE  pc' \in [Writers -> ThreadPc \cup JobPc] /\ pend' \in [Writers -> PendType]
      BY <1>0, <3>2, WriteFacts DEF ReuseWrites
    <3> QED
      BY <1>2, <3>1, <3>2, ReuseCases
  <2> QED
    BY <1>2, <2>1 DEF TypeOK, Reuse, PendType
<1>3. CASE Enroll(r)
  <2>1. PICK what \in {"store", "error"}, new \in Row : Write(r, what, r, new)
    <3>1. [Blank EXCEPT !.cert = r, !.raw = r, !.expire = now + Life, !.serial = TRUE] \in Row
      BY <1>0, NewParts
    <3>2. [Blank EXCEPT !.poll = TRUE] \in Row /\ Blank \in Row
      BY DEF Blank, Row
    <3> QED
      BY <1>3, <3>1, <3>2 DEF Enroll
  <2>2. pc' \in [Writers -> ThreadPc \cup JobPc] /\ pend' \in [Writers -> PendType]
    BY <1>0, <2>1, WriteFacts
  <2>3. validTo' \in [Rows -> Nat]
    <3>1. validTo' = [validTo EXCEPT ![r] = now + Life] \/ validTo' = validTo
      BY <1>3 DEF Enroll
    <3> QED
      BY <1>0, <3>1 DEF TypeOK
  <2>4. order' \in [Rows -> {"none", "processing", "valid", "invalid"}]
    <3>1. order' = [order EXCEPT ![r] = "invalid"] \/ order' = order
      BY <1>3 DEF Enroll
    <3> QED
      BY <3>1 DEF TypeOK
  <2> QED
    BY <1>3, <2>2, <2>3, <2>4 DEF TypeOK, Enroll, PendType
<1> QED
  BY <1>1, <1>2, <1>3 DEF Thread

\* What a tool does with row r: nothing, delete it, or plan a write to it.
HandleSkips(j) == Goto(j, "row") /\ UNCHANGED <<pend, validTo>>
HandleDeletes(j, r) ==
    /\ kind[j] = "purge" /\ Clearable(seen[j][r], ts[j], TRUE)
    /\ pend' = [pend EXCEPT ![j] = [what |-> "delete", row |-> r, new |-> seen[j][r]]]
    /\ Goto(j, "delete") /\ validTo' = validTo
HandleClears(j, r, new) ==
    LET s == seen[j][r] IN
    /\ kind[j] = "cleanup" /\ Clearable(s, ts[j], FALSE) /\ Write(j, "clear", r, new)
    /\ new.cert = Removed /\ new.raw = s.raw /\ new.poll = s.poll
    /\ new.expire = IF s.raw = NoRow THEN s.expire ELSE validTo[s.raw]
    /\ validTo' = validTo
HandleDates(j, r, new) ==
    LET s == seen[j][r] IN
    /\ kind[j] = "dates" /\ Write(j, "store", r, new)
    /\ s.raw \in Rows /\ Complete(new) /\ new.raw = s.raw /\ ~new.poll
    /\ validTo' = validTo
HandleFills(j, r, new) ==
    LET s == seen[j][r] IN
    /\ kind[j] = "backfill" /\ Write(j, "backfill", r, new)
    /\ s.raw \in Rows /\ new.cert = s.cert /\ new.raw = s.raw /\ new.poll = s.poll
    /\ validTo' = validTo
HandleStores(j, r, new) ==
    /\ kind[j] = "poll" /\ seen[j][r].poll /\ Write(j, "store", r, new)
    /\ new.cert = r /\ new.raw = r /\ new.serial /\ new.expire # 0 /\ ~new.poll
    /\ validTo' = [validTo EXCEPT ![r] = new.expire]
    /\ validTo[r] # 0 => new.expire = validTo[r]
HandleErrs(j, r, what) ==
    /\ kind[j] = "poll" /\ seen[j][r].poll /\ Write(j, what, r, seen[j][r])
    /\ validTo[r] = 0 /\ validTo' = validTo
Handles(j, r) ==
    \/ HandleSkips(j)
    \/ HandleDeletes(j, r)
    \/ \E new \in Row : HandleClears(j, r, new)
    \/ \E new \in Row : HandleDates(j, r, new)
    \/ \E new \in Row : HandleFills(j, r, new)
    \/ \E new \in Row : HandleStores(j, r, new)
    \/ \E what \in {"error", "rejected"} : HandleErrs(j, r, what)

LEMMA HandleCases ==
    ASSUME TypeOK, NEW j \in Jobs, HandleRow(j)
    PROVE  \E r \in todo[j] :
              /\ Handles(j, r)
              /\ todo' \in [Jobs -> SUBSET Rows] /\ seen' \in [Jobs -> [Rows -> Row]]
              /\ todo'[j] \subseteq todo[j] \ {r}
              /\ \A x \in todo'[j] : seen'[j][x] = seen[j][x]
              /\ \A i \in Jobs : i # j => todo'[i] = todo[i] /\ seen'[i] = seen[i]
<1>1. PICK r \in todo[j] :
          /\ todo' = [todo EXCEPT ![j] = IF Stops(j, seen[j][r]) THEN {} ELSE @ \ {r}]
          /\ seen' = [seen EXCEPT ![j][r] = Blank]
          /\ \/ kind[j] \in {"cleanup", "purge"} /\ CleanRow(j, r, seen[j][r]) /\ UNCHANGED validTo
             \/ kind[j] = "dates" /\ DateRow(j, r, seen[j][r]) /\ UNCHANGED validTo
             \/ kind[j] = "backfill" /\ FillRow(j, r, seen[j][r]) /\ UNCHANGED validTo
             \/ kind[j] = "poll" /\ PollRow(j, r, seen[j][r])
  BY DEF HandleRow
<1> DEFINE s == seen[j][r]
<1>2. /\ r \in Rows /\ s \in Row /\ validTo \in [Rows -> Nat] /\ now + Life \in Nat \ {0}
      /\ s.raw \in Rows \cup {NoRow} /\ s.poll \in BOOLEAN /\ s.expire \in Nat
      /\ s.raw # NoRow => s.raw \in Rows
  BY CertificatesAssumption DEF TypeOK, Row
<1> HIDE DEF s
<1>3. ASSUME kind[j] \in {"cleanup", "purge"} /\ CleanRow(j, r, s) /\ UNCHANGED validTo
      PROVE  Handles(j, r)
  <2> DEFINE new == [s EXCEPT !.cert = Removed,
                              !.expire = IF s.raw = NoRow THEN @ ELSE validTo[s.raw]]
  <2>1. /\ new \in Row /\ new.cert = Removed /\ new.raw = s.raw /\ new.poll = s.poll
        /\ new.expire = IF s.raw = NoRow THEN s.expire ELSE validTo[s.raw]
    BY <1>2 DEF Row
  <2>2. \/ Goto(j, "row") /\ UNCHANGED pend
        \/ /\ Clearable(s, ts[j], TRUE) /\ kind[j] = "purge" /\ Goto(j, "delete")
           /\ pend' = [pend EXCEPT ![j] = [what |-> "delete", row |-> r, new |-> s]]
        \/ /\ Clearable(s, ts[j], FALSE) /\ kind[j] = "cleanup"
           /\ Write(j, "clear", r, new)
    <3> HIDE DEF new
    <3>1. CASE kind[j] = "purge"
      BY <1>3, <3>1 DEF CleanRow
    <3>2. CASE kind[j] = "cleanup"
      BY <1>3, <3>2 DEF CleanRow, new
    <3> QED
      BY <1>3, <3>1, <3>2
  <2> HIDE DEF new
  <2>3. ASSUME Clearable(s, ts[j], FALSE), kind[j] = "cleanup", Write(j, "clear", r, new)
        PROVE  HandleClears(j, r, new)
    BY <1>3, <2>1, <2>3 DEF HandleClears, s
  <2> QED
    BY <1>3, <2>1, <2>2, <2>3 DEF Handles, HandleSkips, HandleDeletes, s
<1>4. ASSUME kind[j] = "dates" /\ DateRow(j, r, s) /\ UNCHANGED validTo
      PROVE  Handles(j, r)
  <2>1. CASE Goto(j, "row") /\ UNCHANGED pend
    BY <1>4, <2>1 DEF Handles, HandleSkips
  <2>2. CASE s.raw # NoRow /\ Write(j, "store", r, Entry(s.raw, FALSE))
    <3> DEFINE new == Entry(s.raw, FALSE)
    <3>1. new \in Row /\ Complete(new) /\ new.cert = s.raw /\ new.poll = FALSE
      BY <1>2, <2>2, EntryParts
    <3>2. new.raw = s.raw
      BY <3>1 DEF Complete
    <3>3. Write(j, "store", r, new)
      BY <2>2
    <3> HIDE DEF new
    <3> QED
      BY <1>2, <1>4, <2>2, <3>1, <3>2, <3>3 DEF Handles, HandleDates, s
  <2> QED
    BY <1>4, <2>1, <2>2 DEF DateRow
<1>5. ASSUME kind[j] = "backfill" /\ FillRow(j, r, s) /\ UNCHANGED validTo
      PROVE  Handles(j, r)
  <2>1. CASE Goto(j, "row") /\ UNCHANGED pend
    BY <1>5, <2>1 DEF Handles, HandleSkips
  <2>2. CASE s.raw # NoRow /\ Write(j, "backfill", r, [s EXCEPT !.serial = TRUE])
    <3> DEFINE new == [s EXCEPT !.serial = TRUE]
    <3>1. new \in Row /\ new.cert = s.cert /\ new.raw = s.raw /\ new.poll = s.poll
      BY <1>2 DEF Row
    <3>2. Write(j, "backfill", r, new)
      BY <2>2
    <3> HIDE DEF new
    <3> QED
      BY <1>2, <1>5, <2>2, <3>1, <3>2 DEF Handles, HandleFills, s
  <2> QED
    BY <1>5, <2>1, <2>2 DEF FillRow
<1>6. ASSUME kind[j] = "poll" /\ PollRow(j, r, s)
      PROVE  Handles(j, r)
  <2> DEFINE end == IF validTo[r] = 0 THEN now + Life ELSE validTo[r]
             new == [Blank EXCEPT !.cert = r, !.raw = r, !.expire = end, !.serial = TRUE]
  <2>1. CASE /\ s.poll /\ Write(j, "store", r, new)
             /\ validTo' = [validTo EXCEPT ![r] = IF @ = 0 THEN now + Life ELSE @]
    <3>1. end \in Nat \ {0} /\ validTo' = [validTo EXCEPT ![r] = end]
          /\ (validTo[r] # 0 => end = validTo[r])
      BY <1>2, <2>1
    <3>2. new \in Row /\ new.cert = r /\ new.raw = r /\ new.expire = end /\ new.serial /\ ~new.poll
      <4> HIDE DEF end
      <4> QED
        BY <1>2, <3>1 DEF Blank, Row
    <3>3. s.poll /\ Write(j, "store", r, new)
      BY <2>1
    <3> HIDE DEF new, end
    <3> QED
      BY <1>2, <1>6, <3>1, <3>2, <3>3 DEF Handles, HandleStores, s
  <2>2. CASE /\ s.poll /\ validTo[r] = 0
             /\ \E what \in {"error", "rejected"} : Write(j, what, r, s)
             /\ UNCHANGED validTo
    BY <1>6, <2>2 DEF Handles, HandleErrs, s
  <2>3. CASE Goto(j, "row") /\ UNCHANGED <<pend, validTo>>
    BY <2>3 DEF Handles, HandleSkips
  <2> QED
    BY <1>6, <2>1, <2>2, <2>3 DEF PollRow
<1>7. Handles(j, r)
  BY <1>1, <1>3, <1>4, <1>5, <1>6 DEF s
<1>8. /\ todo' \in [Jobs -> SUBSET Rows] /\ todo'[j] \subseteq todo[j] \ {r}
      /\ \A i \in Jobs : i # j => todo'[i] = todo[i]
  BY <1>1 DEF TypeOK
<1>9. /\ seen' \in [Jobs -> [Rows -> Row]]
      /\ \A x \in Rows : x # r => seen'[j][x] = seen[j][x]
      /\ \A i \in Jobs : i # j => seen'[i] = seen[i]
  BY <1>1, <1>2, BlankRow DEF TypeOK
<1>10. \A x \in todo'[j] : seen'[j][x] = seen[j][x]
  BY <1>8, <1>9 DEF TypeOK
<1> QED
  BY <1>7, <1>8, <1>9, <1>10

\* The ways a write ends: the process goes on, updates the order, or ends.
Finishes(w) ==
    \/ /\ \/ w \in Rows /\ Proceed(w, "done")
          \/ w \in Jobs /\ Proceed(w, "row")
          \/ /\ pend[w].what \in {"store", "rejected"} /\ (w \in Rows \/ kind[w] = "poll")
             /\ Proceed(w, "order")
       /\ UNCHANGED jobVars
    \/ w \in Jobs /\ End(w)

LEMMA AfterFinishes ==
    ASSUME NEW w \in Writers
    PROVE  /\ Proceed(w, AfterWrite(w)) /\ UNCHANGED jobVars => Finishes(w)
           /\ Fail(w) => Finishes(w)
           /\ SetOrder(w) => Finishes(w)
BY NamesDiffer DEF Finishes, AfterWrite, Fail, SetOrder

JobTypes ==
    /\ kind \in [Jobs -> Kinds \cup {"none"}] /\ ts \in [Jobs -> Nat]
    /\ todo \in [Jobs -> SUBSET Rows] /\ seen \in [Jobs -> [Rows -> Row]]
    /\ acct \in [Jobs -> Accounts \cup {NoRow}] /\ ask \in [Jobs -> Rows \cup {NoRow}]

LEMMA FinishType ==
    ASSUME TypeOK, NEW w \in Writers, Finishes(w)
    PROVE  /\ pc' \in [Writers -> ThreadPc \cup JobPc] /\ pend' \in [Writers -> PendType]
           /\ JobTypes'
<1>1. \A label \in {"done", "row", "order"} : label \in ThreadPc \cup JobPc
  BY DEF ThreadPc, JobPc
<1>2. ASSUME NEW label \in {"done", "row", "order"}, Proceed(w, label), UNCHANGED jobVars
      PROVE  /\ pc' \in [Writers -> ThreadPc \cup JobPc] /\ pend' \in [Writers -> PendType]
             /\ JobTypes'
  BY <1>1, <1>2, ProceedFacts DEF TypeOK, JobTypes, jobVars
<1>3. ASSUME w \in Jobs, End(w)
      PROVE  /\ pc' \in [Writers -> ThreadPc \cup JobPc] /\ pend' \in [Writers -> PendType]
             /\ JobTypes'
  BY <1>3, EndFacts DEF JobTypes
<1> QED
  BY <1>2, <1>3 DEF Finishes

\* A write is about a row.
LEMMA ActiveRow ==
    ASSUME WorkInv, NEW w \in Writers, Active(w)
    PROVE  pend[w].row \in Rows /\ pend[w].what \in What
BY NamesDiffer DEF WorkInv, ThreadInv, JobInv, WritesOf, What

\* The steps of a tool keep the types.
LEMMA ToolType ==
    ASSUME TypeOK, WorkInv, NEW j \in Jobs, Tool(j) PROVE TypeOK'
<1> USE DEF tableVars, jobVars, ghostVars
<1>0. /\ j \in Writers /\ now \in Nat
      /\ \A label \in {"select", "lookup", "row", "delete", "done"} :
            label \in ThreadPc \cup JobPc
  BY DEF Writers, TypeOK, ThreadPc, JobPc
<1>1. CASE Start(j)
  <2>1. PICK k \in JobKinds[j] :
          /\ kind' = [kind EXCEPT ![j] = k]
          /\ ts' = [ts EXCEPT ![j] = IF k \in {"cleanup", "purge"} THEN now ELSE 0]
          /\ Goto(j, IF k \in Tools THEN "select" ELSE "lookup")
    BY <1>1 DEF Start
  <2>2. k \in Kinds
    BY CertificatesAssumption
  <2>3. pc' \in [Writers -> ThreadPc \cup JobPc]
    <3>1. \E label \in {"select", "lookup"} : Goto(j, label)
      BY <2>1
    <3> QED
      BY <1>0, <3>1, GotoFacts
  <2>4. kind' \in [Jobs -> Kinds \cup {"none"}] /\ ts' \in [Jobs -> Nat]
    BY <1>0, <2>1, <2>2 DEF TypeOK
  <2> QED
    BY <1>1, <2>3, <2>4 DEF TypeOK, Start
<1>2. CASE Select(j)
  <2>1. pc' \in [Writers -> ThreadPc \cup JobPc]
    BY <1>0, <1>2, GotoFacts DEF Select
  <2>2. todo' \in [Jobs -> SUBSET Rows]
    <3>1. Wanted(j) \subseteq Rows
      BY DEF Wanted
    <3>2. todo' = [todo EXCEPT ![j] = Wanted(j)] \/ todo' = todo
      BY <1>2 DEF Select
    <3> HIDE DEF Wanted
    <3> QED
      BY <3>1, <3>2 DEF TypeOK
  <2>3. seen' \in [Jobs -> [Rows -> Row]]
    <3> DEFINE f == [r \in Rows |-> IF r \in Wanted(j) THEN row[r] ELSE Blank]
    <3>1. f \in [Rows -> Row]
      BY BlankRow DEF TypeOK
    <3>2. seen' = [seen EXCEPT ![j] = f] \/ seen' = seen
      BY <1>2 DEF Select
    <3> HIDE DEF f
    <3> QED
      BY <3>1, <3>2 DEF TypeOK
  <2> QED
    BY <1>2, <2>1, <2>2, <2>3 DEF TypeOK, Select
<1>3. CASE HandleRow(j)
  <2>1. PICK r \in todo[j] :
              /\ Handles(j, r)
              /\ todo' \in [Jobs -> SUBSET Rows] /\ seen' \in [Jobs -> [Rows -> Row]]
    BY <1>3, HandleCases
  <2>2. r \in Rows /\ seen[j][r] \in Row
    BY DEF TypeOK
  <2> DEFINE Typed == /\ pc' \in [Writers -> ThreadPc \cup JobPc]
                      /\ pend' \in [Writers -> PendType] /\ validTo' \in [Rows -> Nat]
  <2>3. Typed
    <3>1. \A what \in {"store", "clear", "backfill", "error", "rejected"} : what \in What
      BY DEF What
    <3>2. ASSUME NEW what \in {"store", "clear", "backfill", "error", "rejected"},
                 NEW new \in Row, Write(j, what, r, new)
          PROVE  pc' \in [Writers -> ThreadPc \cup JobPc] /\ pend' \in [Writers -> PendType]
      BY <1>0, <2>2, <3>1, <3>2, WriteFacts
    <3>3. ASSUME HandleSkips(j) PROVE Typed
      BY <1>0, <3>3, GotoFacts DEF HandleSkips, TypeOK, PendType
    <3>4. ASSUME HandleDeletes(j, r) PROVE Typed
      <4>1. [what |-> "delete", row |-> r, new |-> seen[j][r]] \in PendType
        BY <2>2 DEF PendType, What
      <4> QED
        BY <1>0, <3>4, <4>1, GotoFacts DEF HandleDeletes, TypeOK, PendType
    <3>5. ASSUME \E new \in Row : HandleClears(j, r, new) \/ HandleDates(j, r, new)
                                  \/ HandleFills(j, r, new)
          PROVE  Typed
      BY <3>2, <3>5 DEF HandleClears, HandleDates, HandleFills, TypeOK
    <3>6. ASSUME NEW new \in Row, HandleStores(j, r, new) PROVE Typed
      <4>1. new.expire \in Nat
        BY DEF Row
      <4> QED
        BY <3>2, <3>6, <4>1 DEF HandleStores, TypeOK
    <3>7. ASSUME NEW what \in {"error", "rejected"}, HandleErrs(j, r, what)
          PROVE  Typed
      BY <2>2, <3>2, <3>7 DEF HandleErrs, TypeOK
    <3> QED
      BY <2>1, <3>3, <3>4, <3>5, <3>6, <3>7 DEF Handles
  <2> QED
    BY <1>3, <2>1, <2>3 DEF TypeOK, HandleRow, PendType
<1>4. CASE Delete(j)
  <2>1. /\ pc' \in [Writers -> ThreadPc \cup JobPc] /\ pend' \in [Writers -> PendType]
    BY <1>0, <1>4, ProceedFacts DEF Delete
  <2>2. row' \in [Rows -> Row]
    <3>1. row' = [row EXCEPT ![pend[j].row] = Blank] \/ row' = row
      BY <1>4 DEF Delete
    <3> QED
      BY <3>1, BlankRow DEF TypeOK
  <2>3. overlapped' \subseteq Rows
    <3>1. CASE NoteOverlap(j, pend[j].row)
      <4>1. pend[j].row \in Rows
        BY <1>0, <1>4, ActiveRow DEF Active, Delete
      <4> QED
        BY <3>1, <4>1 DEF TypeOK, NoteOverlap
    <3> QED
      BY <1>4, <3>1 DEF TypeOK, Delete
  <2> QED
    BY <1>4, <2>1, <2>2, <2>3 DEF TypeOK, Delete, PendType
<1>5. CASE EndTool(j)
  <2>1. /\ pc' \in [Writers -> ThreadPc \cup JobPc] /\ pend' \in [Writers -> PendType]
        /\ JobTypes'
    BY <1>5, EndFacts DEF JobTypes, EndTool
  <2> QED
    BY <1>5, <2>1 DEF TypeOK, EndTool, PendType, JobTypes
<1> QED
  BY <1>1, <1>2, <1>3, <1>4, <1>5 DEF Tool

\* What a request does with the row it names.
LookupOf(j, a, c, r) ==
    /\ validTo[c] # 0 /\ Found(r)
    /\ \/ kind[j] = "download" /\ ToDownload(a, c, r)
       \/ kind[j] = "revoke" /\ ToRevoke(a, c, r)
       \/ kind[j] = "replace" /\ ToReplace(a, c, r)
    /\ acct' = [acct EXCEPT ![j] = a] /\ ask' = [ask EXCEPT ![j] = c]
    /\ pend' = [pend EXCEPT ![j] = [NoWrite EXCEPT !.row = r]]
    /\ Goto(j, kind[j]) /\ UNCHANGED <<kind, todo, seen, ts>>

\* The steps of a request keep the types.
LEMMA ServeType ==
    ASSUME TypeOK, WorkInv, NEW j \in Jobs, Serve(j) PROVE TypeOK'
<1> USE DEF tableVars, jobVars, ghostVars
<1>0. /\ j \in Writers
      /\ \A label \in {"download", "revoke", "replace"} : label \in ThreadPc \cup JobPc
  BY DEF Writers, ThreadPc, JobPc
<1>1. ASSUME End(j)
      PROVE  /\ pc' \in [Writers -> ThreadPc \cup JobPc] /\ pend' \in [Writers -> PendType]
             /\ JobTypes'
  BY <1>1, EndFacts DEF JobTypes
<1>2. CASE Lookup(j)
  <2>1. ASSUME NEW a \in Accounts, NEW c \in Rows, NEW r \in Rows, LookupOf(j, a, c, r)
        PROVE  /\ pc' \in [Writers -> ThreadPc \cup JobPc] /\ pend' \in [Writers -> PendType]
               /\ JobTypes'
    <3>1. pc' \in [Writers -> ThreadPc \cup JobPc]
      <4>1. \E label \in {"download", "revoke", "replace"} : Goto(j, label)
        BY <2>1 DEF LookupOf
      <4> QED
        BY <1>0, <4>1, GotoFacts
    <3>2. [NoWrite EXCEPT !.row = r] \in PendType
      BY BlankRow DEF PendType, NoWrite
    <3>3. pend' \in [Writers -> PendType]
      BY <1>0, <2>1, <3>2 DEF LookupOf, TypeOK, PendType
    <3> QED
      BY <2>1, <3>1, <3>3 DEF LookupOf, TypeOK, JobTypes
  <2>2. /\ pc' \in [Writers -> ThreadPc \cup JobPc] /\ pend' \in [Writers -> PendType]
        /\ JobTypes'
    BY <1>1, <1>2, <2>1 DEF Lookup, LookupOf
  <2> QED
    BY <1>2, <2>2 DEF TypeOK, Lookup, PendType, JobTypes
<1>3. CASE Download(j)
  <2>1. served' \subseteq Accounts \X (Rows \cup {NoRow, Removed})
    <3>1. CASE /\ Found(ask[j])
               /\ served' = served \cup {<<acct[j], row[ask[j]].cert>>}
      <4>1. ask[j] \in Rows /\ owner[ask[j]] = acct[j]
        BY <1>3 DEF Download, WorkInv, JobInv
      <4>2. acct[j] \in Accounts /\ row[ask[j]].cert \in Rows \cup {NoRow, Removed}
        BY <4>1 DEF TypeOK, Row
      <4> QED
        BY <3>1, <4>2 DEF TypeOK
    <3>2. CASE served' = served
      BY <3>2 DEF TypeOK
    <3> QED
      BY <1>3, <3>1, <3>2 DEF Download
  <2> QED
    BY <1>1, <1>3, <2>1 DEF TypeOK, Download, PendType, JobTypes
<1>4. CASE Revoke(j)
  <2>1. ask[j] \in Rows /\ acct[j] \in Accounts
    BY <1>4 DEF Revoke, WorkInv, JobInv, TypeOK
  <2>2. revoked' \subseteq Accounts \X Rows
    BY <1>4, <2>1 DEF Revoke, TypeOK
  <2> QED
    BY <1>1, <1>4, <2>2 DEF TypeOK, Revoke, PendType, JobTypes
<1>5. CASE MarkReplaced(j)
  <2> DEFINE r == pend[j].row
  <2>1. r \in Rows /\ row[r] \in Row
    BY <1>5 DEF MarkReplaced, WorkInv, JobInv, TypeOK
  <2>2. row' \in [Rows -> Row]
    <3>1. [row[r] EXCEPT !.replaced = TRUE] \in Row
      BY <2>1 DEF Row
    <3>2. row' = [row EXCEPT ![r] = [row[r] EXCEPT !.replaced = TRUE]] \/ row' = row
      BY <1>5 DEF MarkReplaced
    <3> QED
      BY <2>1, <3>1, <3>2 DEF TypeOK
  <2>3. marked' \subseteq Rows /\ overlapped' \subseteq Rows
    BY <1>5, <2>1 DEF TypeOK, MarkReplaced, NoteOverlap
  <2> QED
    BY <1>1, <1>5, <2>2, <2>3 DEF TypeOK, MarkReplaced, PendType, JobTypes
<1> QED
  BY <1>2, <1>3, <1>4, <1>5 DEF Serve

\* The record a write leaves in the row.
SecondOf(w, r) ==
    IF django THEN pend[w].new
    ELSE IF pend[w].what \in {"error", "rejected"}
           THEN [row[r] EXCEPT !.poll = pend[w].new.poll]
           ELSE [pend[w].new EXCEPT !.there = row[r].there]
LEMMA SecondParts ==
    ASSUME TypeOK, NEW w \in Writers, NEW r \in Rows
    PROVE  LET s == SecondOf(w, r)  new == pend[w].new IN
           /\ s \in Row
           /\ django => s = new
           /\ ~django => s.there = row[r].there
           /\ ~django /\ pend[w].what \in {"error", "rejected"} =>
                 /\ s.cert = row[r].cert /\ s.raw = row[r].raw /\ s.expire = row[r].expire
                 /\ s.serial = row[r].serial /\ s.replaced = row[r].replaced
                 /\ s.poll = new.poll
           /\ ~django /\ pend[w].what \notin {"error", "rejected"} =>
                 /\ s.cert = new.cert /\ s.raw = new.raw /\ s.expire = new.expire
                 /\ s.serial = new.serial /\ s.replaced = new.replaced
                 /\ s.poll = new.poll
<1>1. row[r] \in Row /\ pend[w].new \in Row
  BY DEF TypeOK
<1> QED
  BY <1>1 DEF SecondOf, Row

\* The first part of a write leaves a record for the second.
LEMMA AgainFacts ==
    ASSUME TypeOK, NEW w \in Writers, NEW m \in Row,
           pend' = [pend EXCEPT ![w].new = m], Goto(w, "again")
    PROVE  /\ pc' \in [Writers -> ThreadPc \cup JobPc] /\ pend' \in [Writers -> PendType]
           /\ pc'[w] = "again" /\ pend'[w].what = pend[w].what
           /\ pend'[w].row = pend[w].row /\ pend'[w].new = m
           /\ \A v \in Writers : v # w => pc'[v] = pc[v] /\ pend'[v] = pend[v]
<1>1. pend \in [Writers -> PendType] /\ pend[w] \in PendType
  BY DEF TypeOK, PendType
<1>2. [pend[w] EXCEPT !.new = m] \in PendType
  BY <1>1 DEF PendType
<1>3. pend' = [pend EXCEPT ![w] = [pend[w] EXCEPT !.new = m]]
  OBVIOUS
<1>4. pend' \in [Writers -> PendType]
  BY <1>1, <1>2, <1>3
<1>5. "again" \in ThreadPc \cup JobPc
  BY DEF ThreadPc
<1>6. /\ pc' \in [Writers -> ThreadPc \cup JobPc] /\ pc'[w] = "again"
      /\ \A v \in Writers : v # w => pc'[v] = pc[v]
  BY <1>5, GotoFacts
<1>7. /\ pend'[w].what = pend[w].what /\ pend'[w].row = pend[w].row /\ pend'[w].new = m
      /\ \A v \in Writers : v # w => pend'[v] = pend[v]
  BY <1>1, <1>3 DEF PendType
<1> QED
  BY <1>4, <1>6, <1>7

\* The steps of a write keep the types.
LEMMA StoreType ==
    ASSUME TypeOK, WorkInv, NEW w \in Writers, Store(w) PROVE TypeOK'
<1> USE DEF tableVars, jobVars, ghostVars
<1> DEFINE r == pend[w].row
<1>0. /\ r \in Rows /\ row[r] \in Row /\ pend[w].what \in What /\ pend[w].new \in Row
      /\ "again" \in ThreadPc \cup JobPc /\ now \in Nat
  BY ActiveRow DEF Active, Store, FirstCall, SecondCall, SetOrder, TypeOK, ThreadPc
<1>1. ASSUME Finishes(w)
      PROVE  /\ pc' \in [Writers -> ThreadPc \cup JobPc] /\ pend' \in [Writers -> PendType]
             /\ JobTypes'
  BY <1>1, FinishType
<1>2. ASSUME NoteOverlap(w, r) PROVE overlapped' \subseteq Rows
  BY <1>0, <1>2 DEF NoteOverlap, TypeOK
<1>3. CASE FirstCall(w)
  <2> DEFINE m == Merge(pend[w].what, row[r], pend[w].new)
  <2>1. m \in Row
    BY <1>0, MergeParts
  <2>2. m.cert \in Rows \cup {NoRow, Removed}
    BY <2>1 DEF Row
  <2>3. ASSUME pend' = [pend EXCEPT ![w].new = m], Goto(w, "again")
        PROVE  pc' \in [Writers -> ThreadPc \cup JobPc] /\ pend' \in [Writers -> PendType]
    <3> HIDE DEF m
    <3> QED
      BY <2>1, <2>3, AgainFacts
  <2>4. /\ pc' \in [Writers -> ThreadPc \cup JobPc] /\ pend' \in [Writers -> PendType]
        /\ JobTypes' /\ row' \in [Rows -> Row] /\ overlapped' \subseteq Rows
        /\ kept' \in [Rows -> Rows \cup {NoRow, Removed}]
    <3>1. CASE /\ pend' = [pend EXCEPT ![w].new = m] /\ Goto(w, "again")
               /\ UNCHANGED <<row, jobVars, kept, overlapped>>
      BY <2>3, <3>1 DEF TypeOK, JobTypes
    <3>2. CASE /\ row' = [row EXCEPT ![r] = m] /\ pend' = [pend EXCEPT ![w].new = m]
               /\ NoteOverlap(w, r) /\ Goto(w, "again") /\ UNCHANGED jobVars
               /\ kept' = IF pend[w].what = "store" THEN [kept EXCEPT ![r] = m.cert] ELSE kept
      <4> HIDE DEF m
      <4> QED
        BY <1>2, <2>1, <2>2, <2>3, <3>2 DEF TypeOK, JobTypes
    <3>3. CASE /\ row' = [row EXCEPT ![r] = [Blank EXCEPT !.there = "orphan", !.created = now]]
               /\ NoteOverlap(w, r) /\ Proceed(w, AfterWrite(w)) /\ UNCHANGED <<jobVars, kept>>
      <4>1. [Blank EXCEPT !.there = "orphan", !.created = now] \in Row
        BY <1>0 DEF Blank, Row
      <4>2. Finishes(w)
        BY <3>3, AfterFinishes
      <4> QED
        BY <1>1, <1>2, <3>3, <4>1, <4>2 DEF TypeOK
    <3>4. CASE Fail(w)
      <4>1. Finishes(w)
        BY <3>4, AfterFinishes
      <4> QED
        BY <1>1, <3>4, <4>1 DEF TypeOK, Fail
    <3> QED
      BY <1>3, <3>1, <3>2, <3>3, <3>4 DEF FirstCall
  <2> QED
    BY <1>3, <2>4 DEF TypeOK, FirstCall, PendType, JobTypes
<1>4. CASE SecondCall(w)
  <2>1. SecondOf(w, r) \in Row /\ pend[w].new.cert \in Rows \cup {NoRow, Removed}
    BY <1>0, SecondParts DEF Row
  <2>2. Finishes(w)
    BY <1>4, AfterFinishes DEF SecondCall
  <2>3. /\ row' \in [Rows -> Row] /\ overlapped' \subseteq Rows
        /\ kept' \in [Rows -> Rows \cup {NoRow, Removed}]
    <3>1. CASE /\ row' = [row EXCEPT ![r] = SecondOf(w, r)] /\ NoteOverlap(w, r)
               /\ kept' = IF pend[w].what = "store" THEN [kept EXCEPT ![r] = pend[w].new.cert]
                          ELSE kept
      BY <1>2, <2>1, <3>1 DEF TypeOK
    <3>2. CASE UNCHANGED <<row, kept, overlapped>>
      BY <3>2 DEF TypeOK
    <3> QED
      BY <1>4, <3>1, <3>2 DEF SecondCall, Fail, SecondOf
  <2> QED
    BY <1>1, <1>4, <2>2, <2>3 DEF TypeOK, SecondCall, PendType, JobTypes
<1>5. CASE SetOrder(w)
  <2>1. order' \in [Rows -> {"none", "processing", "valid", "invalid"}]
    <3>1. \/ order' = [order EXCEPT ![r] = "valid"]
          \/ order' = [order EXCEPT ![r] = "invalid"]
          \/ order' = order
      BY <1>5 DEF SetOrder
    <3> QED
      BY <3>1 DEF TypeOK
  <2>2. Finishes(w)
    BY <1>5, AfterFinishes
  <2> QED
    BY <1>1, <1>5, <2>1, <2>2 DEF TypeOK, SetOrder, PendType, JobTypes
<1> QED
  BY <1>3, <1>4, <1>5 DEF Store

-----------------------------------------------------------------------------
(* The invariant, by process and by row                                    *)

EarlyPc == {"idle", "reuse", "enroll"}

Works(w) == (w \in Rows => ThreadInv(w)) /\ (w \in Jobs => JobInv(w))
HoldsFitting(w) ==
    /\ w \in Jobs => \A r \in todo[w] : Fits(r, seen[w][r])
    /\ Active(w) => /\ Fits(pend[w].row, pend[w].new)
                    /\ pend[w].what = "store" => Complete(pend[w].new)
HoldsNoneEarly(w) ==
    w \in Jobs =>
        \A r \in Rows :
            /\ pc[r] = "idle" => /\ r \notin todo[w]
                                 /\ Active(w) \/ pc[w] = "replace" => pend[w].row # r
            /\ pc[r] \in EarlyPc => /\ r \in todo[w] => ~seen[w][r].poll
                                    /\ Active(w) /\ pend[w].row = r => ~pend[w].new.poll
CalmFor(w, r) ==
    /\ w \in Jobs /\ kind[w] # "poll" /\ r \in todo[w] => UpToDate(w, r)
    /\ Active(w) /\ pend[w].row = r =>
          /\ pc[w] = "write" => Keeps(w, r)
          /\ pc[w] = "again" => HalfDone(w, r)
          /\ pc[w] = "delete" => Expired(r)
ProcInv(w) ==
    /\ Works(w) /\ HoldsFitting(w) /\ HoldsNoneEarly(w)
    /\ \A r \in Rows \ overlapped : CalmFor(w, r)

RowFits(r) == Fits(r, row[r]) /\ (kept[r] \in Rows => validTo[kept[r]] # 0)
RowEarly(r) ==
    /\ pc[r] = "idle" => row[r] = Blank /\ kept[r] = NoRow /\ r \notin marked
    /\ pc[r] \in EarlyPc => validTo[r] = 0 /\ ~row[r].poll
RowCalm(r) ==
    /\ DatesFit(r, row[r])
    /\ kept[r] \in Rows /\ now < validTo[kept[r]] =>
          Found(r) /\ row[r].cert = kept[r] /\ row[r].raw = kept[r]
    /\ r \in marked /\ Found(r) => row[r].replaced
RowInv(r) == RowFits(r) /\ RowEarly(r) /\ (r \notin overlapped => RowCalm(r))

Whole ==
    /\ TypeOK /\ AnswersOwn
    /\ \A w \in Writers : ProcInv(w)
    /\ \A r \in Rows : RowInv(r)

\* The invariant and the properties are the same as their parts.
LEMMA WholeIsAll ==
    Whole <=> CertificatesInv /\ AnswersOwn /\ IssuedIsKept /\ ReplacedStays
<1>1. ASSUME Whole PROVE CertificatesInv /\ AnswersOwn /\ IssuedIsKept /\ ReplacedStays
  <2>0. /\ TypeOK /\ AnswersOwn /\ Rows \subseteq Writers /\ Jobs \subseteq Writers
        /\ \A w \in Writers : /\ Works(w) /\ HoldsFitting(w) /\ HoldsNoneEarly(w)
                              /\ \A r \in Rows \ overlapped : CalmFor(w, r)
        /\ \A r \in Rows : RowFits(r) /\ RowEarly(r) /\ (r \notin overlapped => RowCalm(r))
    BY <1>1, NamesDiffer DEF Whole, ProcInv, RowInv
  <2>1. WorkInv
    BY <2>0 DEF WorkInv, Works
  <2>2. EarlyInv
    BY <2>0 DEF EarlyInv, Untouched, NotPolled, RowEarly, HoldsNoneEarly, EarlyPc
  <2>3. RecordsFit
    BY <2>0 DEF RecordsFit, RowFits, HoldsFitting
  <2>4. \A r \in Rows \ overlapped : Calm(r)
    BY <2>0 DEF Calm, CalmFor, RowCalm
  <2>5. IssuedIsKept /\ ReplacedStays
    BY <2>0 DEF IssuedIsKept, ReplacedStays, RowCalm, TypeOK
  <2> QED
    BY <2>0, <2>1, <2>2, <2>3, <2>4, <2>5 DEF CertificatesInv
<1>2. ASSUME CertificatesInv, AnswersOwn, IssuedIsKept, ReplacedStays PROVE Whole
  <2>0. /\ TypeOK /\ WorkInv /\ EarlyInv /\ RecordsFit
        /\ \A r \in Rows \ overlapped : Calm(r)
    BY <1>2 DEF CertificatesInv
  <2>1. ASSUME NEW w \in Writers PROVE ProcInv(w)
    <3>1. Works(w)
      BY <2>0 DEF WorkInv, Works
    <3>2. HoldsFitting(w)
      BY <2>0 DEF RecordsFit, HoldsFitting
    <3>3. HoldsNoneEarly(w)
      BY <2>0 DEF EarlyInv, Untouched, NotPolled, HoldsNoneEarly, EarlyPc
    <3>4. \A r \in Rows \ overlapped : CalmFor(w, r)
      BY <2>0 DEF Calm, CalmFor
    <3> QED
      BY <3>1, <3>2, <3>3, <3>4 DEF ProcInv
  <2>2. ASSUME NEW r \in Rows PROVE RowInv(r)
    <3>1. RowFits(r)
      BY <2>0 DEF RecordsFit, RowFits
    <3>2. RowEarly(r)
      BY <2>0 DEF EarlyInv, Untouched, NotPolled, RowEarly, EarlyPc
    <3>3. r \notin overlapped => RowCalm(r)
      BY <1>2, <2>0 DEF Calm, RowCalm, IssuedIsKept, ReplacedStays
    <3> QED
      BY <3>1, <3>2, <3>3 DEF RowInv
  <2> QED
    BY <1>2, <2>0, <2>1, <2>2 DEF Whole
<1> QED
  BY <1>1, <1>2

\* A step of process w leaves all others alone; a quiet one touches no row either.
Frame(w) ==
    /\ UNCHANGED <<django, owner, now>>
    /\ \A v \in Writers : v # w => pc'[v] = pc[v] /\ pend'[v] = pend[v]
    /\ \A j \in Jobs : j # w =>
          /\ kind'[j] = kind[j] /\ ts'[j] = ts[j] /\ todo'[j] = todo[j]
          /\ seen'[j] = seen[j] /\ acct'[j] = acct[j] /\ ask'[j] = ask[j]
    /\ \A r \in Rows :
          /\ validTo[r] # 0 => validTo'[r] = validTo[r]
          /\ pc'[r] = "idle" => pc[r] = "idle"
          /\ pc'[r] \in EarlyPc => pc[r] \in EarlyPc /\ validTo'[r] = validTo[r]
Quiet(w) == Frame(w) /\ UNCHANGED <<row, kept, marked, overlapped>>
WritesRow(w, x) ==
    /\ Frame(w) /\ NoteOverlap(w, x)
    /\ \A r \in Rows : r # x =>
          row'[r] = row[r] /\ kept'[r] = kept[r] /\ (r \in marked' <=> r \in marked)

LEMMA OthersKeep ==
    ASSUME Whole, TypeOK', NEW w \in Writers, NEW x, Quiet(w) \/ WritesRow(w, x),
           NEW v \in Writers, v # w
    PROVE  ProcInv(v)'
<1>0. /\ Frame(w) /\ TypeOK /\ ProcInv(v)
      /\ django' = django /\ owner' = owner /\ now' = now
      /\ pc'[v] = pc[v] /\ pend'[v] = pend[v]
      /\ v \in Jobs => /\ kind'[v] = kind[v] /\ ts'[v] = ts[v] /\ todo'[v] = todo[v]
                       /\ seen'[v] = seen[v] /\ acct'[v] = acct[v] /\ ask'[v] = ask[v]
      /\ \A r \in Rows : validTo[r] # 0 => validTo'[r] = validTo[r]
  BY DEF Quiet, WritesRow, Frame, Whole
<1>1. Works(v)'
  BY <1>0, NamesDiffer DEF ProcInv, Works, ThreadInv, JobInv, Active
<1>2. HoldsFitting(v)'
  <2>1. \A r \in Rows, s \in Row : Fits(r, s) =>
          /\ s.cert \in Rows => s.raw = s.cert
          /\ s.raw \in Rows => /\ owner'[s.raw] = owner'[r] /\ Csr[s.raw] = Csr[r]
                               /\ validTo'[s.raw] # 0 /\ validTo'[s.raw] = validTo[s.raw]
    BY <1>0 DEF Fits
  <2>2. /\ v \in Jobs => \A r \in todo[v] : r \in Rows /\ seen[v][r] \in Row
        /\ Active(v) => pend[v].row \in Rows
        /\ pend[v].new \in Row
    BY <1>0, NamesDiffer DEF TypeOK, ProcInv, Works, ThreadInv, JobInv
  <2>3. HoldsFitting(v)
    BY <1>0 DEF ProcInv
  <2>4. v \in Jobs => \A r \in todo'[v] : Fits(r, seen[v][r])'
    BY <1>0, <2>1, <2>2, <2>3 DEF HoldsFitting, Fits
  <2>5. ASSUME Active(v)'
        PROVE  /\ Fits(pend[v].row, pend[v].new)'
               /\ (pend[v].what = "store")' => Complete(pend[v].new)'
    <3>1. Active(v)
      BY <1>0, <2>5 DEF Active
    <3>2. Fits(pend[v].row, pend[v].new) /\ (pend[v].what = "store" => Complete(pend[v].new))
      BY <2>3, <3>1 DEF HoldsFitting
    <3> QED
      BY <1>0, <2>1, <2>2, <3>1, <3>2 DEF Fits, Complete
  <2> QED
    BY <2>4, <2>5 DEF HoldsFitting
<1>3. HoldsNoneEarly(v)'
  <2>1. \A r \in Rows : /\ pc'[r] = "idle" => pc[r] = "idle"
                        /\ pc'[r] \in EarlyPc => pc[r] \in EarlyPc
    BY <1>0 DEF Frame
  <2> QED
    BY <1>0, <2>1 DEF ProcInv, HoldsNoneEarly, Active
<1>4. ASSUME NEW r \in Rows \ overlapped' PROVE CalmFor(v, r)'
  <2>1. r \in Rows \ overlapped
    BY DEF Quiet, WritesRow, NoteOverlap
  <2>2. CalmFor(v, r) /\ RowInv(r)
    BY <1>0, <2>1 DEF ProcInv, Whole
  <2>3. CASE row'[r] = row[r]
    <3>0. row[r] \in Row /\ pend[v].new \in Row /\ pend[v].row \in Rows \cup {NoRow}
      BY <1>0 DEF TypeOK
    <3>1. UpToDate(v, r) /\ v \in Jobs => UpToDate(v, r)'
      BY <1>0, <2>3 DEF UpToDate
    <3>2. \A c \in Rows : row[r].raw = c \/ row[r].cert = c => validTo'[c] = validTo[c]
      BY <1>0, <2>2, <3>0 DEF RowInv, RowFits, Fits
    <3>3. Expired(r) => Expired(r)'
      BY <1>0, <2>3, <3>2 DEF Expired
    <3>4. ASSUME Active(v), pend[v].row = r
          PROVE  \A c \in Rows : pend[v].new.raw = c => validTo'[c] = validTo[c]
      BY <1>0, <3>4 DEF ProcInv, HoldsFitting, Fits
    <3>5. ASSUME Active(v), pend[v].row = r, Keeps(v, r) PROVE Keeps(v, r)'
      BY <1>0, <2>3, <3>3, <3>4, <3>5 DEF Keeps
    <3>6. ASSUME Active(v), pend[v].row = r, HalfDone(v, r) PROVE HalfDone(v, r)'
      <4>1. ~django => DatesFit(r, pend[v].new)'
        BY <1>0, <3>4, <3>6 DEF HalfDone, DatesFit
      <4>2. ~django => Keeps(v, r)'
        BY <3>5, <3>6 DEF HalfDone
      <4> QED
        BY <1>0, <2>3, <3>6, <4>1, <4>2 DEF HalfDone, Found
    <3>7. (v \in Jobs /\ kind[v] # "poll" /\ r \in todo[v])' => UpToDate(v, r)'
      BY <1>0, <2>2, <3>1 DEF CalmFor
    <3>8. ASSUME (Active(v) /\ pend[v].row = r)'
          PROVE  /\ (pc[v] = "write")' => Keeps(v, r)'
                 /\ (pc[v] = "again")' => HalfDone(v, r)'
                 /\ (pc[v] = "delete")' => Expired(r)'
      <4>1. Active(v) /\ pend[v].row = r
        BY <1>0, <3>8 DEF Active
      <4> QED
        BY <1>0, <2>2, <3>3, <3>5, <3>6, <4>1 DEF CalmFor
    <3> QED
      BY <3>7, <3>8 DEF CalmFor
  <2>4. CASE r = x /\ WritesRow(w, x)
    <3>1. ~Knows(v, r)
      BY <2>4 DEF WritesRow, NoteOverlap
    <3>2. Works(v) /\ Works(v)'
      BY <1>0, <1>1 DEF ProcInv
    <3>3. ~(v \in Jobs /\ kind[v] # "poll" /\ r \in todo[v])'
      BY <1>0, <3>1 DEF Knows
    <3>4. ASSUME Active(v), pend[v].row = r PROVE pc[v] \notin {"again", "delete"}
      BY <3>1, <3>2, <3>4, NamesDiffer DEF Knows, Works, ThreadInv, ThreadPc
    <3>5. ASSUME Active(v), pend[v].row = r, pc[v] = "write"
          PROVE  pend[v].what \notin {"clear", "backfill"}
      BY <3>1, <3>2, <3>5, NamesDiffer DEF Knows, Works, ThreadInv, JobInv, WritesOf
    <3>6. ASSUME (Active(v) /\ pend[v].row = r)'
          PROVE  /\ (pc[v] = "write")' => Keeps(v, r)'
                 /\ (pc[v] = "again")' => HalfDone(v, r)'
                 /\ (pc[v] = "delete")' => Expired(r)'
      <4>1. Active(v) /\ pend[v].row = r
        BY <1>0, <3>6 DEF Active
      <4> QED
        BY <1>0, <3>4, <3>5, <4>1 DEF Keeps
    <3> QED
      BY <3>3, <3>6 DEF CalmFor
  <2> QED
    BY <2>3, <2>4 DEF Quiet, WritesRow
<1> QED
  BY <1>1, <1>2, <1>3, <1>4 DEF ProcInv

LEMMA RowsKeep ==
    ASSUME Whole, TypeOK', NEW w \in Writers, NEW x, NEW r \in Rows,
           Quiet(w) \/ (WritesRow(w, x) /\ r # x)
    PROVE  RowInv(r)'
<1>0. /\ TypeOK /\ RowInv(r)
      /\ owner' = owner /\ now' = now
      /\ \A c \in Rows : validTo[c] # 0 => validTo'[c] = validTo[c]
      /\ pc'[r] = "idle" => pc[r] = "idle"
      /\ pc'[r] \in EarlyPc => pc[r] \in EarlyPc /\ validTo'[r] = validTo[r]
      /\ row'[r] = row[r] /\ kept'[r] = kept[r] /\ (r \in marked' <=> r \in marked)
      /\ overlapped \subseteq overlapped'
  BY DEF Quiet, WritesRow, Frame, Whole, NoteOverlap
<1>1. RowFits(r)'
  BY <1>0 DEF RowInv, RowFits, Fits
<1>2. RowEarly(r)'
  BY <1>0 DEF RowInv, RowEarly
<1>3. ASSUME r \notin overlapped' PROVE RowCalm(r)'
  <2>1. RowCalm(r) /\ RowFits(r)
    BY <1>0, <1>3 DEF RowInv
  <2>2. DatesFit(r, row[r])'
    BY <1>0, <2>1 DEF RowCalm, RowFits, Fits, DatesFit
  <2> QED
    BY <1>0, <2>1, <2>2 DEF RowCalm, RowFits, Found
<1> QED
  BY <1>1, <1>2, <1>3 DEF RowInv

\* A step that leaves the certificates of the CA alone.
LEMMA FrameOf ==
    ASSUME NEW w \in Writers, UNCHANGED <<django, owner, now, validTo>>,
           \A v \in Writers : v # w => pc'[v] = pc[v] /\ pend'[v] = pend[v],
           \A j \in Jobs : j # w =>
              /\ kind'[j] = kind[j] /\ ts'[j] = ts[j] /\ todo'[j] = todo[j]
              /\ seen'[j] = seen[j] /\ acct'[j] = acct[j] /\ ask'[j] = ask[j],
           w \in Rows => pc'[w] \notin EarlyPc
    PROVE  Frame(w)
BY NamesDiffer DEF Frame, EarlyPc

\* A process that has ended holds nothing.
LEMMA EndedKeep ==
    ASSUME TypeOK', NEW w \in Writers,
           \/ w \in Rows /\ pc'[w] \in {"reuse", "enroll", "done"}
           \/ w \in Jobs /\ pc'[w] = "done" /\ kind'[w] = "none" /\ todo'[w] = {} /\ ts'[w] = 0
    PROVE  ProcInv(w)'
<1>1. ~Active(w)'
  BY DEF Active
<1>2. Works(w)'
  <2>1. now' \in Nat
    BY DEF TypeOK
  <2> QED
    BY <1>1, <2>1, NamesDiffer DEF Works, ThreadInv, JobInv, ThreadPc, JobPc, Tools, Active
<1>3. w \in Jobs => todo'[w] = {} /\ pc'[w] # "replace"
  BY NamesDiffer
<1>4. HoldsFitting(w)' /\ HoldsNoneEarly(w)'
  BY <1>1, <1>3 DEF HoldsFitting, HoldsNoneEarly
<1>5. \A r \in Rows : CalmFor(w, r)'
  BY <1>1, <1>3 DEF CalmFor
<1> QED
  BY <1>2, <1>4, <1>5 DEF ProcInv

\* What holds of a record stays true of it.
LEMMA RecordKeeps ==
    ASSUME TypeOK, NEW w \in Writers, Frame(w), NEW r \in Rows, NEW s \in Row, Fits(r, s)
    PROVE  /\ s.cert \in Rows => s.raw = s.cert
           /\ s.raw \in Rows => /\ owner'[s.raw] = owner'[r] /\ Csr[s.raw] = Csr[r]
                                /\ validTo'[s.raw] # 0 /\ validTo'[s.raw] = validTo[s.raw]
BY DEF Fits, Frame

\* A tool that goes on with fewer rows, none of them written.
LEMMA BackToRow ==
    ASSUME Whole, TypeOK', NEW j \in Jobs, Frame(j), overlapped \subseteq overlapped',
           pc'[j] = "row", kind'[j] = kind[j], kind[j] \in Tools, ts'[j] = ts[j],
           todo'[j] \subseteq todo[j],
           \A x \in todo'[j] : seen'[j][x] = seen[j][x] /\ row'[x] = row[x]
    PROVE  ProcInv(j)'
<1>0. /\ TypeOK /\ j \in Writers /\ ~Active(j)' /\ now' = now /\ owner' = owner
      /\ Works(j) /\ HoldsFitting(j) /\ HoldsNoneEarly(j)
      /\ \A r \in Rows \ overlapped : CalmFor(j, r)
  BY NamesDiffer DEF Whole, ProcInv, Active, Frame
<1>1. Works(j)'
  BY <1>0, NamesDiffer DEF Works, JobInv, JobPc, Active
<1>2. HoldsFitting(j)'
  <2>1. \A r \in todo'[j] : r \in Rows /\ seen[j][r] \in Row /\ Fits(r, seen[j][r])
    BY <1>0 DEF TypeOK, HoldsFitting
  <2>2. \A r \in todo'[j] : Fits(r, seen[j][r])'
    BY <1>0, <2>1, RecordKeeps DEF Fits
  <2> QED
    BY <1>0, <2>2 DEF HoldsFitting
<1>3. HoldsNoneEarly(j)'
  <2>1. \A r \in Rows : /\ pc'[r] = "idle" => pc[r] = "idle"
                        /\ pc'[r] \in EarlyPc => pc[r] \in EarlyPc
    BY DEF Frame
  <2> QED
    BY <1>0, <2>1 DEF HoldsNoneEarly, Active
<1>4. ASSUME NEW r \in Rows \ overlapped' PROVE CalmFor(j, r)'
  <2>1. CASE kind[j] # "poll" /\ r \in todo'[j]
    <3>1. UpToDate(j, r)
      BY <1>0, <2>1 DEF CalmFor
    <3>2. UpToDate(j, r)'
      BY <2>1, <3>1 DEF UpToDate
    <3> QED
      BY <1>0, <3>2 DEF CalmFor
  <2> QED
    BY <1>0, <2>1 DEF CalmFor
<1> QED
  BY <1>1, <1>2, <1>3, <1>4 DEF ProcInv

\* The end of a write.
LEMMA FinishFrame ==
    ASSUME TypeOK, NEW w \in Writers, Finishes(w), UNCHANGED <<django, owner, now, validTo>>
    PROVE  Frame(w)
<1>1. ASSUME NEW label \in {"done", "row", "order"}, Proceed(w, label), UNCHANGED jobVars
      PROVE  Frame(w)
  <2>1. label \in ThreadPc \cup JobPc
    BY DEF ThreadPc, JobPc
  <2>2. pc'[w] \notin EarlyPc /\ \A v \in Writers : v # w => pc'[v] = pc[v] /\ pend'[v] = pend[v]
    BY <1>1, <2>1, ProceedFacts DEF EarlyPc
  <2> QED
    BY <1>1, <2>2, FrameOf DEF jobVars
<1>2. ASSUME w \in Jobs, End(w) PROVE Frame(w)
  BY <1>2, EndFacts, FrameOf, NamesDiffer
<1> QED
  BY <1>1, <1>2 DEF Finishes

LEMMA FinishKeep ==
    ASSUME Whole, TypeOK', NEW w \in Writers, NEW x \in Rows, Active(w), x = pend[w].row,
           Finishes(w), Quiet(w) \/ WritesRow(w, x)
    PROVE  ProcInv(w)'
<1>0. /\ TypeOK /\ Frame(w) /\ overlapped \subseteq overlapped' /\ now' = now
      /\ \A r \in Rows : r # x => row'[r] = row[r]
      /\ Works(w) /\ HoldsFitting(w) /\ HoldsNoneEarly(w)
  BY DEF Whole, ProcInv, Quiet, WritesRow, NoteOverlap, Frame
<1>1. CASE w \in Rows /\ Proceed(w, "done")
  <2>1. pc'[w] = "done"
    BY <1>0, <1>1, ProceedFacts DEF ThreadPc
  <2> QED
    BY <1>1, <2>1, EndedKeep
<1>2. CASE w \in Jobs /\ Proceed(w, "row") /\ UNCHANGED jobVars
  <2>1. pc'[w] = "row"
    BY <1>0, <1>2, ProceedFacts DEF JobPc
  <2>2. kind[w] \in Tools /\ x \notin todo[w] /\ todo[w] \subseteq Rows
    BY <1>0, <1>2 DEF Works, JobInv, TypeOK
  <2> QED
    BY <1>0, <1>2, <2>1, <2>2, BackToRow DEF jobVars
<1>3. CASE /\ pend[w].what \in {"store", "rejected"} /\ (w \in Rows \/ kind[w] = "poll")
           /\ Proceed(w, "order") /\ UNCHANGED jobVars
  <2>1. pc'[w] = "order" /\ pend'[w] = pend[w]
    BY <1>0, <1>3, ProceedFacts DEF ThreadPc
  <2>2. Active(w)' /\ kind' = kind /\ todo' = todo /\ seen' = seen /\ ts' = ts
    BY <1>3, <2>1 DEF Active, jobVars
  <2>3. Works(w)'
    BY <1>0, <1>3, <2>1, <2>2, NamesDiffer DEF Works, ThreadInv, JobInv, ThreadPc, JobPc, Active
  <2>4. HoldsFitting(w)'
    <3>1. w \in Jobs => \A r \in todo[w] : r \in Rows /\ seen[w][r] \in Row /\ Fits(r, seen[w][r])
      BY <1>0 DEF TypeOK, HoldsFitting
    <3>2. w \in Jobs => \A r \in todo[w] : Fits(r, seen[w][r])'
      BY <1>0, <2>2, <3>1, RecordKeeps DEF Fits
    <3>3. pend[w].new \in Row /\ Fits(x, pend[w].new)
          /\ (pend[w].what = "store" => Complete(pend[w].new))
      BY <1>0 DEF TypeOK, HoldsFitting
    <3>4. Fits(pend[w].row, pend[w].new)' /\ ((pend[w].what = "store")' => Complete(pend[w].new)')
      BY <1>0, <2>1, <3>3, RecordKeeps DEF Fits, Complete
    <3> QED
      BY <2>2, <3>2, <3>4 DEF HoldsFitting
  <2>5. HoldsNoneEarly(w)'
    <3>1. \A r \in Rows : /\ pc'[r] = "idle" => pc[r] = "idle"
                          /\ pc'[r] \in EarlyPc => pc[r] \in EarlyPc
      BY <1>0 DEF Frame
    <3> QED
      BY <1>0, <2>1, <2>2, <3>1 DEF HoldsNoneEarly
  <2>6. \A r \in Rows : CalmFor(w, r)'
    BY <1>3, <2>1, <2>2, NamesDiffer DEF CalmFor
  <2> QED
    BY <2>3, <2>4, <2>5, <2>6 DEF ProcInv
<1>4. CASE w \in Jobs /\ End(w)
  BY <1>0, <1>4, EndFacts, EndedKeep
<1> QED
  BY <1>1, <1>2, <1>3, <1>4 DEF Finishes

\* All parts together, after a step of one process.
LEMMA Together ==
    ASSUME Whole, TypeOK', AnswersOwn', NEW w \in Writers, NEW x, ProcInv(w)',
           \/ Quiet(w)
           \/ WritesRow(w, x) /\ (x \in Rows => RowInv(x)')
    PROVE  Whole'
<1>1. \A v \in Writers : ProcInv(v)'
  BY OthersKeep
<1>2. \A r \in Rows : RowInv(r)'
  BY RowsKeep
<1> QED
  BY <1>1, <1>2 DEF Whole

\* What the record is that the first part of a write has for a row.
LEMMA MergedFits ==
    ASSUME Whole, NEW w \in Writers, pc[w] = "write"
    PROVE  LET what == pend[w].what  r == pend[w].row  new == pend[w].new
               m == Merge(what, row[r], new)
           IN
           /\ r \in Rows /\ m \in Row /\ Fits(r, m)
           /\ what \in {"store", "clear", "backfill", "error", "rejected"}
           /\ what = "store" => Complete(m) /\ m.cert = new.cert
           /\ what \in {"error", "rejected"} => m.cert = row[r].cert /\ m.raw = row[r].raw
           /\ m.there = row[r].there /\ m.replaced = row[r].replaced
           /\ m.poll \in {new.poll, row[r].poll}
           /\ r \notin overlapped =>
                 /\ DatesFit(r, m)
                 /\ what = "clear" => Expired(r) /\ m.cert = Removed /\ m.raw = row[r].raw
                 /\ what = "backfill" => /\ m.cert = row[r].cert /\ m.raw = row[r].raw
                                         /\ m.raw \in Rows /\ r \in Legacy
<1> DEFINE what == pend[w].what
           r == pend[w].row
           new == pend[w].new
           m == Merge(what, row[r], new)
<1>0. TypeOK /\ ProcInv(w) /\ Active(w)
  BY DEF Whole, Active
<1>1. /\ r \in Rows /\ what \in {"store", "clear", "backfill", "error", "rejected"}
  BY <1>0, NamesDiffer DEF ProcInv, Works, ThreadInv, JobInv, WritesOf
<1>2. /\ row[r] \in Row /\ new \in Row /\ what \in What /\ django \in BOOLEAN
      /\ RowInv(r) /\ Fits(r, new) /\ (what = "store" => Complete(new))
  BY <1>0, <1>1 DEF TypeOK, Whole, ProcInv, HoldsFitting
<1>3. /\ m \in Row
      /\ m.there = row[r].there /\ m.replaced = row[r].replaced
      /\ what \in {"store", "clear", "backfill"} => m.cert = new.cert /\ m.raw = new.raw
      /\ what \notin {"store", "clear", "backfill"} => m.cert = row[r].cert /\ m.raw = row[r].raw
      /\ what \in {"store", "clear"} => m.expire = new.expire
      /\ what \notin {"store", "clear", "backfill"} => m.expire = row[r].expire
      /\ what = "backfill" => m.expire = IF django THEN row[r].expire ELSE 0
      /\ what \in {"store", "backfill"} => m.serial = new.serial
      /\ what \notin {"store", "backfill"} => m.serial = row[r].serial
      /\ m.poll \in {new.poll, row[r].poll}
  BY <1>2, MergeParts
<1> HIDE DEF m
<1>4. Fits(r, m)
  BY <1>1, <1>2, <1>3 DEF Fits, RowInv, RowFits
<1>5. what = "store" => Complete(m) /\ m.cert = new.cert
  BY <1>2, <1>3 DEF Complete
<1>6. ASSUME r \notin overlapped
      PROVE  /\ DatesFit(r, m)
             /\ what = "clear" => Expired(r) /\ m.cert = Removed /\ m.raw = row[r].raw
             /\ what = "backfill" => /\ m.cert = row[r].cert /\ m.raw = row[r].raw
                                     /\ m.raw \in Rows /\ r \in Legacy
  <2>1. Keeps(w, r) /\ DatesFit(r, row[r])
    BY <1>0, <1>1, <1>2, <1>6 DEF ProcInv, CalmFor, RowInv, RowCalm
  <2>2. /\ what = "clear" => Expired(r) /\ m.cert = Removed /\ m.raw = row[r].raw
        /\ what = "backfill" => /\ m.cert = row[r].cert /\ m.raw = row[r].raw
                                /\ m.raw \in Rows /\ r \in Legacy
    BY <1>3, <2>1 DEF Keeps
  <2>3. DatesFit(r, m)
    <3>1. CASE what = "store"
      <4>1. m.raw \in Rows /\ m.expire = validTo[m.raw] /\ m.serial /\ m.raw # NoRow
        BY <1>5, <3>1, NamesDiffer DEF Complete
      <4> QED
        BY <4>1 DEF DatesFit
    <3>2. CASE what = "clear"
      BY <1>3, <2>1, <3>2 DEF Keeps, DatesFit
    <3>3. CASE what = "backfill"
      <4>1. m.raw \in Rows /\ r \in Legacy /\ m.raw = row[r].raw /\ m.raw # NoRow
        BY <2>2, <3>3, NamesDiffer
      <4>2. m.expire \in {0, row[r].expire}
        BY <1>3, <3>3
      <4> QED
        BY <2>1, <4>1, <4>2 DEF DatesFit
    <3>4. CASE what \in {"error", "rejected"}
      BY <1>3, <2>1, <3>4 DEF DatesFit
    <3> QED
      BY <1>1, <3>1, <3>2, <3>3, <3>4
  <2> QED
    BY <2>2, <2>3
<1> QED
  BY <1>1, <1>3, <1>4, <1>5, <1>6 DEF m

\* The first part of a write, which leaves the record to its second part.
LEMMA AgainKeep ==
    ASSUME Whole, TypeOK', NEW w \in Writers, pc[w] = "write", NEW r \in Rows,
           r = pend[w].row, Found(r), NEW m \in Row,
           m = Merge(pend[w].what, row[r], pend[w].new),
           pend' = [pend EXCEPT ![w].new = m], Goto(w, "again"), UNCHANGED jobVars,
           Frame(w), overlapped \subseteq overlapped',
           \A y \in Rows : y # r => row'[y] = row[y],
           row'[r] = IF django THEN m ELSE row[r]
    PROVE  ProcInv(w)'
<1>0. /\ TypeOK /\ Works(w) /\ HoldsFitting(w) /\ HoldsNoneEarly(w)
      /\ \A y \in Rows \ overlapped : CalmFor(w, y)
      /\ Active(w) /\ django' = django /\ now' = now /\ owner' = owner
      /\ kind' = kind /\ todo' = todo /\ seen' = seen /\ ts' = ts
      /\ row[r] \in Row /\ pend[w].new \in Row
  BY DEF Whole, ProcInv, Active, Frame, jobVars, TypeOK
<1>1. /\ pc'[w] = "again" /\ pend'[w].what = pend[w].what
      /\ pend'[w].row = r /\ pend'[w].new = m /\ Active(w)'
  BY <1>0, AgainFacts DEF Active
<1>2. /\ Fits(r, m)
      /\ pend[w].what \in {"store", "clear", "backfill", "error", "rejected"}
      /\ pend[w].what = "store" => Complete(m)
      /\ m.there = row[r].there /\ m.replaced = row[r].replaced
      /\ m.poll \in {pend[w].new.poll, row[r].poll}
      /\ r \notin overlapped =>
            /\ DatesFit(r, m)
            /\ pend[w].what = "clear" => Expired(r) /\ m.cert = Removed /\ m.raw = row[r].raw
            /\ pend[w].what = "backfill" => /\ m.cert = row[r].cert /\ m.raw = row[r].raw
                                            /\ m.raw \in Rows /\ r \in Legacy
  BY MergedFits
<1>3. Works(w)'
  BY <1>0, <1>1, NamesDiffer DEF Works, ThreadInv, JobInv, ThreadPc, JobPc, Active
<1>4. HoldsFitting(w)'
  <2>1. w \in Jobs => \A y \in todo[w] : y \in Rows /\ seen[w][y] \in Row /\ Fits(y, seen[w][y])
    BY <1>0 DEF TypeOK, HoldsFitting
  <2>2. w \in Jobs => \A y \in todo[w] : Fits(y, seen[w][y])'
    BY <1>0, <2>1, RecordKeeps DEF Fits
  <2>3. Fits(pend[w].row, pend[w].new)' /\ ((pend[w].what = "store")' => Complete(pend[w].new)')
    BY <1>0, <1>1, <1>2, RecordKeeps DEF Fits, Complete
  <2> QED
    BY <1>0, <2>2, <2>3 DEF HoldsFitting
<1>5. HoldsNoneEarly(w)'
  <2>1. \A y \in Rows : /\ pc'[y] = "idle" => pc[y] = "idle"
                        /\ pc'[y] \in EarlyPc => pc[y] \in EarlyPc
    BY DEF Frame
  <2>2. pc[r] \in EarlyPc => ~row[r].poll
    BY DEF Whole, RowInv, RowEarly
  <2> QED
    BY <1>0, <1>1, <1>2, <2>1, <2>2 DEF HoldsNoneEarly
<1>6. ASSUME NEW y \in Rows \ overlapped' PROVE CalmFor(w, y)'
  <2>0. y \in Rows \ overlapped /\ CalmFor(w, y)
    BY <1>0
  <2>1. (w \in Jobs /\ kind[w] # "poll" /\ y \in todo[w])' => UpToDate(w, y)'
    <3>1. w \in Jobs => r \notin todo[w]
      BY <1>0 DEF Works, JobInv
    <3> QED
      BY <1>0, <2>0, <3>1 DEF CalmFor, UpToDate
  <2>2. ASSUME y = r PROVE HalfDone(w, r)'
    <3>1. Found(r)'
      BY <1>2 DEF Found
    <3>2. CASE django
      BY <1>0, <1>1, <3>1, <3>2 DEF HalfDone
    <3>3. CASE ~django
      <4>1. row'[r] = row[r]
        BY <3>3
      <4>2. DatesFit(r, m) /\ Fits(r, m) /\ Fits(r, row[r])
        BY <1>2, <2>0, <2>2 DEF Whole, RowInv, RowFits
      <4>3. DatesFit(r, pend[w].new)'
        BY <1>0, <1>1, <4>2, RecordKeeps DEF DatesFit
      <4>4. Expired(r) => Expired(r)'
        BY <1>0, <4>1, <4>2, RecordKeeps DEF Expired
      <4>5. Keeps(w, r)'
        <5>1. /\ m.raw \in Rows => validTo'[m.raw] = validTo[m.raw]
          BY <1>0, <4>2, RecordKeeps
        <5>2. CASE pend[w].what = "clear"
          <6>1. /\ pend[w].new.raw \in Rows => pend[w].new.expire = validTo[pend[w].new.raw]
                /\ pend[w].new.raw = NoRow => pend[w].new.expire = 0
            BY <1>0, <2>0, <2>2, <5>2 DEF CalmFor, Keeps
          <6>2. m.raw = pend[w].new.raw /\ m.expire = pend[w].new.expire
            BY <1>0, <5>2, MergeParts DEF TypeOK
          <6> QED
            BY <1>1, <1>2, <2>0, <2>2, <4>1, <4>4, <5>1, <5>2, <6>1, <6>2 DEF Keeps
        <5>3. CASE pend[w].what # "clear"
          BY <1>1, <1>2, <2>0, <2>2, <4>1, <5>3 DEF Keeps
        <5> QED
          BY <5>2, <5>3
      <4> QED
        BY <1>0, <1>1, <1>2, <3>1, <3>3, <4>1, <4>3, <4>5 DEF HalfDone
    <3> QED
      BY <1>0, <3>2, <3>3 DEF TypeOK
  <2> QED
    BY <1>1, <2>1, <2>2 DEF CalmFor
<1> QED
  BY <1>3, <1>4, <1>5, <1>6 DEF ProcInv

\* A row somebody writes to was stored before, and is not polled for too early.
LEMMA StoredBefore ==
    ASSUME Whole, NEW w \in Writers, Active(w), NEW r \in Rows, r = pend[w].row
    PROVE  /\ pc[r] # "idle"
           /\ pc[r] \in EarlyPc => ~pend[w].new.poll /\ ~row[r].poll /\ validTo[r] = 0
<1>1. CASE w \in Rows
  <2>1. w = r
    BY <1>1 DEF Whole, ProcInv, Works, ThreadInv
  <2> QED
    BY <2>1 DEF Active, EarlyPc
<1>2. CASE w \in Jobs
  BY <1>2 DEF Whole, ProcInv, HoldsNoneEarly, RowInv, RowEarly
<1> QED
  BY <1>1, <1>2, NamesDiffer

\* What a written record means for the row.
LEMMA WrittenRow ==
    ASSUME Whole, TypeOK', NEW w \in Writers, Active(w), NEW r \in Rows, r = pend[w].row,
           WritesRow(w, r), UNCHANGED marked, NEW s \in Row, row'[r] = s, Fits(r, s),
           s.poll => pend[w].new.poll \/ row[r].poll,
           \/ kept'[r] = kept[r]
           \/ kept'[r] = s.cert /\ s.cert \in Rows,
           r \notin overlapped =>
              /\ DatesFit(r, s)
              /\ s.there = "yes" => Found(r) /\ s.replaced = row[r].replaced
              /\ \/ kept'[r] = s.cert /\ s.cert \in Rows /\ s.there = "yes"
                 \/ /\ kept'[r] = kept[r]
                    /\ Found(r) => \/ Expired(r)
                                   \/ /\ s.there = "yes"
                                      /\ s.cert = row[r].cert /\ s.raw = row[r].raw
    PROVE  RowInv(r)'
<1>0. /\ TypeOK /\ Frame(w) /\ RowInv(r) /\ now' = now /\ owner' = owner
      /\ overlapped \subseteq overlapped' /\ row[r] \in Row /\ kept[r] \in Rows \cup {NoRow, Removed}
      /\ validTo \in [Rows -> Nat] /\ now \in Nat
  BY DEF Whole, WritesRow, Frame, NoteOverlap, TypeOK
<1>1. /\ pc[r] # "idle"
      /\ pc[r] \in EarlyPc => ~pend[w].new.poll /\ ~row[r].poll /\ validTo[r] = 0
  BY StoredBefore
<1>2. /\ s.cert \in Rows => s.raw = s.cert
      /\ s.raw \in Rows => /\ owner'[s.raw] = owner'[r] /\ Csr[s.raw] = Csr[r]
                           /\ validTo'[s.raw] # 0 /\ validTo'[s.raw] = validTo[s.raw]
  BY <1>0, RecordKeeps
<1>3. kept[r] \in Rows => validTo'[kept[r]] # 0 /\ validTo'[kept[r]] = validTo[kept[r]]
  BY <1>0 DEF RowInv, RowFits, Frame
<1>4. RowFits(r)'
  BY <1>2, <1>3 DEF RowFits, Fits
<1>5. RowEarly(r)'
  BY <1>0, <1>1 DEF RowEarly, Frame
<1>6. ASSUME r \notin overlapped' PROVE RowCalm(r)'
  <2>1. r \notin overlapped /\ RowCalm(r)
    BY <1>0, <1>6 DEF RowInv
  <2>2. DatesFit(r, row[r])'
    BY <1>2, <2>1 DEF DatesFit
  <2>3. ASSUME kept'[r] \in Rows, now' < validTo'[kept'[r]]
        PROVE  Found(r)' /\ row'[r].cert = kept'[r] /\ row'[r].raw = kept'[r]
    <3>1. CASE kept'[r] = s.cert /\ s.cert \in Rows /\ s.there = "yes"
      BY <1>2, <3>1 DEF Found
    <3>2. CASE /\ kept'[r] = kept[r]
               /\ Found(r) => \/ Expired(r)
                              \/ /\ s.there = "yes"
                                 /\ s.cert = row[r].cert /\ s.raw = row[r].raw
      <4>1. Found(r) /\ row[r].cert = kept[r] /\ row[r].raw = kept[r]
        BY <1>0, <1>3, <2>1, <2>3, <3>2 DEF RowCalm
      <4>2. ~Expired(r)
        BY <1>0, <1>3, <2>3, <3>2, <4>1 DEF Expired
      <4> QED
        BY <3>2, <4>1, <4>2 DEF Found
    <3> QED
      BY <2>1, <3>1, <3>2
  <2>4. r \in marked' /\ Found(r)' => row'[r].replaced
    BY <2>1 DEF RowCalm, Found
  <2> QED
    BY <2>2, <2>3, <2>4 DEF RowCalm
<1> QED
  BY <1>4, <1>5, <1>6 DEF RowInv

LEMMA FirstStep ==
    ASSUME Whole, TypeOK', AnswersOwn', NEW w \in Writers, FirstCall(w) PROVE Whole'
<1>r. PICK r \in Rows : r = pend[w].row
  BY MergedFits, Zenon DEF FirstCall
<1> DEFINE what == pend[w].what
           new == pend[w].new
           m == Merge(what, row[r], new)
<1>0. /\ TypeOK /\ pc[w] = "write" /\ Active(w) /\ ProcInv(w) /\ r \in Rows /\ r = pend[w].row
      /\ UNCHANGED <<django, now, owner, validTo, marked>>
      /\ m = Merge(pend[w].what, row[r], pend[w].new)
  BY <1>r DEF Whole, FirstCall, Active
<1>1. /\ m \in Row /\ Fits(r, m)
      /\ what \in {"store", "clear", "backfill", "error", "rejected"}
      /\ what = "store" => Complete(m) /\ m.cert = new.cert
      /\ what \in {"error", "rejected"} => m.cert = row[r].cert /\ m.raw = row[r].raw
      /\ m.there = row[r].there /\ m.replaced = row[r].replaced
      /\ m.poll \in {new.poll, row[r].poll}
      /\ r \notin overlapped =>
            /\ DatesFit(r, m)
            /\ what = "clear" => Expired(r) /\ m.cert = Removed /\ m.raw = row[r].raw
            /\ what = "backfill" => m.cert = row[r].cert /\ m.raw = row[r].raw
  BY <1>0, MergedFits
<1>2. \/ /\ Found(r) /\ ~django
         /\ pend' = [pend EXCEPT ![w].new = m] /\ Goto(w, "again")
         /\ UNCHANGED <<row, jobVars, kept, overlapped>>
      \/ /\ Found(r) /\ django /\ row' = [row EXCEPT ![r] = m]
         /\ pend' = [pend EXCEPT ![w].new = m] /\ NoteOverlap(w, r)
         /\ kept' = IF what = "store" THEN [kept EXCEPT ![r] = m.cert] ELSE kept
         /\ Goto(w, "again") /\ UNCHANGED jobVars
      \/ /\ row[r].there = "no"
         /\ row' = [row EXCEPT ![r] = [Blank EXCEPT !.there = "orphan", !.created = now]]
         /\ NoteOverlap(w, r) /\ Finishes(w) /\ UNCHANGED kept
      \/ Finishes(w) /\ UNCHANGED <<row, kept, overlapped>>
  <2>1. /\ Proceed(w, AfterWrite(w)) /\ UNCHANGED jobVars => Finishes(w)
        /\ Fail(w) => Finishes(w)
    BY AfterFinishes
  <2> QED
    BY <1>r, <2>1 DEF FirstCall, Fail
<1> HIDE DEF what, new, m
<1>3. ASSUME pend' = [pend EXCEPT ![w].new = m], Goto(w, "again"), UNCHANGED jobVars
      PROVE  Frame(w)
  <2>1. /\ pc'[w] = "again"
        /\ \A v \in Writers : v # w => pc'[v] = pc[v] /\ pend'[v] = pend[v]
    BY <1>0, <1>1, <1>3, AgainFacts
  <2> QED
    BY <1>0, <1>3, <2>1, FrameOf DEF jobVars, EarlyPc
<1>4. CASE /\ Found(r) /\ ~django
           /\ pend' = [pend EXCEPT ![w].new = m] /\ Goto(w, "again")
           /\ UNCHANGED <<row, jobVars, kept, overlapped>>
  <2>1. Quiet(w)
    BY <1>0, <1>3, <1>4 DEF Quiet
  <2>2. ProcInv(w)'
    BY <1>0, <1>1, <1>3, <1>4, AgainKeep
  <2> QED
    BY <2>1, <2>2, Together
<1>5. CASE /\ Found(r) /\ django /\ row' = [row EXCEPT ![r] = m]
           /\ pend' = [pend EXCEPT ![w].new = m] /\ NoteOverlap(w, r)
           /\ kept' = IF what = "store" THEN [kept EXCEPT ![r] = m.cert] ELSE kept
           /\ Goto(w, "again") /\ UNCHANGED jobVars
  <2>1. /\ row'[r] = m /\ overlapped \subseteq overlapped'
        /\ \A y \in Rows : y # r => row'[y] = row[y] /\ kept'[y] = kept[y]
        /\ kept'[r] = IF what = "store" THEN m.cert ELSE kept[r]
    BY <1>0, <1>5 DEF TypeOK, NoteOverlap
  <2>2. WritesRow(w, r)
    <3>1. Frame(w)
      BY <1>3, <1>5
    <3>2. \A y \in Rows : y \in marked' <=> y \in marked
      BY <1>0
    <3> QED
      BY <1>5, <2>1, <3>1, <3>2 DEF WritesRow
  <2>3. ProcInv(w)'
    <3>1. Frame(w) /\ Found(r) /\ Goto(w, "again") /\ UNCHANGED jobVars
      BY <1>3, <1>5
    <3>2. pend' = [pend EXCEPT ![w].new = m] /\ row'[r] = IF django THEN m ELSE row[r]
      BY <1>5, <2>1
    <3>3. Whole /\ TypeOK' /\ pc[w] = "write" /\ r = pend[w].row /\ m \in Row
      BY <1>0, <1>1
    <3> QED
      BY <1>0, <2>1, <3>1, <3>2, <3>3, AgainKeep
  <2>4. what = "store" => m.cert \in Rows
    BY <1>1 DEF Complete
  <2>5. m.there = "yes"
    BY <1>1, <1>5 DEF Found
  <2>6. RowInv(r)'
    <3>1. CASE what = "store"
      <4>1. kept'[r] = m.cert /\ m.cert \in Rows
        BY <2>1, <2>4, <3>1, Zenon
      <4>2. /\ Whole /\ TypeOK' /\ Active(w) /\ r = pend[w].row /\ UNCHANGED marked
            /\ m \in Row /\ row'[r] = m /\ Fits(r, m)
            /\ m.poll => pend[w].new.poll \/ row[r].poll
        BY <1>0, <1>1, <2>1 DEF new
      <4>3. r \notin overlapped => DatesFit(r, m) /\ Found(r) /\ m.replaced = row[r].replaced
        BY <1>1, <1>5
      <4> QED
        BY <2>2, <2>5, <4>1, <4>2, <4>3, WrittenRow
    <3>2. CASE what # "store"
      <4>1. /\ kept'[r] = kept[r]
            /\ r \notin overlapped =>
                  Expired(r) \/ (m.cert = row[r].cert /\ m.raw = row[r].raw)
        BY <1>1, <2>1, <3>2
      <4>2. /\ Whole /\ TypeOK' /\ Active(w) /\ r = pend[w].row /\ UNCHANGED marked
            /\ m \in Row /\ row'[r] = m /\ Fits(r, m)
            /\ m.poll => pend[w].new.poll \/ row[r].poll
        BY <1>0, <1>1, <2>1 DEF new
      <4>3. r \notin overlapped => DatesFit(r, m) /\ Found(r) /\ m.replaced = row[r].replaced
        BY <1>1, <1>5
      <4> QED
        BY <2>2, <2>5, <4>1, <4>2, <4>3, WrittenRow
    <3> QED
      BY <3>1, <3>2, Zenon
  <2> QED
    BY <2>2, <2>3, <2>6, Together
<1>6. CASE /\ row[r].there = "no"
           /\ row' = [row EXCEPT ![r] = [Blank EXCEPT !.there = "orphan", !.created = now]]
           /\ NoteOverlap(w, r) /\ Finishes(w) /\ UNCHANGED kept
  <2> DEFINE s == [Blank EXCEPT !.there = "orphan", !.created = now]
  <2>1. /\ s \in Row /\ Fits(r, s) /\ DatesFit(r, s) /\ ~s.poll /\ s.there = "orphan"
    BY <1>0, NamesDiffer DEF TypeOK, Blank, Row, Fits, DatesFit
  <2> HIDE DEF s
  <2>2. row'[r] = s /\ \A y \in Rows : y # r => row'[y] = row[y]
    BY <1>0, <1>6 DEF TypeOK, s
  <2>3. WritesRow(w, r)
    BY <1>0, <1>6, <2>2, FinishFrame DEF WritesRow
  <2>4. ProcInv(w)'
    BY <1>0, <1>6, <2>3, FinishKeep
  <2>5. RowInv(r)'
    BY <1>0, <1>6, <2>1, <2>2, <2>3, WrittenRow DEF Found
  <2> QED
    BY <2>3, <2>4, <2>5, Together
<1>7. CASE Finishes(w) /\ UNCHANGED <<row, kept, overlapped>>
  <2>1. Quiet(w)
    BY <1>0, <1>7, FinishFrame DEF Quiet
  <2>2. ProcInv(w)'
    BY <1>0, <1>7, <2>1, FinishKeep
  <2> QED
    BY <2>1, <2>2, Together
<1> QED
  BY <1>2, <1>4, <1>5, <1>6, <1>7, Zenon

LEMMA SecondStep ==
    ASSUME Whole, TypeOK', AnswersOwn', NEW w \in Writers, SecondCall(w) PROVE Whole'
<1>1. PICK r \in Rows : r = pend[w].row
  BY ActiveRow, WholeIsAll DEF SecondCall, Active, CertificatesInv
<1> DEFINE what == pend[w].what
           new == pend[w].new
           s == SecondOf(w, r)
<1>2. /\ TypeOK /\ Active(w) /\ pc[w] = "again"
      /\ UNCHANGED <<django, now, owner, validTo, marked>>
      /\ Fits(r, new) /\ (what = "store" => Complete(new))
      /\ RowInv(r) /\ (r \notin overlapped => CalmFor(w, r))
      /\ row[r] \in Row /\ new \in Row /\ django \in BOOLEAN
  BY <1>1 DEF Whole, ProcInv, HoldsFitting, SecondCall, Active, TypeOK
<1>3. Finishes(w)
  BY AfterFinishes DEF SecondCall
<1>4. Frame(w)
  BY <1>2, <1>3, FinishFrame
<1>5. CASE UNCHANGED <<row, kept, overlapped>>
  <2>1. Quiet(w)
    BY <1>2, <1>4, <1>5 DEF Quiet
  <2>2. ProcInv(w)'
    BY <1>1, <1>2, <1>3, <2>1, FinishKeep
  <2> QED
    BY <2>1, <2>2, Together
<1>6. CASE /\ row' = [row EXCEPT ![r] = s] /\ NoteOverlap(w, r)
           /\ kept' = IF what = "store" THEN [kept EXCEPT ![r] = new.cert] ELSE kept
  <2>1. /\ s \in Row
        /\ django => s = new
        /\ ~django => s.there = row[r].there
        /\ ~django /\ what \in {"error", "rejected"} =>
              /\ s.cert = row[r].cert /\ s.raw = row[r].raw /\ s.expire = row[r].expire
              /\ s.serial = row[r].serial /\ s.replaced = row[r].replaced
              /\ s.poll = new.poll
        /\ ~django /\ what \notin {"error", "rejected"} =>
              /\ s.cert = new.cert /\ s.raw = new.raw /\ s.expire = new.expire
              /\ s.serial = new.serial /\ s.replaced = new.replaced
              /\ s.poll = new.poll
    BY <1>2, SecondParts
  <2> HIDE DEF s
  <2>2. /\ row'[r] = s
        /\ \A y \in Rows : y # r => row'[y] = row[y] /\ kept'[y] = kept[y]
        /\ kept'[r] = IF what = "store" THEN new.cert ELSE kept[r]
    BY <1>2, <1>6 DEF TypeOK
  <2>3. WritesRow(w, r)
    BY <1>2, <1>4, <1>6, <2>2 DEF WritesRow
  <2>4. ProcInv(w)'
    BY <1>1, <1>2, <1>3, <2>3, FinishKeep
  <2>5. Fits(r, s) /\ s.poll = new.poll
    <3>1. Fits(r, row[r])
      BY <1>2 DEF RowInv, RowFits
    <3> QED
      BY <1>2, <2>1, <3>1 DEF Fits
  <2>6. what = "store" => s.cert = new.cert /\ s.raw = new.raw /\ new.cert \in Rows
    BY <1>2, <2>1 DEF Complete
  <2>7. ASSUME r \notin overlapped
        PROVE  /\ DatesFit(r, s) /\ s.there = "yes" /\ Found(r) /\ s.replaced = row[r].replaced
               /\ what # "store" => \/ Expired(r)
                                    \/ s.cert = row[r].cert /\ s.raw = row[r].raw
    <3>1. HalfDone(w, r) /\ DatesFit(r, row[r])
      BY <1>1, <1>2, <2>7 DEF CalmFor, RowInv, RowCalm
    <3>2. Found(r) /\ row[r].there = "yes"
      BY <3>1 DEF HalfDone, Found
    <3>3. CASE django
      BY <2>1, <3>1, <3>2, <3>3 DEF HalfDone
    <3>4. CASE ~django
      <4>1. new.replaced = row[r].replaced /\ DatesFit(r, new) /\ Keeps(w, r)
        BY <3>1, <3>4 DEF HalfDone
      <4>2. DatesFit(r, s) /\ s.replaced = row[r].replaced /\ s.there = "yes"
        BY <2>1, <3>1, <3>2, <3>4, <4>1 DEF DatesFit
      <4>3. what # "store" => \/ Expired(r)
                              \/ s.cert = row[r].cert /\ s.raw = row[r].raw
        <5>1. what \in {"store", "clear", "backfill", "error", "rejected"}
          <6>1. Works(w)
            BY DEF Whole, ProcInv
          <6> QED
            BY <1>2, <6>1, NamesDiffer DEF Works, ThreadInv, JobInv, WritesOf
        <5> QED
          BY <2>1, <3>4, <4>1, <5>1 DEF Keeps
      <4> QED
        BY <3>2, <4>2, <4>3
    <3> QED
      BY <1>2, <3>3, <3>4
  <2>8. RowInv(r)'
    <3>1. CASE what = "store"
      <4>1. kept'[r] = s.cert /\ s.cert \in Rows
        BY <2>2, <2>6, <3>1
      <4> QED
        BY <1>1, <1>2, <2>1, <2>2, <2>3, <2>5, <2>7, <4>1, WrittenRow
    <3>2. CASE what # "store"
      <4>1. kept'[r] = kept[r]
        BY <2>2, <3>2
      <4> QED
        BY <1>1, <1>2, <2>1, <2>2, <2>3, <2>5, <2>7, <3>2, <4>1, WrittenRow
    <3> QED
      BY <3>1, <3>2
  <2> QED
    BY <2>3, <2>4, <2>8, Together
<1> QED
  BY <1>1, <1>5, <1>6 DEF SecondCall, Fail, SecondOf

LEMMA OrderStep ==
    ASSUME Whole, TypeOK', AnswersOwn', NEW w \in Writers, SetOrder(w) PROVE Whole'
<1>1. PICK r \in Rows : r = pend[w].row
  BY ActiveRow, WholeIsAll DEF SetOrder, Active, CertificatesInv
<1>2. Finishes(w) /\ TypeOK /\ Active(w)
  BY AfterFinishes DEF Whole, SetOrder, Active
<1>3. Quiet(w)
  BY <1>2, FinishFrame DEF Quiet, SetOrder, ghostVars
<1>4. ProcInv(w)'
  BY <1>1, <1>2, <1>3, FinishKeep
<1> QED
  BY <1>3, <1>4, Together

\* The purge removes a row.
LEMMA DeleteStep ==
    ASSUME Whole, TypeOK', AnswersOwn', NEW j \in Jobs, Delete(j) PROVE Whole'
<1>0. j \in Writers /\ Active(j) /\ TypeOK /\ UNCHANGED <<django, now, owner, validTo, kept, marked>>
  BY NamesDiffer DEF Delete, Active, Whole
<1>1. PICK r \in Rows : r = pend[j].row
  BY <1>0, ActiveRow, WholeIsAll DEF CertificatesInv
<1>2. Finishes(j)
  BY DEF Finishes, Delete
<1>3. Frame(j)
  BY <1>0, <1>2, FinishFrame
<1>4. CASE UNCHANGED <<row, overlapped>>
  <2>1. Quiet(j)
    BY <1>0, <1>3, <1>4 DEF Quiet
  <2>2. ProcInv(j)'
    BY <1>0, <1>1, <1>2, <2>1, FinishKeep
  <2> QED
    BY <1>0, <2>1, <2>2, Together
<1>5. CASE row' = [row EXCEPT ![r] = Blank] /\ NoteOverlap(j, r)
  <2>1. row'[r] = Blank /\ \A y \in Rows : y # r => row'[y] = row[y]
    BY <1>0, <1>5 DEF TypeOK
  <2>2. WritesRow(j, r)
    BY <1>0, <1>3, <1>5, <2>1 DEF WritesRow
  <2>3. ProcInv(j)'
    BY <1>0, <1>1, <1>2, <2>2, FinishKeep
  <2>4. /\ Blank \in Row /\ ~Blank.poll /\ Blank.there = "no"
        /\ Fits(r, Blank) /\ DatesFit(r, Blank)
    BY NamesDiffer DEF Blank, Row, Fits, DatesFit
  <2>5. r \notin overlapped => Expired(r)
    <3>1. r \notin overlapped => CalmFor(j, r)
      BY <1>0 DEF Whole, ProcInv
    <3> QED
      BY <1>0, <1>1, <3>1 DEF CalmFor, Delete
  <2>6. RowInv(r)'
    BY <1>0, <1>1, <2>1, <2>2, <2>4, <2>5, WrittenRow
  <2> QED
    BY <1>0, <2>2, <2>3, <2>6, Together
<1> QED
  BY <1>1, <1>4, <1>5 DEF Delete

\* The steps that end a tool or a request.
LEMMA EndFrame ==
    ASSUME TypeOK, NEW j \in Jobs, End(j), UNCHANGED <<django, owner, now, validTo>>
    PROVE  Frame(j)
BY EndFacts, FrameOf, NamesDiffer

LEMMA EndKeep ==
    ASSUME TypeOK, TypeOK', NEW j \in Jobs, End(j) PROVE ProcInv(j)'
BY EndFacts, EndedKeep, NamesDiffer

LEMMA EndToolStep ==
    ASSUME Whole, TypeOK', AnswersOwn', NEW j \in Jobs, EndTool(j) PROVE Whole'
<1>1. TypeOK /\ j \in Writers /\ End(j)
  BY NamesDiffer DEF Whole, EndTool
<1>2. Quiet(j)
  BY <1>1, EndFrame DEF Quiet, EndTool, ghostVars
<1> QED
  BY <1>1, <1>2, EndKeep, Together

\* A download and a revocation are for the account of the order.
LEMMA DownloadStep ==
    ASSUME Whole, TypeOK', NEW j \in Jobs, Download(j) PROVE Whole'
<1>1. TypeOK /\ j \in Writers /\ End(j) /\ owner' = owner
  BY NamesDiffer DEF Whole, Download
<1>2. Quiet(j)
  BY <1>1, EndFrame DEF Quiet, Download, tableVars
<1>3. AnswersOwn'
  <2>1. revoked' = revoked /\ AnswersOwn
    BY DEF Whole, Download, tableVars
  <2>2. PICK c \in Rows : c = ask[j] /\ owner[c] = acct[j]
    BY <1>1 DEF Whole, ProcInv, Works, JobInv, Download
  <2>3. row[c].cert \in Rows => owner[row[c].cert] = acct[j]
    BY <2>2 DEF Whole, RowInv, RowFits, Fits
  <2>4. served' = served \/ served' = served \cup {<<acct[j], row[c].cert>>}
    BY <2>2 DEF Download
  <2> QED
    BY <1>1, <2>1, <2>3, <2>4 DEF AnswersOwn
<1> QED
  BY <1>1, <1>2, <1>3, EndKeep, Together

LEMMA RevokeStep ==
    ASSUME Whole, TypeOK', NEW j \in Jobs, Revoke(j) PROVE Whole'
<1>1. TypeOK /\ j \in Writers /\ End(j) /\ owner' = owner
  BY NamesDiffer DEF Whole, Revoke
<1>2. Quiet(j)
  BY <1>1, EndFrame DEF Quiet, Revoke, ghostVars
<1>3. AnswersOwn'
  <2>1. served' = served /\ AnswersOwn
    BY DEF Whole, Revoke, ghostVars
  <2>2. owner[ask[j]] = acct[j]
    BY <1>1 DEF Whole, ProcInv, Works, JobInv, Revoke
  <2>3. revoked' = revoked \/ revoked' = revoked \cup {<<acct[j], ask[j]>>}
    BY DEF Revoke
  <2> QED
    BY <1>1, <2>1, <2>2, <2>3 DEF AnswersOwn
<1> QED
  BY <1>1, <1>2, <1>3, EndKeep, Together

\* A row is marked as replaced.
LEMMA ReplaceStep ==
    ASSUME Whole, TypeOK', AnswersOwn', NEW j \in Jobs, MarkReplaced(j) PROVE Whole'
<1>1. TypeOK /\ j \in Writers /\ End(j) /\ pc[j] = "replace" /\ UNCHANGED <<django, now, owner, validTo, kept>>
  BY NamesDiffer DEF Whole, MarkReplaced
<1>2. Frame(j) /\ ProcInv(j)'
  BY <1>1, EndFrame, EndKeep
<1>3. PICK r \in Rows : r = pend[j].row
  BY <1>1 DEF Whole, ProcInv, Works, JobInv
<1>4. CASE UNCHANGED <<row, marked, overlapped>>
  <2>1. Quiet(j)
    BY <1>1, <1>2, <1>4 DEF Quiet
  <2> QED
    BY <1>1, <1>2, <2>1, Together
<1>5. CASE /\ Found(r) /\ row' = [row EXCEPT ![r].replaced = TRUE]
           /\ marked' = marked \cup {r} /\ NoteOverlap(j, r)
  <2>0. row[r] \in Row /\ RowInv(r) /\ pc[r] # "idle" /\ overlapped \subseteq overlapped'
    BY <1>1, <1>3, <1>5 DEF Whole, TypeOK, ProcInv, HoldsNoneEarly, NoteOverlap
  <2> DEFINE s == [row[r] EXCEPT !.replaced = TRUE]
  <2>1. /\ s.cert = row[r].cert /\ s.raw = row[r].raw /\ s.expire = row[r].expire
        /\ s.serial = row[r].serial /\ s.there = row[r].there /\ s.poll = row[r].poll
        /\ s.replaced
    BY <2>0 DEF Row
  <2>2. row' = [row EXCEPT ![r] = s]
    BY <1>5
  <2> HIDE DEF s
  <2>3. row'[r] = s /\ \A y \in Rows : y # r => row'[y] = row[y]
    BY <1>1, <2>2 DEF TypeOK
  <2>4. WritesRow(j, r)
    BY <1>1, <1>2, <1>5, <2>3 DEF WritesRow
  <2>5. /\ \A c \in Rows : validTo'[c] = validTo[c]
        /\ pc'[r] = "idle" => pc[r] = "idle"
        /\ pc'[r] \in EarlyPc => pc[r] \in EarlyPc
    BY <1>1, <1>2 DEF Frame
  <2>6. RowFits(r)'
    BY <1>1, <2>0, <2>1, <2>3, <2>5 DEF RowInv, RowFits, Fits
  <2>7. RowEarly(r)'
    BY <1>1, <2>0, <2>1, <2>3, <2>5 DEF RowInv, RowEarly
  <2>8. r \notin overlapped' => RowCalm(r)'
    <3>1. r \notin overlapped' => DatesFit(r, row[r])'
      BY <1>1, <2>0, <2>1, <2>3, <2>5 DEF RowInv, RowCalm, RowFits, Fits, DatesFit
    <3> QED
      BY <1>1, <2>0, <2>1, <2>3, <2>5, <3>1 DEF RowInv, RowCalm, Found
  <2>9. RowInv(r)'
    BY <2>6, <2>7, <2>8 DEF RowInv
  <2> QED
    BY <1>1, <1>2, <2>4, <2>9, Together
<1> QED
  BY <1>3, <1>4, <1>5 DEF MarkReplaced

LEMMA LookupStep ==
    ASSUME Whole, TypeOK', AnswersOwn', NEW j \in Jobs, Lookup(j) PROVE Whole'
<1>1. /\ TypeOK /\ j \in Writers /\ pc[j] = "lookup" /\ Works(j)
      /\ UNCHANGED <<django, now, owner, row, validTo, kept, marked, overlapped>>
  BY NamesDiffer DEF Whole, ProcInv, Lookup, tableVars, ghostVars
<1>2. CASE End(j)
  <2>1. Quiet(j)
    BY <1>1, <1>2, EndFrame DEF Quiet
  <2> QED
    BY <1>1, <1>2, <2>1, EndKeep, Together
<1>3. ASSUME NEW a \in Accounts, NEW c \in Rows, NEW r \in Rows, LookupOf(j, a, c, r)
      PROVE  Whole'
  <2>1. kind[j] \in {"download", "revoke", "replace"} /\ Goto(j, kind[j])
    BY <1>3 DEF LookupOf
  <2>2. kind[j] \in ThreadPc \cup JobPc
    BY <2>1 DEF JobPc
  <2>3. /\ pc'[j] = kind[j] /\ \A v \in Writers : v # j => pc'[v] = pc[v]
    BY <1>1, <2>1, <2>2, GotoFacts
  <2>4. /\ pend'[j].row = r /\ \A v \in Writers : v # j => pend'[v] = pend[v]
        /\ UNCHANGED <<kind, todo, seen, ts>>
        /\ acct'[j] = a /\ ask'[j] = c
        /\ \A i \in Jobs : i # j => acct'[i] = acct[i] /\ ask'[i] = ask[i]
    BY <1>1, <1>3 DEF LookupOf, TypeOK, NoWrite
  <2>5. Frame(j)
    BY <1>1, <2>3, <2>4, FrameOf, NamesDiffer
  <2>6. Quiet(j)
    BY <1>1, <2>5 DEF Quiet
  <2>7. ~Active(j)' /\ ~Active(j) /\ todo[j] = {} /\ Found(r)
    BY <1>1, <1>3, <2>1, <2>3 DEF Active, Works, JobInv, LookupOf
  <2>8. kind[j] \in {"download", "revoke"} => owner[c] = a
    BY <1>3, <2>1 DEF LookupOf, ToDownload, ToRevoke, ToReplace, Allowed,
                      Whole, RowInv, RowFits, Fits
  <2>9. Works(j)'
    <3>1. ts'[j] <= now'
      BY <1>1, <2>4 DEF Works, JobInv
    <3> QED
      BY <1>1, <2>1, <2>3, <2>4, <2>7, <2>8, <3>1, NamesDiffer
         DEF Works, JobInv, JobPc, Tools, Active
  <2>10. HoldsFitting(j)' /\ \A y \in Rows : CalmFor(j, y)'
    BY <2>4, <2>7 DEF HoldsFitting, CalmFor
  <2>11. HoldsNoneEarly(j)'
    <3>1. pc'[r] # "idle"
      <4>1. pc[r] = "idle" => row[r].there = "no"
        BY DEF Whole, RowInv, RowEarly, Blank
      <4> QED
        BY <2>5, <2>7, <4>1 DEF Frame, Found
    <3> QED
      BY <2>4, <2>7, <3>1 DEF HoldsNoneEarly
  <2>12. ProcInv(j)'
    BY <2>9, <2>10, <2>11 DEF ProcInv
  <2> QED
    BY <1>1, <2>6, <2>12, Together
<1> QED
  BY <1>2, <1>3 DEF Lookup, LookupOf

\* A tool starts, and finds its rows.
LEMMA StartStep ==
    ASSUME Whole, TypeOK', AnswersOwn', NEW j \in Jobs, Start(j) PROVE Whole'
<1>1. /\ TypeOK /\ j \in Writers /\ pc[j] = "idle" /\ Works(j) /\ now \in Nat
      /\ UNCHANGED <<django, now, owner, row, validTo, kept, marked, overlapped,
                     pend, todo, seen, acct, ask>>
  BY NamesDiffer DEF Whole, ProcInv, Start, tableVars, ghostVars, TypeOK
<1>2. PICK k \in JobKinds[j] :
          /\ kind' = [kind EXCEPT ![j] = k]
          /\ ts' = [ts EXCEPT ![j] = IF k \in {"cleanup", "purge"} THEN now ELSE 0]
          /\ Goto(j, IF k \in Tools THEN "select" ELSE "lookup")
  BY DEF Start
<1>3. /\ pc'[j] = (IF k \in Tools THEN "select" ELSE "lookup")
      /\ \A v \in Writers : v # j => pc'[v] = pc[v]
  BY <1>1, <1>2 DEF Goto, TypeOK
<1>4. /\ kind'[j] = k /\ ts'[j] \in {0, now}
      /\ \A i \in Jobs : i # j => kind'[i] = kind[i] /\ ts'[i] = ts[i]
  BY <1>1, <1>2 DEF TypeOK
<1>5. Frame(j)
  BY <1>1, <1>3, <1>4, FrameOf, NamesDiffer
<1>6. Quiet(j)
  BY <1>1, <1>5 DEF Quiet
<1>7. ~Active(j)' /\ ~Active(j) /\ todo[j] = {} /\ pc'[j] # "replace"
  BY <1>1, <1>3 DEF Active, Works, JobInv
<1>8. Works(j)'
  <2>1. ts'[j] <= now'
    BY <1>1, <1>4
  <2> QED
    BY <1>1, <1>3, <1>4, <1>7, <2>1, NamesDiffer DEF Works, JobInv, JobPc
<1>9. HoldsFitting(j)' /\ HoldsNoneEarly(j)' /\ \A y \in Rows : CalmFor(j, y)'
  BY <1>1, <1>7 DEF HoldsFitting, HoldsNoneEarly, CalmFor
<1> QED
  BY <1>1, <1>6, <1>8, <1>9, Together DEF ProcInv

LEMMA SelectStep ==
    ASSUME Whole, TypeOK', AnswersOwn', NEW j \in Jobs, Select(j) PROVE Whole'
<1>1. /\ TypeOK /\ j \in Writers /\ pc[j] = "select" /\ Works(j)
      /\ UNCHANGED <<django, now, owner, row, validTo, kept, marked, overlapped,
                     pend, kind, ts, acct, ask>>
      /\ Goto(j, "row")
  BY NamesDiffer DEF Whole, ProcInv, Select, tableVars, ghostVars
<1>2. kind[j] \in Tools /\ todo[j] = {} /\ ts[j] <= now
  BY <1>1 DEF Works, JobInv, Active
<1>3. pc'[j] = "row" /\ \A v \in Writers : v # j => pc'[v] = pc[v]
  BY <1>1, GotoFacts DEF JobPc
<1>4. /\ \A i \in Jobs : i # j => todo'[i] = todo[i] /\ seen'[i] = seen[i]
      /\ \A r \in todo'[j] : r \in Wanted(j) /\ r \in Rows /\ seen'[j][r] = row[r]
  <2>1. CASE UNCHANGED <<todo, seen>>
    BY <1>2, <2>1
  <2>2. CASE /\ todo' = [todo EXCEPT ![j] = Wanted(j)]
             /\ seen' = [seen EXCEPT ![j] =
                          [r \in Rows |-> IF r \in Wanted(j) THEN row[r] ELSE Blank]]
    <3>1. Wanted(j) \subseteq Rows
      BY DEF Wanted
    <3> HIDE DEF Wanted
    <3> QED
      BY <1>1, <2>2, <3>1 DEF TypeOK
  <2> QED
    BY <2>1, <2>2 DEF Select
<1>5. Frame(j)
  BY <1>1, <1>3, <1>4, FrameOf, NamesDiffer
<1>6. Quiet(j)
  BY <1>1, <1>5 DEF Quiet
<1>7. ~Active(j)' /\ Works(j)'
  <2>1. ts'[j] <= now'
    BY <1>1, <1>2
  <2> QED
    BY <1>1, <1>2, <1>3, <2>1, NamesDiffer DEF Active, Works, JobInv, JobPc
<1>8. HoldsFitting(j)'
  <2>1. \A r \in Rows : Fits(r, row[r])
    BY DEF Whole, RowInv, RowFits
  <2>2. \A r \in todo'[j] : Fits(r, seen[j][r])'
    BY <1>1, <1>4, <2>1 DEF Fits
  <2> QED
    BY <1>7, <2>2 DEF HoldsFitting
<1>9. HoldsNoneEarly(j)'
  <2>1. \A r \in Rows : /\ pc'[r] = "idle" => row[r] = Blank
                        /\ pc'[r] \in EarlyPc => ~row[r].poll
    BY <1>5 DEF Whole, RowInv, RowEarly, Frame
  <2>2. \A r \in Wanted(j) : row[r].there = "yes"
    BY DEF Wanted, Found
  <2>3. Blank.there = "no"
    BY DEF Blank
  <2> QED
    BY <1>3, <1>4, <1>7, <2>1, <2>2, <2>3 DEF HoldsNoneEarly
<1>10. ASSUME NEW r \in Rows PROVE CalmFor(j, r)'
  <2>1. CASE r \in todo'[j] /\ kind[j] # "poll"
    <3>1. /\ kind[j] \in {"cleanup", "purge"} => row[r].expire <= ts[j]
          /\ kind[j] = "backfill" => ~row[r].serial
      BY <1>4, <2>1 DEF Wanted
    <3>2. UpToDate(j, r)'
      BY <1>1, <1>4, <2>1, <3>1 DEF UpToDate
    <3> QED
      BY <1>7, <3>2 DEF CalmFor
  <2> QED
    BY <1>1, <1>7, <2>1 DEF CalmFor
<1> QED
  BY <1>1, <1>6, <1>7, <1>8, <1>9, <1>10, Together DEF ProcInv

\* The CSR of a row is stored.
LEMMA StoreCsrStep ==
    ASSUME Whole, TypeOK', AnswersOwn', NEW r \in Rows, StoreCsr(r) PROVE Whole'
<1>1. /\ TypeOK /\ r \in Writers /\ pc[r] = "idle" /\ RowInv(r)
      /\ UNCHANGED <<django, now, owner, validTo, kept, marked, overlapped, pend, jobVars>>
      /\ row' = [row EXCEPT ![r] = [Blank EXCEPT !.there = "yes", !.created = now]]
      /\ Goto(r, IF ReuseTime > 0 THEN "reuse" ELSE "enroll")
  BY NamesDiffer DEF Whole, StoreCsr, ghostVars
<1>2. /\ pc'[r] \in {"reuse", "enroll"} /\ \A v \in Writers : v # r => pc'[v] = pc[v]
  BY <1>1 DEF Goto, TypeOK
<1> DEFINE s == [Blank EXCEPT !.there = "yes", !.created = now]
<1>3. /\ s.cert = NoRow /\ s.raw = NoRow /\ s.expire = 0 /\ ~s.poll
  BY <1>1 DEF Blank
<1>4. row' = [row EXCEPT ![r] = s]
  BY <1>1
<1> HIDE DEF s
<1>5. row'[r] = s /\ \A y \in Rows : y # r => row'[y] = row[y]
  BY <1>1, <1>4 DEF TypeOK
<1>6. Frame(r)
  <2>1. \A y \in Rows : /\ pc'[y] = "idle" => pc[y] = "idle"
                        /\ pc'[y] \in EarlyPc => pc[y] \in EarlyPc
    BY <1>1, <1>2, NamesDiffer DEF EarlyPc
  <2> QED
    BY <1>1, <1>2, <2>1 DEF Frame, jobVars
<1>7. NoteOverlap(r, r)
  <2>1. ASSUME NEW v \in Writers \ {r}, Knows(v, r) PROVE FALSE
    <3>1. CASE v \in Rows
      <4>1. v \notin Jobs /\ ThreadInv(v)
        BY <3>1, NamesDiffer DEF Whole, ProcInv, Works
      <4> QED
        BY <2>1, <4>1 DEF Knows, ThreadInv, Active
    <3>2. CASE v \in Jobs
      <4>1. r \notin todo[v] /\ (Active(v) => pend[v].row # r)
        BY <1>1, <3>2 DEF Whole, ProcInv, HoldsNoneEarly
      <4> QED
        BY <2>1, <4>1 DEF Knows, Active
    <3> QED
      BY <3>1, <3>2, NamesDiffer
  <2> QED
    BY <1>1, <2>1 DEF NoteOverlap
<1>8. WritesRow(r, r)
  BY <1>1, <1>5, <1>6, <1>7 DEF WritesRow
<1>9. ProcInv(r)'
  BY <1>1, <1>2, EndedKeep
<1>10. RowInv(r)'
  <2>1. kept[r] = NoRow /\ r \notin marked /\ validTo[r] = 0
    BY <1>1 DEF RowInv, RowEarly, EarlyPc
  <2>2. RowFits(r)'
    BY <1>1, <1>3, <1>5, <2>1, NamesDiffer DEF RowFits, Fits
  <2>3. RowEarly(r)'
    BY <1>1, <1>2, <1>3, <1>5, <2>1 DEF RowEarly
  <2>4. RowCalm(r)'
    BY <1>1, <1>3, <1>5, <2>1, NamesDiffer DEF RowCalm, DatesFit
  <2> QED
    BY <2>2, <2>3, <2>4 DEF RowInv
<1> QED
  BY <1>1, <1>8, <1>9, <1>10, Together

\* A write is planned.
LEMMA PlanKeep ==
    ASSUME Whole, TypeOK', NEW w \in Writers, NEW r \in Rows, Quiet(w),
           NEW what \in What, NEW new \in Row, Write(w, what, r, new),
           w \in Rows => w = r /\ what \in {"store", "error"},
           w \in Jobs =>
              /\ kind'[w] = kind[w] /\ ts'[w] = ts[w] /\ what \in WritesOf(kind[w])
              /\ kind[w] \in Tools \ {"purge"}
              /\ todo'[w] \subseteq todo[w] \ {r}
              /\ \A x \in todo'[w] : seen'[w][x] = seen[w][x]
              /\ pc[r] # "idle" /\ (pc[r] \in EarlyPc => ~new.poll),
           new.cert \in Rows => new.raw = new.cert,
           new.raw \in Rows => /\ owner[new.raw] = owner[r] /\ Csr[new.raw] = Csr[r]
                               /\ validTo'[new.raw] # 0,
           what = "store" => /\ new.cert \in Rows /\ new.serial
                             /\ new.expire = validTo'[new.cert],
           r \notin overlapped =>
              /\ what = "clear" => /\ Expired(r) /\ new.cert = Removed
                                   /\ new.raw \in Rows => new.expire = validTo[new.raw]
                                   /\ new.raw = NoRow => new.expire = 0
                                   /\ new.raw = row[r].raw
              /\ what = "backfill" => /\ new.cert = row[r].cert /\ new.raw = row[r].raw
                                      /\ new.raw \in Rows /\ r \in Legacy
    PROVE  ProcInv(w)'
<1>0. /\ TypeOK /\ Frame(w) /\ Works(w) /\ HoldsFitting(w) /\ HoldsNoneEarly(w)
      /\ \A y \in Rows \ overlapped : CalmFor(w, y)
      /\ UNCHANGED <<django, owner, now, row, overlapped>> /\ RowInv(r)
  BY DEF Whole, ProcInv, Quiet, Frame
<1>1. /\ pc'[w] = "write" /\ pend'[w].what = what /\ pend'[w].row = r /\ pend'[w].new = new
      /\ Active(w)'
  BY <1>0, WriteFacts DEF Active
<1>2. Works(w)'
  <2>1. w \in Rows => ThreadInv(w)'
    BY <1>1 DEF ThreadInv, ThreadPc
  <2>2. w \in Jobs => JobInv(w)'
    BY <1>0, <1>1 DEF Works, JobInv, JobPc
  <2> QED
    BY <2>1, <2>2 DEF Works
<1>3. HoldsFitting(w)'
  <2>1. w \in Jobs => \A y \in todo'[w] : y \in Rows /\ seen[w][y] \in Row /\ Fits(y, seen[w][y])
    BY <1>0 DEF TypeOK, HoldsFitting
  <2>2. w \in Jobs => \A y \in todo'[w] : Fits(y, seen[w][y])'
    BY <1>0, <2>1, RecordKeeps DEF Fits
  <2>3. Fits(pend[w].row, pend[w].new)' /\ ((pend[w].what = "store")' => Complete(pend[w].new)')
    BY <1>0, <1>1 DEF Fits, Complete
  <2> QED
    BY <2>2, <2>3 DEF HoldsFitting
<1>4. HoldsNoneEarly(w)'
  <2>1. \A y \in Rows : /\ pc'[y] = "idle" => pc[y] = "idle"
                        /\ pc'[y] \in EarlyPc => pc[y] \in EarlyPc
    BY <1>0 DEF Frame
  <2> QED
    BY <1>0, <1>1, <2>1 DEF HoldsNoneEarly
<1>5. ASSUME NEW y \in Rows \ overlapped' PROVE CalmFor(w, y)'
  <2>1. (w \in Jobs /\ kind[w] # "poll" /\ y \in todo[w])' => UpToDate(w, y)'
    BY <1>0 DEF CalmFor, UpToDate
  <2>2. ASSUME y = r PROVE Keeps(w, r)'
    <3>1. Expired(r) => Expired(r)'
      BY <1>0 DEF Expired, RowInv, RowFits, Fits, Frame
    <3>2. what = "clear" /\ new.raw \in Rows => validTo'[new.raw] = validTo[new.raw]
      BY <1>0, <2>2 DEF RowInv, RowFits, Fits, Frame
    <3> QED
      BY <1>0, <1>1, <2>2, <3>1, <3>2 DEF Keeps
  <2> QED
    BY <1>1, <2>1, <2>2 DEF CalmFor
<1> QED
  BY <1>2, <1>3, <1>4, <1>5 DEF ProcInv

LEMMA ReuseStep ==
    ASSUME Whole, TypeOK', AnswersOwn', NEW r \in Rows, Reuse(r) PROVE Whole'
<1>1. /\ TypeOK /\ r \in Writers /\ r \notin Jobs /\ pc[r] = "reuse" /\ "store" \in What
      /\ UNCHANGED <<django, now, owner, row, validTo, kept, marked, overlapped, jobVars>>
  BY NamesDiffer DEF Whole, Reuse, tableVars, ghostVars, What
<1>2. ASSUME NEW label \in {"done", "enroll"}, Goto(r, label), pend' = pend PROVE Whole'
  <2>1. /\ pc'[r] = label /\ \A v \in Writers : v # r => pc'[v] = pc[v]
    BY <1>1, <1>2 DEF Goto, TypeOK
  <2>2. \A y \in Rows : /\ pc'[y] = "idle" => pc[y] = "idle"
                        /\ pc'[y] \in EarlyPc => pc[y] \in EarlyPc
    BY <1>1, <2>1, NamesDiffer DEF EarlyPc
  <2>3. Quiet(r)
    BY <1>1, <1>2, <2>1, <2>2 DEF Quiet, Frame, jobVars
  <2>4. ProcInv(r)'
    BY <1>1, <2>1, EndedKeep
  <2> QED
    BY <1>1, <2>3, <2>4, Together
<1>3. ASSUME NEW s \in Rows, NEW new \in Row, ReuseWrites(r, s, new) PROVE Whole'
  <2>1. /\ owner[s] = owner[r] /\ Csr[s] = Csr[r] /\ row[s].cert \in Rows
        /\ Complete(new) /\ new.cert = row[s].cert /\ Write(r, "store", r, new)
    BY <1>3 DEF ReuseWrites
  <2>2. /\ pc'[r] = "write"
        /\ \A v \in Writers : v # r => pc'[v] = pc[v] /\ pend'[v] = pend[v]
    BY <1>1, <2>1, WriteFacts
  <2>3. Quiet(r)
    BY <1>1, <2>2, FrameOf DEF Quiet, EarlyPc, jobVars
  <2>4. row[s].raw = row[s].cert /\ Fits(s, row[s])
    BY <2>1 DEF Whole, RowInv, RowFits, Fits
  <2>5. /\ new.cert \in Rows /\ new.raw = new.cert /\ new.serial /\ new.expire = validTo[new.cert]
        /\ owner[new.raw] = owner[r] /\ Csr[new.raw] = Csr[r] /\ validTo[new.raw] # 0
    BY <2>1, <2>4 DEF Complete, Fits
  <2>6. ProcInv(r)'
    BY <1>1, <2>1, <2>3, <2>5, PlanKeep
  <2> QED
    BY <1>1, <2>3, <2>6, Together
<1> QED
  BY <1>1, <1>2, <1>3, ReuseCases

LEMMA EnrollStep ==
    ASSUME Whole, TypeOK', AnswersOwn', NEW r \in Rows, Enroll(r) PROVE Whole'
<1>1. /\ TypeOK /\ r \in Writers /\ r \notin Jobs /\ pc[r] = "enroll"
      /\ "store" \in What /\ "error" \in What
      /\ validTo[r] = 0 /\ now + Life \in Nat \ {0}
      /\ UNCHANGED <<django, now, owner, row, kept, marked, overlapped, jobVars>>
  BY NamesDiffer, CertificatesAssumption
     DEF Whole, Enroll, ghostVars, What, TypeOK, RowInv, RowEarly, EarlyPc
<1>2. ASSUME NEW what \in {"store", "error"}, NEW new \in Row, Write(r, what, r, new),
             validTo' = validTo \/ validTo' = [validTo EXCEPT ![r] = now + Life],
             new.cert \in Rows => new.raw = new.cert,
             new.raw \in Rows => new.raw = r /\ validTo'[r] # 0,
             what = "store" => new.cert = r /\ new.serial /\ new.expire = validTo'[r]
      PROVE  Whole'
  <2>1. /\ pc'[r] = "write"
        /\ \A v \in Writers : v # r => pc'[v] = pc[v] /\ pend'[v] = pend[v]
    BY <1>1, <1>2, WriteFacts
  <2>2. \A y \in Rows : /\ pc'[y] = "idle" => pc[y] = "idle"
                        /\ pc'[y] \in EarlyPc => pc[y] \in EarlyPc /\ y # r
                        /\ y # r => validTo'[y] = validTo[y]
    BY <1>1, <1>2, <2>1, NamesDiffer DEF EarlyPc, TypeOK
  <2>3. Quiet(r)
    BY <1>1, <2>1, <2>2 DEF Quiet, Frame, jobVars
  <2>4. ProcInv(r)'
    BY <1>1, <1>2, <2>3, PlanKeep
  <2> QED
    BY <1>1, <2>3, <2>4, Together
<1>3. CASE /\ validTo' = [validTo EXCEPT ![r] = now + Life]
           /\ Write(r, "store", r, [Blank EXCEPT !.cert = r, !.raw = r,
                !.expire = now + Life, !.serial = TRUE])
  <2> DEFINE new == [Blank EXCEPT !.cert = r, !.raw = r, !.expire = now + Life, !.serial = TRUE]
  <2>1. new \in Row /\ new.cert = r /\ new.raw = r /\ new.expire = now + Life /\ new.serial
    BY <1>1, NewParts
  <2>2. Write(r, "store", r, new) /\ validTo'[r] = now + Life
    BY <1>1, <1>3 DEF TypeOK
  <2> HIDE DEF new
  <2> QED
    BY <1>1, <1>2, <1>3, <2>1, <2>2
<1>4. ASSUME NEW new \in Row, new.cert = NoRow, new.raw = NoRow, Write(r, "error", r, new),
             validTo' = validTo
      PROVE  Whole'
  BY <1>2, <1>4, NamesDiffer
<1>5. /\ [Blank EXCEPT !.poll = TRUE] \in Row /\ Blank \in Row
      /\ [Blank EXCEPT !.poll = TRUE].cert = NoRow /\ Blank.cert = NoRow
      /\ [Blank EXCEPT !.poll = TRUE].raw = NoRow /\ Blank.raw = NoRow
  BY DEF Blank, Row
<1> QED
  BY <1>3, <1>4, <1>5 DEF Enroll

\* A tool handles one of its rows.
LEMMA HandleStep ==
    ASSUME Whole, TypeOK', AnswersOwn', NEW j \in Jobs, HandleRow(j) PROVE Whole'
<1>1. /\ TypeOK /\ j \in Writers /\ j \notin Rows /\ pc[j] = "row" /\ Works(j)
      /\ HoldsFitting(j) /\ HoldsNoneEarly(j)
      /\ UNCHANGED <<django, now, owner, row, kept, marked, overlapped, kind, ts, acct, ask>>
  BY NamesDiffer DEF Whole, ProcInv, HandleRow, ghostVars
<1>2. PICK r \in todo[j] :
         /\ Handles(j, r)
         /\ todo'[j] \subseteq todo[j] \ {r}
         /\ \A x \in todo'[j] : seen'[j][x] = seen[j][x]
         /\ \A i \in Jobs : i # j => todo'[i] = todo[i] /\ seen'[i] = seen[i]
  BY <1>1, HandleCases
<1> DEFINE s == seen[j][r]
<1>3. /\ r \in Rows /\ s \in Row /\ Fits(r, s) /\ kind[j] \in Tools /\ ts[j] <= now
      /\ pc[r] # "idle" /\ (pc[r] \in EarlyPc => ~s.poll /\ validTo[r] = 0)
      /\ RowInv(r) /\ ts[j] \in Nat /\ now \in Nat /\ validTo \in [Rows -> Nat]
      /\ s.raw \in Rows \cup {NoRow} /\ s.expire \in Nat
      /\ r \notin overlapped /\ kind[j] # "poll" => UpToDate(j, r) /\ s = row[r]
  <2>1. r \in Rows
    BY <1>1 DEF TypeOK
  <2>2. r \notin overlapped => CalmFor(j, r)
    BY <1>1, <2>1 DEF Whole, ProcInv
  <2> QED
    BY <1>1, <1>2, <2>1, <2>2 DEF TypeOK, Works, JobInv, HoldsFitting, HoldsNoneEarly, Whole,
                                  RowInv, RowEarly, CalmFor, UpToDate, Row
<1> HIDE DEF s
\* a write of a tool, with what each of the five sorts gives
<1>4. ASSUME NEW what \in {"store", "clear", "backfill", "error", "rejected"},
             NEW new \in Row, Write(j, what, r, new),
             \A c \in Rows \ {r} : validTo'[c] = validTo[c],
             validTo[r] # 0 => validTo'[r] = validTo[r],
             pc[r] \in EarlyPc => validTo'[r] = validTo[r] /\ ~new.poll,
             what \in WritesOf(kind[j]), kind[j] # "purge",
             new.cert \in Rows => new.raw = new.cert,
             new.raw \in Rows => /\ owner[new.raw] = owner[r] /\ Csr[new.raw] = Csr[r]
                                 /\ validTo'[new.raw] # 0,
             what = "store" => /\ new.cert \in Rows /\ new.serial
                               /\ new.expire = validTo'[new.cert],
             r \notin overlapped =>
                /\ what = "clear" => /\ Expired(r) /\ new.cert = Removed
                                     /\ new.raw \in Rows => new.expire = validTo[new.raw]
                                     /\ new.raw = NoRow => new.expire = 0
                                     /\ new.raw = row[r].raw
                /\ what = "backfill" => /\ new.cert = row[r].cert /\ new.raw = row[r].raw
                                        /\ new.raw \in Rows /\ r \in Legacy
      PROVE  Whole'
  <2>1. what \in What
    BY DEF What
  <2>2. /\ pc'[j] = "write"
        /\ \A v \in Writers : v # j => pc'[v] = pc[v] /\ pend'[v] = pend[v]
    BY <1>1, <1>3, <1>4, <2>1, WriteFacts
  <2>3. Quiet(j)
    BY <1>1, <1>2, <1>4, <2>2, NamesDiffer DEF Quiet, Frame
  <2>4. ProcInv(j)'
    BY <1>1, <1>2, <1>3, <1>4, <2>1, <2>3, PlanKeep
  <2> QED
    BY <1>1, <2>3, <2>4, Together
<1>5. CASE HandleSkips(j)
  <2>1. /\ pc'[j] = "row" /\ \A v \in Writers : v # j => pc'[v] = pc[v]
    BY <1>1, <1>5 DEF HandleSkips, Goto, TypeOK
  <2>2. Frame(j)
    BY <1>1, <1>2, <1>5, <2>1, FrameOf DEF HandleSkips
  <2>3. Quiet(j)
    BY <1>1, <2>2 DEF Quiet
  <2>4. ProcInv(j)'
    BY <1>1, <1>2, <1>3, <2>1, <2>2, BackToRow
  <2> QED
    BY <1>1, <2>3, <2>4, Together
<1>6. CASE HandleDeletes(j, r)
  <2>0. /\ kind[j] = "purge" /\ Clearable(s, ts[j], TRUE)
        /\ pend' = [pend EXCEPT ![j] = [what |-> "delete", row |-> r, new |-> s]]
        /\ Goto(j, "delete") /\ validTo' = validTo
    BY <1>6 DEF HandleDeletes, s
  <2>1. /\ pc'[j] = "delete" /\ \A v \in Writers : v # j => pc'[v] = pc[v] /\ pend'[v] = pend[v]
        /\ pend'[j].what = "delete" /\ pend'[j].row = r /\ pend'[j].new = s /\ Active(j)'
    BY <1>1, <2>0 DEF Goto, TypeOK, Active
  <2>2. Frame(j)
    BY <1>1, <1>2, <2>0, <2>1, FrameOf
  <2>3. Quiet(j)
    BY <1>1, <2>2 DEF Quiet
  <2>4. Works(j)'
    <3>1. JobInv(j)'
      BY <1>1, <1>2, <1>3, <2>0, <2>1 DEF Works, JobInv, JobPc, WritesOf, Tools
    <3> QED
      BY <1>1, <3>1 DEF Works
  <2>5. HoldsFitting(j)'
    <3>1. \A y \in todo'[j] : y \in Rows /\ seen[j][y] \in Row /\ Fits(y, seen[j][y])
      BY <1>1, <1>2 DEF TypeOK, HoldsFitting
    <3>2. \A y \in todo'[j] : Fits(y, seen[j][y])'
      BY <1>1, <1>2, <2>0, <3>1 DEF Fits
    <3>3. Fits(pend[j].row, pend[j].new)'
      BY <1>1, <1>3, <2>0, <2>1 DEF Fits
    <3> QED
      BY <2>1, <3>2, <3>3 DEF HoldsFitting
  <2>6. HoldsNoneEarly(j)'
    <3>1. \A y \in Rows : /\ pc'[y] = "idle" => pc[y] = "idle"
                          /\ pc'[y] \in EarlyPc => pc[y] \in EarlyPc
      BY <2>2 DEF Frame
    <3> QED
      BY <1>1, <1>2, <1>3, <2>1, <3>1 DEF HoldsNoneEarly
  <2>7. ASSUME NEW y \in Rows \ overlapped' PROVE CalmFor(j, y)'
    <3>0. y \notin overlapped /\ CalmFor(j, y)
      BY <1>1 DEF Whole, ProcInv
    <3>1. y \in todo'[j] => UpToDate(j, y)'
      BY <1>1, <1>2, <2>0, <3>0 DEF CalmFor, UpToDate
    <3>2. y = r => Expired(r)'
      <4>1. y = r => /\ s = row[r] /\ row[r].expire <= ts[j]
                     /\ DatesFit(r, row[r]) /\ Fits(r, row[r])
        BY <1>3, <2>0, <3>0 DEF UpToDate, RowInv, RowCalm, RowFits
      <4>2. ASSUME y = r, row[r].cert \in Rows PROVE validTo[row[r].cert] <= now
        <5>1. row[r].raw = row[r].cert /\ row[r].cert # Removed /\ row[r].raw \in Rows
          BY <4>1, <4>2, NamesDiffer DEF Fits
        <5>2. validTo[row[r].raw] \in Nat
          BY <1>3, <5>1
        <5> QED
          BY <1>3, <2>0, <4>1, <4>2, <5>1, <5>2, NamesDiffer DEF DatesFit, Clearable
      <4> QED
        BY <1>1, <2>0, <4>2 DEF Expired
    <3> QED
      BY <2>1, <3>1, <3>2 DEF CalmFor
  <2> QED
    BY <1>1, <2>3, <2>4, <2>5, <2>6, <2>7, Together DEF ProcInv
<1>7. ASSUME NEW new \in Row, HandleClears(j, r, new) PROVE Whole'
  <2>1. /\ kind[j] = "cleanup" /\ Clearable(s, ts[j], FALSE) /\ Write(j, "clear", r, new)
        /\ new.cert = Removed /\ new.raw = s.raw /\ new.poll = s.poll
        /\ new.expire = (IF s.raw = NoRow THEN s.expire ELSE validTo[s.raw])
        /\ validTo' = validTo
    BY <1>7 DEF HandleClears, s
  <2>2. new.cert \notin Rows
    BY <2>1, NamesDiffer
  <2>3. ASSUME r \notin overlapped
        PROVE  /\ Expired(r) /\ new.raw = row[r].raw
               /\ new.raw \in Rows => new.expire = validTo[new.raw]
               /\ new.raw = NoRow => new.expire = 0
    <3>1. /\ s = row[r] /\ row[r].expire <= ts[j] /\ DatesFit(r, row[r]) /\ Fits(r, row[r])
      BY <1>3, <2>1, <2>3 DEF UpToDate, RowInv, RowCalm, RowFits
    <3>2. ASSUME row[r].cert \in Rows PROVE validTo[row[r].cert] <= now
      <4>1. row[r].raw = row[r].cert /\ row[r].cert # Removed /\ row[r].raw \in Rows
        BY <3>1, <3>2, NamesDiffer DEF Fits
      <4>2. validTo[row[r].raw] \in Nat
        BY <1>3, <4>1
      <4> QED
        BY <1>3, <2>1, <3>1, <3>2, <4>1, <4>2, NamesDiffer DEF DatesFit, Clearable
    <3>3. Expired(r)
      BY <3>2 DEF Expired
    <3> QED
      BY <2>1, <3>1, <3>3, NamesDiffer DEF DatesFit
  <2> QED
    BY <1>3, <1>4, <2>1, <2>2, <2>3 DEF WritesOf, Fits
<1>8. ASSUME NEW new \in Row, HandleDates(j, r, new) PROVE Whole'
  <2>1. /\ kind[j] = "dates" /\ Write(j, "store", r, new) /\ s.raw \in Rows
        /\ Complete(new) /\ new.raw = s.raw /\ ~new.poll /\ validTo' = validTo
    BY <1>8 DEF HandleDates, s
  <2> QED
    BY <1>3, <1>4, <2>1 DEF WritesOf, Fits, Complete
<1>9. ASSUME NEW new \in Row, HandleFills(j, r, new) PROVE Whole'
  <2>1. /\ kind[j] = "backfill" /\ Write(j, "backfill", r, new) /\ s.raw \in Rows
        /\ new.cert = s.cert /\ new.raw = s.raw /\ new.poll = s.poll /\ validTo' = validTo
    BY <1>9 DEF HandleFills, s
  <2>2. r \notin overlapped => r \in Legacy /\ s = row[r]
    BY <1>3, <2>1, NamesDiffer DEF UpToDate, RowInv, RowCalm, DatesFit
  <2> QED
    BY <1>3, <1>4, <2>1, <2>2 DEF WritesOf, Fits
<1>10. ASSUME NEW new \in Row, HandleStores(j, r, new) PROVE Whole'
  <2>1. /\ kind[j] = "poll" /\ s.poll /\ Write(j, "store", r, new)
        /\ new.cert = r /\ new.raw = r /\ new.serial /\ new.expire # 0 /\ ~new.poll
        /\ validTo' = [validTo EXCEPT ![r] = new.expire]
        /\ validTo[r] # 0 => new.expire = validTo[r]
    BY <1>10 DEF HandleStores, s
  <2> QED
    BY <1>3, <1>4, <2>1 DEF WritesOf
<1>11. ASSUME NEW what \in {"error", "rejected"}, HandleErrs(j, r, what) PROVE Whole'
  <2>1. /\ kind[j] = "poll" /\ s.poll /\ Write(j, what, r, s) /\ validTo' = validTo
    BY <1>11 DEF HandleErrs, s
  <2> QED
    BY <1>3, <1>4, <2>1 DEF WritesOf, Fits
<1> QED
  BY <1>2, <1>5, <1>6, <1>7, <1>8, <1>9, <1>10, <1>11 DEF Handles

-----------------------------------------------------------------------------
(* The theorems                                                            *)

LEMMA TickType == ASSUME TypeOK, Tick PROVE TypeOK'
<1>1. now' \in Nat
  BY DEF TypeOK, Tick
<1> QED
  BY <1>1 DEF TypeOK, Tick, tableVars, jobVars, ghostVars

\* As time goes on, what was expired stays expired.
LEMMA TickStep == ASSUME Whole, Tick PROVE Whole'
<1>1. /\ TypeOK /\ TypeOK' /\ now \in Nat /\ now' = now + 1 /\ validTo \in [Rows -> Nat]
      /\ UNCHANGED <<django, owner, row, order, filled, validTo, revoked, pc, pend, kind, todo,
                     seen, ts, acct, ask, served, kept, marked, overlapped>>
  BY TickType DEF Whole, TypeOK, Tick, tableVars, jobVars, ghostVars
<1>2. AnswersOwn'
  BY <1>1 DEF Whole, AnswersOwn
<1>3. ASSUME NEW w \in Writers PROVE ProcInv(w)'
  <2>1. Works(w) /\ HoldsFitting(w) /\ HoldsNoneEarly(w)
    BY DEF Whole, ProcInv
  <2>2. w \in Jobs => ts[w] \in Nat
    BY <1>1 DEF TypeOK
  <2>3. Works(w)'
    <3>1. w \in Jobs => ts'[w] <= now'
      BY <1>1, <2>1, <2>2 DEF Works, JobInv
    <3> QED
      BY <1>1, <2>1, <3>1 DEF Works, ThreadInv, JobInv, Active
  <2>4. HoldsFitting(w)'
    BY <1>1, <2>1 DEF HoldsFitting, Fits, Complete, Active
  <2>5. HoldsNoneEarly(w)'
    BY <1>1, <2>1 DEF HoldsNoneEarly, Active
  <2>6. ASSUME NEW r \in Rows \ overlapped' PROVE CalmFor(w, r)'
    <3>1. CalmFor(w, r)
      BY <1>1 DEF Whole, ProcInv
    <3>2. Expired(r) => Expired(r)'
      BY <1>1 DEF Expired
    <3>3. UpToDate(w, r) => UpToDate(w, r)'
      BY <1>1 DEF UpToDate
    <3>4. Keeps(w, r) => Keeps(w, r)'
      BY <1>1, <3>2 DEF Keeps
    <3>5. HalfDone(w, r) => HalfDone(w, r)'
      BY <1>1, <3>4 DEF HalfDone, Found, DatesFit
    <3> QED
      BY <1>1, <3>1, <3>2, <3>3, <3>4, <3>5 DEF CalmFor, Active
  <2> QED
    BY <2>3, <2>4, <2>5, <2>6 DEF ProcInv
<1>4. ASSUME NEW r \in Rows PROVE RowInv(r)'
  <2>1. RowInv(r)
    BY DEF Whole
  <2>2. RowFits(r)' /\ RowEarly(r)'
    BY <1>1, <2>1 DEF RowInv, RowFits, RowEarly, Fits
  <2>3. r \notin overlapped' => RowCalm(r)'
    <3>1. kept[r] \in Rows /\ now' < validTo[kept[r]] => now < validTo[kept[r]]
      BY <1>1
    <3> QED
      BY <1>1, <2>1, <3>1 DEF RowInv, RowCalm, DatesFit, Found
  <2> QED
    BY <2>2, <2>3 DEF RowInv
<1> QED
  BY <1>1, <1>2, <1>3, <1>4 DEF Whole

\* Every step keeps the invariant and the properties.
LEMMA WholeNext == ASSUME Whole, [Next]_vars PROVE Whole'
<1> USE NamesDiffer
<1>0. TypeOK /\ WorkInv /\ AnswersOwn
  BY WholeIsAll DEF CertificatesInv
<1>1. ASSUME NEW r \in Rows, Thread(r) PROVE Whole'
  <2>1. TypeOK' /\ AnswersOwn'
    BY <1>0, <1>1, ThreadType DEF Thread, StoreCsr, Reuse, Enroll, AnswersOwn, ghostVars, tableVars
  <2> QED
    BY <1>1, <2>1, StoreCsrStep, ReuseStep, EnrollStep DEF Thread
<1>2. ASSUME NEW j \in Jobs, Tool(j) PROVE Whole'
  <2>1. TypeOK' /\ AnswersOwn'
    BY <1>0, <1>2, ToolType
       DEF Tool, Start, Select, HandleRow, Delete, EndTool, AnswersOwn, ghostVars, tableVars
  <2> QED
    BY <1>2, <2>1, StartStep, SelectStep, HandleStep, DeleteStep, EndToolStep DEF Tool
<1>3. ASSUME NEW j \in Jobs, Serve(j) PROVE Whole'
  <2>1. TypeOK'
    BY <1>0, <1>3, ServeType
  <2>2. Lookup(j) \/ MarkReplaced(j) => AnswersOwn'
    BY <1>0 DEF Lookup, MarkReplaced, AnswersOwn, ghostVars, tableVars
  <2> QED
    BY <1>3, <2>1, <2>2, LookupStep, DownloadStep, RevokeStep, ReplaceStep DEF Serve
<1>4. ASSUME NEW w \in Writers, Store(w) PROVE Whole'
  <2>1. TypeOK' /\ AnswersOwn'
    BY <1>0, <1>4, StoreType
       DEF Store, FirstCall, SecondCall, SetOrder, AnswersOwn, ghostVars
  <2> QED
    BY <1>4, <2>1, FirstStep, SecondStep, OrderStep, SMTT(30) DEF Store
<1>5. CASE UNCHANGED vars
  BY <1>5 DEF vars, tableVars, jobVars, ghostVars, Whole, TypeOK, AnswersOwn,
     ProcInv, Works, ThreadInv, JobInv, HoldsFitting, HoldsNoneEarly, CalmFor, Active,
     UpToDate, Keeps, HalfDone, Expired, Found, Fits, Complete, DatesFit,
     RowInv, RowFits, RowEarly, RowCalm
<1> QED
  BY <1>1, <1>2, <1>3, <1>4, <1>5, TickStep DEF Next

\* The whole of it in one theorem, from which the others follow.
LEMMA WholeInvariant == Spec => []Whole
<1>1. Init => Whole
  BY CertificatesInit, WholeIsAll
<1>2. Whole /\ [Next]_vars => Whole'
  BY WholeNext
<1> QED
  BY <1>1, <1>2, PTL DEF Spec

\* At every moment, for any rows, tools, requests and interleavings of their
\* database calls, what is stored in a row and in every record that is still to
\* be written back belongs together (certificate_add of both database handlers
\* and all that call it).
THEOREM CertificatesInvariant == Spec => []CertificatesInv
<1>1. Whole => CertificatesInv
  BY WholeIsAll
<1> QED
  BY <1>1, WholeInvariant, PTL

\* A row never holds the certificate of another account's CSR or of another key,
\* and nobody gets or revokes a certificate that was issued for somebody else
\* (_check_certificate_reusability, the account checks of revocation and download).
THEOREM CertificatesFit == Spec => []CertificateFits
<1>1. Whole => CertificateFits
  <2> SUFFICES ASSUME Whole PROVE CertificateFits
    OBVIOUS
  <2>1. \A r \in Rows : Fits(r, row[r])
    BY DEF Whole, RowInv, RowFits
  <2> QED
    BY <2>1 DEF Whole, CertificateFits, Fits
<1> QED
  BY <1>1, WholeInvariant, PTL

\* A certificate that was stored is in its row until it expires, whatever the
\* cleanup, the purge, the date update, the completion of serial numbers and the
\* poll tool do, as long as no write to the row falls between another process's
\* read of it and its write (CertificateManager.cleanup_certificates,
\* Housekeeping, Renewalinfo).
THEOREM IssuedKept == Spec => []IssuedIsKept
<1>1. Whole => IssuedIsKept
  BY WholeIsAll
<1> QED
  BY <1>1, WholeInvariant, PTL

\* A row that was marked as replaced stays marked, under the same condition
\* (Renewalinfo.update, DBstore._certificate_update).
THEOREM ReplacedKept == Spec => []ReplacedStays
<1>1. Whole => ReplacedStays
  BY WholeIsAll
<1> QED
  BY <1>1, WholeInvariant, PTL

=============================================================================
