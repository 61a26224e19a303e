--------------------------- MODULE IssuanceProofs ---------------------------
(***************************************************************************)
(* Theorems about Issuance, for any accounts, deployments, identifiers,    *)
(* CSRs and answers of the outside.  The invariant Inv says what the       *)
(* properties do not: that orders and authorizations keep the identifiers, *)
(* the account and the reasons they had when a certificate row was made.   *)
(* newOrder is the one step that fills in an order; every other step only  *)
(* changes states and adds reasons (RequestKeeps), from which its parts    *)
(* follow one by one.                                                      *)
(***************************************************************************)
EXTENDS Issuance, TLAPS

OrderStates == {"none", "pending", "ready", "processing", "valid", "invalid"}
OrderFields == {"state", "acct", "ids", "profile", "told", "asked", "keys"}
AuthzFields == {"status", "set", "tried", "basis"}
RowsOf(c) == [order : Orders, csr : c.csrs, header : c.headers,
              state : {"accepted", "refused", "done"}]

\* the variables are functions and records as the steps read them
Shape ==
  /\ case \in Cases
  /\ DOMAIN order = Orders /\ DOMAIN authz = Orders
  /\ \A o \in Orders : DOMAIN order[o] = OrderFields /\ order[o].state \in OrderStates
  /\ \A o \in Orders : order[o].told \in BOOLEAN
  /\ \A o \in Orders : \A k \in DOMAIN authz[o] :
        DOMAIN authz[o][k] = AuthzFields
  /\ rows \in Seq(RowsOf(case))

\* nothing but its state changes once an order was told to its client
SameOrder(o) ==
  /\ order'[o].acct = order[o].acct /\ order'[o].ids = order[o].ids
  /\ order'[o].profile = order[o].profile /\ order'[o].told = order[o].told
  /\ order'[o].asked = order[o].asked /\ order'[o].keys = order[o].keys

\* an authorization gathers reasons
SameAuthz(o) ==
  /\ DOMAIN authz'[o] = DOMAIN authz[o]
  /\ \A k \in DOMAIN authz[o] : authz[o][k].basis \subseteq authz'[o][k].basis

-----------------------------------------------------------------------------
LEMMA SetOrderStep ==
  ASSUME Shape, NEW o \in Orders, NEW s \in OrderStates, SetOrder(o, s)
  PROVE  /\ DOMAIN order' = Orders
         /\ \A q \in Orders : /\ DOMAIN order'[q] = OrderFields
                              /\ SameOrder(q)
                              /\ order'[q].state = IF q = o THEN s ELSE order[q].state
  BY DEF Shape, SetOrder, SameOrder, OrderFields

\* every step but newOrder
Request ==
  \/ \E o \in Orders : \E k \in DOMAIN authz[o], records \in case.records :
        \E n \in Writes(2) :
           \/ ViewJustInTime(o, k, records, n)
           \/ \E readable \in KeyFile : View(o, k, records, readable, n)
  \/ \E o \in Orders : \E k \in DOMAIN authz[o] : \E t \in authz[o][k].set,
        a \in case.answers, readable \in KeyFile : Validate(o, k, t, a, readable)
  \/ \E o \in Orders :
        \/ Poll(o)
        \/ RejectFinalize(o)
        \/ \E csr \in case.csrs, header \in case.headers : Finalize(o, csr, header)
  \/ \E r \in DOMAIN rows, readable \in KeyFile,
        s \in {"valid", "invalid", "processing"} : Enroll(r, readable, s)

LEMMA BecomeStep ==
  ASSUME Shape, NEW o \in Orders, NEW k \in DOMAIN authz[o], NEW s, NEW why,
         Become(o, k, s, why)
  PROVE  /\ DOMAIN authz' = Orders
         /\ \A q \in Orders : /\ SameAuthz(q)
                              /\ \A j \in DOMAIN authz[q] : DOMAIN authz'[q][j] = AuthzFields
         /\ \A q \in Orders : q # o => authz'[q] = authz[q]
         /\ \A j \in DOMAIN authz[o] : j # k => authz'[o][j] = authz[o][j]
         /\ authz'[o][k].status = s /\ authz'[o][k].set = authz[o][k].set
         /\ authz'[o][k].basis = authz[o][k].basis \cup why
  BY DEF Shape, Become, SameAuthz, AuthzFields

LEMMA ViewStep ==
  ASSUME Shape, NEW o \in Orders, NEW k \in DOMAIN authz[o], NEW records, NEW readable,
         NEW n, View(o, k, records, readable, n)
  PROVE  /\ DOMAIN authz' = Orders
         /\ \A q \in Orders : /\ SameAuthz(q)
                              /\ \A j \in DOMAIN authz[q] : DOMAIN authz'[q][j] = AuthzFields
         /\ \A q \in Orders : q # o => authz'[q] = authz[q]
         /\ \A j \in DOMAIN authz[o] : j # k => authz'[o][j] = authz[o][j]
         /\ \/ authz'[o][k].status = authz[o][k].status /\ authz'[o][k].basis = authz[o][k].basis 
            \/ authz'[o][k].status = "valid" /\ authz'[o][k].basis = authz[o][k].basis \cup {"list"}
         /\ authz'[o][k].set \in {authz[o][k].set, SetOf(o, k)}
         /\ order' = order \/ SetOrder(o, "ready")
         /\ Known(o, k) /\ UNCHANGED <<case, rows, sent>>
  BY DEF Shape, View, SameAuthz, AuthzFields

LEMMA ValidateStep ==
  ASSUME Shape, NEW o \in Orders, NEW k \in DOMAIN authz[o], NEW t, NEW a,
         NEW readable, Validate(o, k, t, a, readable)
  PROVE  /\ DOMAIN authz' = Orders
         /\ \A q \in Orders : /\ SameAuthz(q)
                              /\ \A j \in DOMAIN authz[q] : DOMAIN authz'[q][j] = AuthzFields
         /\ \A q \in Orders : q # o => authz'[q] = authz[q]
         /\ \A j \in DOMAIN authz[o] : j # k => authz'[o][j] = authz[o][j]
         /\ authz'[o][k].set = authz[o][k].set
         /\ \/ authz'[o][k].status = "invalid" /\ authz'[o][k].basis = authz[o][k].basis
            \/ LET i == order[o].ids[k]
                   checks == Checks(file, ProfileOf(order[o].acct, readable))
               IN /\ authz'[o][k].status = "valid"
                  /\ Outcome(t, i, a, order[o].acct, checks) = "valid"
                  /\ authz'[o][k].basis = authz[o][k].basis \cup Basis(t, i, a, order[o].acct, checks)
         /\ t \in authz[o][k].set /\ Postable(t) /\ Known(o, k)
         /\ UNCHANGED <<case, order, rows, sent>>
  BY DEF Shape, Validate, SameAuthz, AuthzFields

\* a step that made an authorization valid had a reason
LEMMA OutcomeHasBasis ==
  ASSUME Shape, NEW t, NEW i, NEW a, NEW acct, NEW readable, NEW j,
         t \in ChallengeSet(j, file), Postable(t),
         Outcome(t, i, a, acct, Checks(file, ProfileOf(acct, readable))) = "valid"
  PROVE  Basis(t, i, a, acct, Checks(file, ProfileOf(acct, readable))) # {}
<1> DEFINE checks == Checks(file, ProfileOf(acct, readable))
<1>1. CASE checks.unchecked
  BY <1>1 DEF Basis
<1>2. CASE ~checks.unchecked
  <2>1. Result(t, i, a, acct, checks) = "valid"
    BY <1>2 DEF Outcome
  <2>2. t \in {"http-01", "dns-01", "tls-alpn-01", "dns-persist-01", "email-reply-00", "tkauth-01"}
    BY DEF ChallengeSet, StandardSet, PersistSet, Postable
  <2>3. CASE t \in {"http-01", "dns-01", "tls-alpn-01", "email-reply-00"}
    BY <2>1, <2>3, <1>2
    DEF Result, HttpResult, DnsResult, TlsAlpnResult, MailResult, Compared, Basis, Shows
  <2>4. CASE t = "dns-persist-01"
    BY <2>1, <2>4, <1>2 DEF Result, PersistResult, RecordMatches, Basis, ShowsRecord
  <2>5. CASE t = "tkauth-01"
    <3>1. checks.ack = file.ack
      BY IssuanceAssumption DEF Shape, Checks, file
    <3> QED
      BY <2>1, <2>5, <1>2, <3>1 DEF Result, TkauthResult, Basis
  <2> QED
    BY <2>2, <2>3, <2>4, <2>5
<1> QED
  BY <1>1, <1>2

-----------------------------------------------------------------------------
(* The invariant                                                            *)

\* what holds of an order that was told to its client, and of one that was not
OrderFits(o) ==
  /\ order[o].told =>
       /\ order[o].ids \in case.lists /\ DOMAIN authz[o] = DOMAIN order[o].ids
       /\ IdentifiersAccepted(order[o].ids, file,
                              SettingsFor(file, ProfileOf(order[o].acct, order[o].keys)))
       /\ order[o].asked = file.dryrun => order[o].profile = order[o].asked
  /\ ~order[o].told => order[o].state \in {"none", "pending", "invalid"}

HostTypes == {"http-01", "tls-alpn-01"}

\* an authorization is valid for a reason, found by one of its own challenges
AuthzFits(o, k) ==
  /\ authz[o][k].status \in {"pending", "valid", "invalid"}
  /\ authz[o][k].status = "valid" => authz[o][k].basis # {}
  /\ authz[o][k].set = {} \/ authz[o][k].set = ChallengeSet(order[o].ids[k], file)
  /\ Wildcard(order[o].ids[k].value) => authz[o][k].basis \cap HostTypes = {}
  /\ "base" \in authz[o][k].basis =>
        file.persist /\ file.jit /\ Wildcard(order[o].ids[k].value)

\* a row that may be submitted fits its order, whose authorizations were valid
RowFits(r) ==
  LET o == rows[r].order
  IN /\ order[o].told
     /\ \A k \in DOMAIN authz[o] : authz[o][k].basis # {}
     /\ rows[r].state # "refused" =>
           CsrFits(order[o].ids, rows[r].csr, file) /\ ~DryRun(o)

SentFits(s) ==
  /\ s.row \in DOMAIN rows /\ rows[s.row].state # "refused"
  /\ ~Reused(s.row) => s.profile = OwnGrant(s.row, s.keys)

Inv ==
  /\ Shape
  /\ \A o \in Orders : OrderFits(o)
  /\ \A o \in Orders : \A k \in DOMAIN authz[o] : AuthzFits(o, k)
  /\ \A r \in DOMAIN rows : RowFits(r)
  /\ \A s \in sent : SentFits(s)

LEMMA InitInv == Init => Inv
<1> SUFFICES ASSUME Init PROVE Inv
  OBVIOUS
<1>1. Shape
  <2>1. \A o \in Orders : DOMAIN order[o] = OrderFields
    BY DEF Init, Blank, OrderFields
  <2>2. \A o \in Orders : order[o].state \in OrderStates /\ order[o].told \in BOOLEAN
    BY DEF Init, Blank, OrderStates
  <2>3. \A o \in Orders : \A k \in DOMAIN authz[o] : DOMAIN authz[o][k] = AuthzFields
    BY DEF Init
  <2>4. rows \in Seq(RowsOf(case))
    BY DEF Init
  <2> QED
    BY <2>1, <2>2, <2>3, <2>4 DEF Init, Shape
<1>2. \A o \in Orders : OrderFits(o)
  BY DEF Init, Blank, OrderFits
<1>3. /\ \A o \in Orders : \A k \in DOMAIN authz[o] : AuthzFits(o, k)
      /\ \A r \in DOMAIN rows : RowFits(r)
      /\ \A s \in sent : SentFits(s)
  BY DEF Init
<1> QED
  BY <1>1, <1>2, <1>3 DEF Inv

\* what a request keeps of the orders, of the authorizations and of the rows
OrdersKept ==
  /\ DOMAIN order' = Orders /\ UNCHANGED case
  /\ \A o \in Orders : /\ DOMAIN order'[o] = OrderFields /\ SameOrder(o)
                       /\ order'[o].state \in OrderStates
                       /\ \/ order'[o].state = order[o].state
                          \/ order[o].told
                          \/ \E r \in DOMAIN rows : rows[r].order = o

AuthzKept ==
  /\ DOMAIN authz' = Orders
  /\ \A o \in Orders : SameAuthz(o)
  /\ \A o \in Orders : \A k \in DOMAIN authz'[o] : DOMAIN authz'[o][k] = AuthzFields

RowsKept ==
  /\ rows' \in Seq(RowsOf(case)) /\ DOMAIN rows \subseteq DOMAIN rows'
  /\ \A r \in DOMAIN rows : /\ rows'[r].order = rows[r].order
                            /\ rows'[r].csr = rows[r].csr
                            /\ rows'[r].header = rows[r].header

LEMMA SameOrders ==
  ASSUME Shape, UNCHANGED <<case, order>>
  PROVE  OrdersKept
  BY DEF Shape, OrdersKept, SameOrder

LEMMA SetOrders ==
  ASSUME Shape, UNCHANGED case, NEW o \in Orders, NEW s \in OrderStates, SetOrder(o, s),
         order[o].told \/ \E r \in DOMAIN rows : rows[r].order = o
  PROVE  OrdersKept
  BY SetOrderStep DEF Shape, OrdersKept, SameOrder

LEMMA SameAuthzs ==
  ASSUME Shape, UNCHANGED authz
  PROVE  AuthzKept
  BY DEF Shape, AuthzKept, SameAuthz

LEMMA SameRows ==
  ASSUME Shape, UNCHANGED rows
  PROVE  RowsKept
  BY DEF Shape, RowsKept

LEMMA RequestKeeps ==
  ASSUME Shape, Request
  PROVE  OrdersKept /\ AuthzKept /\ RowsKept
<1>1. ASSUME NEW o \in Orders, NEW k \in DOMAIN authz[o], NEW records, NEW n,
             ViewJustInTime(o, k, records, n)
      PROVE  OrdersKept /\ AuthzKept /\ RowsKept
  <2>1. OrdersKept
    BY <1>1, SameOrders, SetOrders DEF ViewJustInTime, MakeValid, Known, OrderStates
  <2>2. AuthzKept
    BY <1>1, SameAuthzs, BecomeStep DEF ViewJustInTime, MakeValid, AuthzKept, SameAuthz
  <2> QED
    BY <1>1, <2>1, <2>2, SameRows DEF ViewJustInTime
<1>2. ASSUME NEW o \in Orders, NEW k \in DOMAIN authz[o], NEW records, NEW readable, NEW n,
             View(o, k, records, readable, n)
      PROVE  OrdersKept /\ AuthzKept /\ RowsKept
  <2>1. OrdersKept
    BY <1>2, ViewStep, SameOrders, SetOrders DEF Known, OrderStates
  <2>2. AuthzKept
    BY <1>2, ViewStep DEF AuthzKept, SameAuthz
  <2> QED
    BY <1>2, <2>1, <2>2, ViewStep, SameRows
<1>3. ASSUME NEW o \in Orders, NEW k \in DOMAIN authz[o], NEW t, NEW a, NEW readable,
             Validate(o, k, t, a, readable)
      PROVE  OrdersKept /\ AuthzKept /\ RowsKept
  <2>1. AuthzKept
    BY <1>3, ValidateStep DEF AuthzKept, SameAuthz
  <2> QED
    BY <1>3, <2>1, ValidateStep, SameOrders, SameRows
<1>4. ASSUME NEW o \in Orders, Poll(o) \/ RejectFinalize(o)
      PROVE  OrdersKept /\ AuthzKept /\ RowsKept
  BY <1>4, SetOrders, SameAuthzs, SameRows DEF Poll, RejectFinalize, OrderStates
<1>5. ASSUME NEW o \in Orders, NEW csr \in case.csrs, NEW header \in case.headers,
             Finalize(o, csr, header)
      PROVE  OrdersKept /\ AuthzKept /\ RowsKept
  <2>1. OrdersKept /\ AuthzKept
    BY <1>5, SetOrders, SameAuthzs DEF Finalize, OrderStates
  <2>2. \E x \in RowsOf(case) : rows' = Append(rows, x)
    BY <1>5 DEF Finalize, RowsOf
  <2>3. RowsKept
    BY <2>2 DEF Shape, RowsKept
  <2> QED
    BY <2>1, <2>3
<1>6. ASSUME NEW r \in DOMAIN rows, NEW readable, NEW s \in {"valid", "invalid", "processing"},
             Enroll(r, readable, s)
      PROVE  OrdersKept /\ AuthzKept /\ RowsKept
  <2>1. rows[r] \in RowsOf(case)
    BY DEF Shape
  <2>2. OrdersKept /\ AuthzKept
    BY <1>6, <2>1, SetOrders, SameAuthzs DEF Enroll, OrderStates, RowsOf
  <2>3. /\ [rows[r] EXCEPT !.state = "done"] \in RowsOf(case)
        /\ rows' = [rows EXCEPT ![r] = [rows[r] EXCEPT !.state = "done"]]
    BY <1>6, <2>1 DEF Enroll, RowsOf
  <2>4. RowsKept
    BY <2>1, <2>3 DEF Shape, RowsKept, RowsOf
  <2> QED
    BY <2>2, <2>4
<1> QED
  BY <1>1, <1>2, <1>3, <1>4, <1>5, <1>6 DEF Request

-----------------------------------------------------------------------------
(* A request keeps the invariant                                            *)

LEMMA KeptShape ==
  ASSUME Shape, OrdersKept, AuthzKept, RowsKept
  PROVE  Shape'
<1>1. \A o \in Orders : order'[o].told \in BOOLEAN
  BY DEF Shape, OrdersKept, SameOrder
<1> QED
  BY <1>1 DEF Shape, OrdersKept, AuthzKept, RowsKept

LEMMA KeptOrders ==
  ASSUME Inv, OrdersKept, AuthzKept, NEW o \in Orders
  PROVE  OrderFits(o)'
<1>1. /\ SameOrder(o) /\ DOMAIN authz'[o] = DOMAIN authz[o] /\ case' = case
      /\ OrderFits(o)
  BY DEF Inv, OrdersKept, AuthzKept, SameAuthz
<1>2. \A a, readable : ProfileOf(a, readable)' = ProfileOf(a, readable)
  BY <1>1 DEF ProfileOf, file
<1>3. order[o].told => OrderFits(o)'
  BY <1>1, <1>2 DEF OrderFits, SameOrder, file
<1>4. ~order[o].told => order'[o].state = order[o].state
  BY DEF Inv, OrdersKept, RowFits
<1> QED
  BY <1>1, <1>3, <1>4 DEF OrderFits, SameOrder

LEMMA RowShape ==
  ASSUME Shape, NEW r \in DOMAIN rows
  PROVE  /\ rows[r] \in RowsOf(case)
         /\ rows[r].order \in Orders
<1>1. rows[r] \in RowsOf(case)
  BY DEF Shape
<1> QED
  BY <1>1 DEF RowsOf

LEMMA KeptRows ==
  ASSUME Inv, OrdersKept, AuthzKept, RowsKept, NEW r \in DOMAIN rows,
         rows'[r].state # "refused" => rows[r].state # "refused"
  PROVE  RowFits(r)'
<1> DEFINE o == rows[r].order
<1>1. o \in Orders /\ rows'[r].order = o /\ rows'[r].csr = rows[r].csr
  BY RowShape DEF Inv, RowsKept
<1>2. SameOrder(o) /\ SameAuthz(o) /\ case' = case
  BY <1>1 DEF OrdersKept, AuthzKept
<1>3. RowFits(r)
  BY DEF Inv
<1>4. order'[o].told /\ \A k \in DOMAIN authz'[o] : authz'[o][k].basis # {}
  BY <1>2, <1>3 DEF RowFits, SameOrder, SameAuthz
<1>5. DryRun(o)' = DryRun(o)
  BY <1>1, <1>2 DEF DryRun, SameOrder, file
<1> QED
  BY <1>1, <1>2, <1>3, <1>4, <1>5 DEF RowFits, SameOrder, file

LEMMA KeptSent ==
  ASSUME Inv, OrdersKept, RowsKept, NEW s \in sent,
         rows'[s.row].state = "refused" => rows[s.row].state = "refused"
  PROVE  SentFits(s)'
<1>1. s.row \in DOMAIN rows /\ SentFits(s)
  BY DEF Inv, SentFits
<1> DEFINE r == s.row
           o == rows[r].order
<1>2. o \in Orders /\ rows'[r].order = o /\ rows'[r].csr = rows[r].csr
      /\ rows'[r].header = rows[r].header
  BY <1>1, RowShape DEF Inv, RowsKept
<1>3. Reused(r) => Reused(r)'
  BY <1>1 DEF Reused, RowsKept
<1>4. SameOrder(o) /\ case' = case
  BY <1>2 DEF OrdersKept
<1>5. OwnGrant(r, s.keys)' = OwnGrant(r, s.keys)
  BY <1>2, <1>4 DEF OwnGrant, SameOrder, ProfileOf, file
<1> QED
  BY <1>1, <1>3, <1>5 DEF SentFits, RowsKept

\* steps that leave the reasons and the challenges of the authorizations alone
LEMMA QuietAuthz ==
  ASSUME Inv, OrdersKept, UNCHANGED authz, NEW o \in Orders, NEW k \in DOMAIN authz[o]
  PROVE  AuthzFits(o, k)'
<1>1. AuthzFits(o, k) /\ SameOrder(o) /\ case' = case
  BY DEF Inv, OrdersKept
<1> QED
  BY <1>1 DEF AuthzFits, SameOrder, file

\* What the check at the first view finds for a plain name is a record for it.
LEMMA RecordOfBase ==
  ASSUME Inv, NEW o \in Orders, NEW k \in DOMAIN authz[o], NEW records, NEW n,
         ViewJustInTime(o, k, records, n)
  PROVE  "base" \in RecordBasis(order[o].ids[k], order[o].acct, records) =>
            /\ file.persist /\ file.jit
            /\ Wildcard(order[o].ids[k].value)
<1> DEFINE i == order[o].ids[k]
<1>1. /\ JustInTime(i, order[o].acct, records, file)
      /\ order[o].told /\ k \in DOMAIN order[o].ids
  BY DEF ViewJustInTime, Known
<1>2. i \in Identifier
  BY <1>1, IssuanceAssumption DEF Inv, Shape, OrderFits
<1>3. file.persist /\ file.jit /\ PersistResult(Shown(i), order[o].acct, records, file) = "valid"
  BY <1>1 DEF JustInTime
<1>4. CASE Wildcard(i.value)
  BY <1>3, <1>4
<1>5. CASE ~Wildcard(i.value)
  <2>1. Shown(i) = i
    BY <1>2, <1>5 DEF Shown, Base, Identifier
  <2>2. PersistResult(i, order[o].acct, records, file) = "valid"
    BY <1>3, <2>1
  <2>3. RecordBasis(i, order[o].acct, records) = {"record"}
    BY <2>2 DEF RecordBasis
  <2> QED
    BY <2>3
<1> QED
  BY <1>4, <1>5

LEMMA RequestAuthz ==
  ASSUME Inv, Request, OrdersKept, NEW q \in Orders, NEW j \in DOMAIN authz'[q]
  PROVE  AuthzFits(q, j)'
<1>1. CASE UNCHANGED authz
  BY <1>1, QuietAuthz
<1>2. case' = case /\ order'[q].ids = order[q].ids
  BY DEF OrdersKept, SameOrder
<1>3. ASSUME authz'[q][j] = authz[q][j], j \in DOMAIN authz[q]
      PROVE  AuthzFits(q, j)'
  BY <1>2, <1>3 DEF Inv, AuthzFits, file
<1>4. ASSUME NEW o \in Orders, NEW k \in DOMAIN authz[o], NEW records, NEW n,
             ViewJustInTime(o, k, records, n)
      PROVE  AuthzFits(q, j)'
  <2> DEFINE why == RecordBasis(order[o].ids[k], order[o].acct, records)
  <2>1. CASE Become(o, k, "valid", why)
    <3>1. \/ authz'[q][j] = authz[q][j] /\ j \in DOMAIN authz[q]
          \/ q = o /\ j = k
      BY <2>1, BecomeStep DEF Inv, SameAuthz
    <3>2. /\ authz'[o][k].status = "valid" /\ authz'[o][k].set = authz[o][k].set
          /\ authz'[o][k].basis = authz[o][k].basis \cup why
      BY <2>1, BecomeStep DEF Inv
    <3>3. AuthzFits(o, k)
      BY DEF Inv
    <3>4. why \in {{"record"}, {"base"}}
      BY DEF RecordBasis
    <3>5. "base" \in why => /\ file.persist /\ file.jit
                            /\ Wildcard(order[o].ids[k].value)
      BY <1>4, RecordOfBase
    <3>6. /\ why # {} /\ why \cap HostTypes = {}
      BY <3>4 DEF HostTypes
    <3> HIDE DEF why
    <3> QED
      BY <1>2, <1>3, <3>1, <3>2, <3>3, <3>5, <3>6 DEF AuthzFits, file
  <2> QED
    BY <1>1, <1>4, <2>1 DEF ViewJustInTime, MakeValid
<1>5. ASSUME NEW o \in Orders, NEW k \in DOMAIN authz[o], NEW records, NEW readable, NEW n,
             View(o, k, records, readable, n)
      PROVE  AuthzFits(q, j)'
  <2>1. \/ authz'[q][j] = authz[q][j] /\ j \in DOMAIN authz[q]
        \/ q = o /\ j = k
    BY <1>5, ViewStep DEF Inv, SameAuthz
  <2>2. /\ \/ /\ authz'[o][k].status = authz[o][k].status
              /\ authz'[o][k].basis = authz[o][k].basis
           \/ /\ authz'[o][k].status = "valid"
              /\ authz'[o][k].basis = authz[o][k].basis \cup {"list"}
        /\ authz'[o][k].set \in {authz[o][k].set, SetOf(o, k)}
    BY <1>5, ViewStep DEF Inv
  <2>3. AuthzFits(o, k)
    BY DEF Inv
  <2> QED
    BY <1>2, <1>3, <2>1, <2>2, <2>3 DEF AuthzFits, HostTypes, SetOf, file
<1>6. ASSUME NEW o \in Orders, NEW k \in DOMAIN authz[o], NEW t, NEW a, NEW readable,
             Validate(o, k, t, a, readable)
      PROVE  AuthzFits(q, j)'
  <2> DEFINE i      == order[o].ids[k]
             acct   == order[o].acct
             checks == Checks(file, ProfileOf(acct, readable))
  <2>1. \/ authz'[q][j] = authz[q][j] /\ j \in DOMAIN authz[q]
        \/ q = o /\ j = k
    BY <1>6, ValidateStep DEF Inv, SameAuthz
  <2>2. AuthzFits(o, k) /\ t \in ChallengeSet(i, file) /\ Postable(t)
    BY <1>6, ValidateStep DEF Inv, AuthzFits
  <2>3. /\ authz'[o][k].set = authz[o][k].set
        /\ \/ /\ authz'[o][k].status = "invalid"
              /\ authz'[o][k].basis = authz[o][k].basis
           \/ /\ authz'[o][k].status = "valid"
              /\ Outcome(t, i, a, acct, checks) = "valid"
              /\ authz'[o][k].basis = authz[o][k].basis \cup Basis(t, i, a, acct, checks)
    BY <1>6, ValidateStep DEF Inv
  <2>4. Outcome(t, i, a, acct, checks) = "valid" => Basis(t, i, a, acct, checks) # {}
    BY <2>2, OutcomeHasBasis DEF Inv
  <2>5. Wildcard(i.value) => Basis(t, i, a, acct, checks) \cap HostTypes = {}
    <3> SUFFICES ASSUME Wildcard(i.value) PROVE t \notin HostTypes
      BY DEF Basis, HostTypes
    <3>1. StandardSet(i) = {"dns-01"}
      BY DEF StandardSet
    <3> QED
      BY <2>2, <3>1 DEF HostTypes, ChallengeSet, PersistSet
  <2>6. "base" \notin Basis(t, i, a, acct, checks)
    <3>1. t # "base"
      BY <2>2 DEF ChallengeSet, StandardSet, PersistSet
    <3> QED
      BY <3>1 DEF Basis
  <2>7. AuthzFits(o, k)'
    BY <1>2, <2>1, <2>2, <2>3, <2>4, <2>5, <2>6 DEF AuthzFits, OrdersKept, SameOrder, file
  <2> QED
    BY <1>3, <2>1, <2>7
<1> QED
  BY <1>1, <1>4, <1>5, <1>6 DEF Request, Poll, RejectFinalize, Finalize, Enroll

LEMMA RequestRows ==
  ASSUME Inv, Request, OrdersKept, AuthzKept, RowsKept, NEW r \in DOMAIN rows'
  PROVE  RowFits(r)'
<1>1. CASE UNCHANGED rows
  BY <1>1, KeptRows
<1>2. ASSUME NEW o \in Orders, NEW csr \in case.csrs, NEW header \in case.headers,
             Finalize(o, csr, header)
      PROVE  RowFits(r)'
  <2> DEFINE state == IF CsrFits(order[o].ids, csr, file) /\ ~DryRun(o)
                      THEN "accepted" ELSE "refused"
             new   == [order |-> o, csr |-> csr, header |-> header, state |-> state]
  <2>1. rows' = Append(rows, new) /\ rows \in Seq(RowsOf(case)) /\ new \in RowsOf(case)
    BY <1>2 DEF Finalize, Inv, Shape, RowsOf
  <2>2. CASE r \in DOMAIN rows
    BY <2>1, <2>2, KeptRows
  <2>3. CASE r \notin DOMAIN rows
    <3>1. rows'[r] = new
      BY <2>1, <2>3
    <3>2. order[o].told /\ \A k \in DOMAIN authz[o] : authz[o][k].basis # {}
      BY <1>2 DEF Finalize, AllValid, Inv, AuthzFits
    <3>3. SameOrder(o) /\ SameAuthz(o) /\ case' = case
      BY DEF OrdersKept, AuthzKept
    <3>4. DryRun(o)' = DryRun(o)
      BY <3>3 DEF DryRun, SameOrder, file
    <3>5. /\ rows'[r].order = o /\ rows'[r].csr = csr
          /\ rows'[r].state # "refused" => CsrFits(order[o].ids, csr, file) /\ ~DryRun(o)
      BY <3>1
    <3>6. order'[o].told /\ \A k \in DOMAIN authz'[o] : authz'[o][k].basis # {}
      BY <3>2, <3>3 DEF SameOrder, SameAuthz
    <3>7. order'[o].ids = order[o].ids /\ file' = file
      BY <3>3 DEF SameOrder, file
    <3> QED
      BY <3>4, <3>5, <3>6, <3>7 DEF RowFits
  <2> QED
    BY <2>2, <2>3
<1>3. ASSUME NEW e \in DOMAIN rows, NEW readable, NEW s, Enroll(e, readable, s)
      PROVE  RowFits(r)'
  <2>1. /\ rows[e].state = "accepted"
        /\ rows' = [rows EXCEPT ![e] = [rows[e] EXCEPT !.state = "done"]]
    BY <1>3 DEF Enroll
  <2>2. rows \in Seq(RowsOf(case))
    BY DEF Inv, Shape
  <2>3. r \in DOMAIN rows /\ (rows'[r].state # "refused" => rows[r].state # "refused")
    BY <2>1, <2>2
  <2> QED
    BY <2>3, KeptRows
<1>4. ASSUME NEW o \in Orders, NEW k \in DOMAIN authz[o], NEW records, NEW n,
             \/ ViewJustInTime(o, k, records, n)
             \/ \E readable \in KeyFile : View(o, k, records, readable, n)
      PROVE  UNCHANGED rows
  BY <1>4 DEF ViewJustInTime, View
<1>5. ASSUME NEW o \in Orders, NEW k \in DOMAIN authz[o], NEW t, NEW a, NEW readable,
             Validate(o, k, t, a, readable)
      PROVE  UNCHANGED rows
  BY <1>5 DEF Validate
<1>6. ASSUME NEW o \in Orders, Poll(o) \/ RejectFinalize(o)
      PROVE  UNCHANGED rows
  BY <1>6 DEF Poll, RejectFinalize
<1> QED
  BY <1>1, <1>2, <1>3, <1>4, <1>5, <1>6 DEF Request

\* a CSR that was sent once is looked up in its own row
LEMMA LooksUpItself ==
  ASSUME Shape, NEW r \in DOMAIN rows, NEW readable, ~Reused(r)
  PROVE  Submission(r, readable) = OwnGrant(r, readable)
<1> DEFINE csr == rows[r].csr
<1>1. SameCsr(csr) = {r}
  BY DEF SameCsr, Reused
<1>2. r \in Nat
  BY DEF Shape
<1>3. FirstRow(csr) = r /\ LastRow(csr) = r
  BY <1>1, <1>2 DEF FirstRow, LastRow
<1> QED
  BY <1>3 DEF Submission, OwnGrant, FoundProfile, FoundHeader, FoundEab

LEMMA RequestSent ==
  ASSUME Inv, Request, OrdersKept, RowsKept, NEW x \in sent'
  PROVE  SentFits(x)'
<1>1. CASE UNCHANGED <<rows, sent>>
  BY <1>1, KeptSent
<1>2. ASSUME NEW o \in Orders, NEW csr, NEW header, Finalize(o, csr, header)
      PROVE  SentFits(x)'
  <2>1. x \in sent /\ x.row \in DOMAIN rows
    BY <1>2 DEF Finalize, Inv, SentFits
  <2>2. \E row : rows' = Append(rows, row)
    BY <1>2 DEF Finalize
  <2>3. rows'[x.row] = rows[x.row]
    BY <2>1, <2>2 DEF Inv, Shape
  <2> QED
    BY <2>1, <2>3, KeptSent
<1>3. ASSUME NEW e \in DOMAIN rows, NEW readable, NEW s, Enroll(e, readable, s)
      PROVE  SentFits(x)'
  <2>1. /\ rows[e].state = "accepted"
        /\ rows' = [rows EXCEPT ![e] = [rows[e] EXCEPT !.state = "done"]]
    BY <1>3 DEF Enroll
  <2>2. rows \in Seq(RowsOf(case)) /\ rows[e] \in RowsOf(case)
    BY DEF Inv, Shape
  <2>3. \A q \in DOMAIN rows : rows'[q].state = "refused" => rows[q].state = "refused"
    BY <2>1, <2>2 DEF RowsOf
  <2>4. rows'[e].state = "done"
    BY <2>1, <2>2 DEF RowsOf
  <2>5. CASE x \in sent
    BY <2>3, <2>5, KeptSent DEF Inv, SentFits
  <2>6. CASE x = [row |-> e, profile |-> Submission(e, readable), keys |-> readable]
    <3>1. DOMAIN rows' = DOMAIN rows
      BY <2>1, <2>2
    <3>2. Reused(e) => Reused(e)'
      BY <3>1 DEF Reused, RowsKept
    <3>3. rows[e].order \in Orders
      BY RowShape DEF Inv
    <3>4. OwnGrant(e, readable)' = OwnGrant(e, readable)
      BY <3>3 DEF OwnGrant, OrdersKept, RowsKept, SameOrder, ProfileOf, file
    <3>5. ~Reused(e) => Submission(e, readable) = OwnGrant(e, readable)
      BY LooksUpItself DEF Inv
    <3>6. x.row = e /\ x.keys = readable /\ x.profile = Submission(e, readable)
      BY <2>6
    <3> QED
      BY <3>1, <3>2, <3>4, <3>5, <3>6, <2>4 DEF SentFits
  <2> QED
    BY <1>3, <2>5, <2>6 DEF Enroll
<1>4. ASSUME NEW o \in Orders, NEW k \in DOMAIN authz[o], NEW records, NEW n,
             \/ ViewJustInTime(o, k, records, n)
             \/ \E readable \in KeyFile : View(o, k, records, readable, n)
      PROVE  UNCHANGED <<rows, sent>>
  BY <1>4 DEF ViewJustInTime, View
<1>5. ASSUME NEW o \in Orders, NEW k \in DOMAIN authz[o], NEW t, NEW a, NEW readable,
             Validate(o, k, t, a, readable)
      PROVE  UNCHANGED <<rows, sent>>
  BY <1>5 DEF Validate
<1>6. ASSUME NEW o \in Orders, Poll(o) \/ RejectFinalize(o)
      PROVE  UNCHANGED <<rows, sent>>
  BY <1>6 DEF Poll, RejectFinalize
<1> QED
  BY <1>1, <1>2, <1>3, <1>4, <1>5, <1>6 DEF Request

LEMMA RequestInv == Inv /\ Request => Inv'
<1> SUFFICES ASSUME Inv, Request PROVE Inv'
  OBVIOUS
<1>1. OrdersKept /\ AuthzKept /\ RowsKept
  BY RequestKeeps DEF Inv
<1>2. Shape'
  BY <1>1, KeptShape DEF Inv
<1>3. \A o \in Orders : OrderFits(o)'
  BY <1>1, KeptOrders
<1>4. \A o \in Orders : \A k \in DOMAIN authz'[o] : AuthzFits(o, k)'
  BY <1>1, RequestAuthz
<1>5. \A r \in DOMAIN rows' : RowFits(r)'
  BY <1>1, RequestRows
<1>6. \A s \in sent' : SentFits(s)'
  BY <1>1, RequestSent
<1> QED
  BY <1>2, <1>3, <1>4, <1>5, <1>6 DEF Inv

-----------------------------------------------------------------------------
(* newOrder keeps the invariant                                             *)

LEMMA NewOrderInv ==
  ASSUME Inv, NEW o \in Orders, NEW a, NEW ids \in case.lists, NEW asked, NEW readable,
         NEW n, NewOrder(o, a, ids, asked, readable, n)
  PROVE  Inv'
<1> DEFINE set   == SettingsFor(file, ProfileOf(a, readable))
           bad   == ~IdentifiersAccepted(ids, file, set)
           wrong == asked # None /\ ~ProfileAccepted(asked, file, set)
           kept  == IF bad \/ wrong THEN None ELSE ProfileKept(asked, file, set)
           added == IF bad \/ wrong THEN <<>> ELSE Stored(ids, n)
           new   == [state |-> IF bad THEN "invalid" ELSE "pending", acct |-> a, ids |-> ids,
                     profile |-> kept, asked |-> asked, keys |-> readable,
                     told |-> ~bad /\ ~wrong /\ n = FullCount(ids)
                              /\ DOMAIN added = DOMAIN ids]
<1>1. /\ order[o] = Blank /\ UNCHANGED <<case, rows, sent>>
      /\ order' = [order EXCEPT ![o] = new] /\ authz' = [authz EXCEPT ![o] = added]
  BY DEF NewOrder
<1>2. /\ DOMAIN order' = Orders /\ DOMAIN authz' = Orders /\ file' = file
      /\ order'[o] = new /\ authz'[o] = added
      /\ \A q \in Orders : q # o => order'[q] = order[q] /\ authz'[q] = authz[q]
  BY <1>1 DEF Inv, Shape, file
<1>3. \A q, p : ProfileOf(q, p)' = ProfileOf(q, p)
  BY <1>1, <1>2 DEF ProfileOf
<1>4. \A k \in DOMAIN added : \/ added[k] = NewAuthz("pending")
                              \/ added[k] = [NewAuthz("valid") EXCEPT !.basis = {"sim"}]
  BY DEF Stored
<1>5. Shape'
  <2>1. DOMAIN new = OrderFields /\ new.state \in OrderStates /\ new.told \in BOOLEAN
    BY DEF OrderFields, OrderStates
  <2>2. \A k \in DOMAIN added : DOMAIN added[k] = AuthzFields
    BY <1>4 DEF NewAuthz, AuthzFields
  <2> QED
    BY <1>1, <1>2, <2>1, <2>2 DEF Inv, Shape
<1>6. ASSUME NEW q \in Orders PROVE OrderFits(q)'
  <2>1. CASE q # o
    BY <1>1, <1>2, <1>3, <2>1 DEF Inv, OrderFits
  <2>2. asked = file.dryrun /\ ~bad /\ ~wrong => kept = asked
    BY DEF ProfileKept
  <2>3. CASE q = o
    BY <1>1, <1>2, <1>3, <2>2, <2>3 DEF OrderFits
  <2> QED
    BY <2>1, <2>3
<1>7. ASSUME NEW q \in Orders, NEW k \in DOMAIN authz'[q] PROVE AuthzFits(q, k)'
  <2>1. CASE q # o
    BY <1>1, <1>2, <2>1 DEF Inv, AuthzFits
  <2>2. CASE q = o
    <3>1. /\ added[k].status \in {"pending", "valid"} /\ added[k].set = {}
          /\ added[k].status = "valid" => added[k].basis # {}
          /\ added[k].basis \subseteq {"sim"}
      BY <1>2, <1>4, <2>2 DEF NewAuthz
    <3> QED
      BY <1>2, <2>2, <3>1 DEF AuthzFits, HostTypes
  <2> QED
    BY <2>1, <2>2
<1>8. ASSUME NEW r \in DOMAIN rows
      PROVE  rows[r].order \in Orders /\ rows[r].order # o /\ RowFits(r)
  BY <1>1, RowShape DEF Inv, RowFits, Blank
<1>9. ASSUME NEW r \in DOMAIN rows PROVE RowFits(r)'
  <2>1. DryRun(rows[r].order)' = DryRun(rows[r].order)
    BY <1>1, <1>2, <1>8 DEF DryRun
  <2> QED
    BY <1>1, <1>2, <1>8, <2>1 DEF RowFits
<1>10. ASSUME NEW s \in sent PROVE SentFits(s)'
  <2>1. s.row \in DOMAIN rows /\ SentFits(s)
    BY DEF Inv, SentFits
  <2>2. OwnGrant(s.row, s.keys)' = OwnGrant(s.row, s.keys)
    BY <1>1, <1>2, <1>3, <1>8, <2>1 DEF OwnGrant
  <2> QED
    BY <1>1, <2>1, <2>2 DEF SentFits, Reused
<1> QED
  BY <1>1, <1>5, <1>6, <1>7, <1>9, <1>10 DEF Inv

LEMMA NextInv == Inv /\ [Next]_vars => Inv'
<1> SUFFICES ASSUME Inv, [Next]_vars PROVE Inv'
  OBVIOUS
<1>1. CASE UNCHANGED vars
  <2>1. OrdersKept /\ AuthzKept /\ RowsKept
    BY <1>1, SameOrders, SameAuthzs, SameRows DEF Inv, vars
  <2>2. Shape'
    BY <2>1, KeptShape DEF Inv
  <2>3. \A o \in Orders : OrderFits(o)'
    BY <2>1, KeptOrders
  <2>4. \A o \in Orders : \A k \in DOMAIN authz[o] : AuthzFits(o, k)'
    BY <1>1, <2>1, QuietAuthz DEF vars
  <2>5. \A r \in DOMAIN rows : RowFits(r)'
    BY <1>1, <2>1, KeptRows DEF vars
  <2>6. \A s \in sent : SentFits(s)'
    BY <1>1, <2>1, KeptSent DEF vars
  <2> QED
    BY <1>1, <2>2, <2>3, <2>4, <2>5, <2>6 DEF Inv, vars
<1>2. CASE \E o \in Orders, a \in Accounts, ids \in case.lists, asked \in case.asked,
              readable \in KeyFile :
              \E n \in Writes(FullCount(ids)) : NewOrder(o, a, ids, asked, readable, n)
  BY <1>2, NewOrderInv
<1>3. CASE Request
  BY <1>3, RequestInv
<1> QED
  BY <1>1, <1>2, <1>3 DEF Next, Request

LEMMA InvHolds == Spec => []Inv
  BY InitInv, NextInv, PTL DEF Spec

-----------------------------------------------------------------------------
(* Theorems                                                                 *)

\* Whatever write of a request is the last (order.py:236, authorization.py:762,
\* challenge.py:478), orders and authorizations stay consistent: the parts of
\* IssuanceInv follow from the invariant.
THEOREM IssuanceInvariant == Spec => []IssuanceInv
<1>1. Inv => IssuanceInv
  <2> SUFFICES ASSUME Inv PROVE IssuanceInv
    OBVIOUS
  <2>1. TypeOK
    <3>1. \A r \in DOMAIN rows : rows[r].state \in {"accepted", "refused", "done"}
      BY RowShape DEF Inv, RowsOf
    <3> QED
      BY <3>1 DEF Inv, Shape, AuthzFits, OrderStates, TypeOK
  <2>2. ToldIsComplete
    BY DEF Inv, OrderFits, ToldIsComplete
  <2>3. ValidHasReason /\ WildcardByDns
    BY DEF Inv, AuthzFits, HostTypes, ValidHasReason, WildcardByDns
  <2> QED
    BY <2>1, <2>2, <2>3 DEF IssuanceInv
<1> QED
  BY <1>1, InvHolds, PTL

LEMMA AcceptedHasValue ==
  ASSUME Shape, NEW ids \in case.lists, NEW set, IdentifiersAccepted(ids, file, set),
         NEW k \in DOMAIN ids
  PROVE  ids[k].value # NoName
<1>1. ids[k] \in Identifier
  BY IssuanceAssumption DEF Shape
<1>2. Rewritten(ids[k], file).value = ids[k].value
  BY <1>1 DEF Rewritten, Identifier
<1>3. WellFormed(Rewritten(ids[k], file))
  BY DEF IdentifiersAccepted, IdentifierAllowed
<1> QED
  BY <1>2, <1>3 DEF WellFormed

\* A CSR is compared with the identifiers before its row may be submitted
\* (csr.py:118, certificate.py:746), and its order was told and all its
\* authorizations were valid then; identifiers never change afterwards.
THEOREM NamesAlwaysAuthorized == Spec => []NamesAuthorized
<1>1. Inv => NamesAuthorized
  <2> SUFFICES ASSUME Inv, NEW s \in sent
               PROVE  LET r   == rows[s.row]
                          ids == order[r.order].ids
                          Proven(n) == \E k \in DOMAIN ids :
                                          /\ BoundName(ids[k], file) = BoundName(n, file)
                                          /\ Justified(r.order, k)
                      IN IF TnOrder(ids, file)
                         THEN \A k \in DOMAIN ids : Justified(r.order, k)
                         ELSE /\ \A n \in SansRead(r.csr) : n.value # NoName => Proven(n)
                              /\ file.strict =>
                                   /\ \A n \in CsrNames(r.csr) : n.value # NoName => Proven(n)
                                   /\ \A k \in DOMAIN ids : \E n \in CsrNames(r.csr) :
                                         BoundName(ids[k], file) = BoundName(n, file)
    BY DEF NamesAuthorized
  <2> DEFINE r   == rows[s.row]
             ids == order[r.order].ids
             Proven(n) == \E k \in DOMAIN ids : /\ BoundName(ids[k], file) = BoundName(n, file)
                                                /\ Justified(r.order, k)
  <2>1. s.row \in DOMAIN rows /\ r.state # "refused" /\ r.order \in Orders
    BY RowShape DEF Inv, SentFits
  <2>2. /\ order[r.order].told /\ CsrFits(ids, r.csr, file)
        /\ \A k \in DOMAIN authz[r.order] : authz[r.order][k].basis # {}
    BY <2>1 DEF Inv, RowFits
  <2>3. \A k \in DOMAIN ids : Justified(r.order, k) /\ ids[k].value # NoName
    <3>1. DOMAIN authz[r.order] = DOMAIN ids
      BY <2>1, <2>2 DEF Inv, OrderFits
    <3>2. \A k \in DOMAIN ids : Justified(r.order, k)
      BY <2>1, <2>2, <3>1 DEF Inv, AuthzFits, Justified
    <3> QED
      BY <2>1, <2>2, <3>2, AcceptedHasValue DEF Inv, OrderFits
  <2>4. ToSet(ids) = {ids[k] : k \in DOMAIN ids}
    BY DEF ToSet
  <2>5. ASSUME ~TnOrder(ids, file), file.strict
        PROVE  /\ \A n \in CsrNames(r.csr) : n.value # NoName => Proven(n)
               /\ \A k \in DOMAIN ids : \E n \in CsrNames(r.csr) :
                     BoundName(ids[k], file) = BoundName(n, file)
    <3>1. BoundNames(CsrNames(r.csr), file) = BoundNames(ToSet(ids), file)
      BY <2>2, <2>5 DEF CsrFits, FitsStrictly
    <3>2. ASSUME NEW n \in CsrNames(r.csr), n.value # NoName PROVE Proven(n)
      <4>1. BoundName(n, file) \in BoundNames(ToSet(ids), file)
        BY <3>1, <3>2 DEF BoundNames
      <4>2. PICK m \in ToSet(ids) : BoundName(n, file) = BoundName(m, file)
        BY <4>1 DEF BoundNames
      <4> QED
        BY <4>2, <2>3, <2>4
    <3>3. ASSUME NEW k \in DOMAIN ids
          PROVE  \E n \in CsrNames(r.csr) : BoundName(ids[k], file) = BoundName(n, file)
      <4>1. BoundName(ids[k], file) \in BoundNames(CsrNames(r.csr), file)
        BY <2>3, <2>4, <3>1, SMTT(30) DEF BoundNames
      <4> QED
        BY <4>1 DEF BoundNames
    <3> QED
      BY <3>2, <3>3
  <2>6. ASSUME ~TnOrder(ids, file), ~file.strict, NEW n \in SansRead(r.csr)
        PROVE  Proven(n)
    <3>1. PICK k \in DOMAIN ids : n.type = ids[k].type /\ n.value = ids[k].value
      BY <2>2, <2>6 DEF CsrFits, FitsLoosely
    <3>2. BoundName(ids[k], file) = BoundName(n, file)
      BY <3>1 DEF BoundName
    <3> QED
      BY <2>3, <3>1, <3>2, Zenon
  <2>7. SansRead(r.csr) \subseteq CsrNames(r.csr)
    BY DEF CsrNames
  <2> QED
    BY <2>3, <2>5, <2>6, <2>7
<1> QED
  BY <1>1, InvHolds, PTL

\* Lists and profiles are checked when an order is created (order.py:236) and
\* looked up again by the CSR when it is submitted (kid_profile_handler.py:146,
\* config.py:626): the second look-up differs only for a CSR sent twice.
THEOREM PolicyAlwaysKept == Spec => []PolicyKept
<1>1. Inv => PolicyKept
  <2> SUFFICES ASSUME Inv, NEW s \in sent
               PROVE  LET o == order[rows[s.row].order]
                      IN /\ ~Reused(s.row) => s.profile = OwnGrant(s.row, s.keys)
                         /\ IdentifiersAccepted(o.ids, file,
                                SettingsFor(file, ProfileOf(o.acct, o.keys)))
                         /\ o.asked # None => o.asked # file.dryrun
    BY DEF PolicyKept
  <2> DEFINE q == rows[s.row].order
  <2>1. SentFits(s) /\ s.row \in DOMAIN rows /\ q \in Orders
    BY RowShape DEF Inv, SentFits
  <2>2. order[q].told /\ ~DryRun(q)
    BY <2>1 DEF Inv, SentFits, RowFits
  <2>3. OrderFits(q)
    BY <2>1 DEF Inv
  <2> QED
    BY <2>1, <2>2, <2>3 DEF SentFits, OrderFits, DryRun
<1> QED
  BY <1>1, InvHolds, PTL
=============================================================================
