------------------------------ MODULE CaProofs ------------------------------
(***************************************************************************)
(* The two families of CA handlers, each with its inductive invariant.     *)
(*                                                                         *)
(* The CA that is openssl and its files (module LocalCa): LocalCaInv with  *)
(* RevokedIsListed, for any number of calls: no revocation is lost without *)
(* an overlap, and what openssl signs is within its lists and, when the    *)
(* validity is adjusted, within its chain.                                 *)
(*                                                                         *)
(* The handlers that forward to a remote CA (module RemoteCa), for any     *)
(* configured handler and any number of calls: RemoteInv, with what a call *)
(* that has ended leaves behind and what a revocation promises.            *)
(***************************************************************************)
EXTENDS LocalCa, RemoteCa, FiniteSetTheorems, WellFoundedInduction, TLAPS


-----------------------------------------------------------------------------
(* Induction, stated for sets                                              *)

\* A set of naturals with 0 and the successor of each member has them all.
LEMMA NatSetInduction ==
    ASSUME NEW T \in SUBSET Nat, 0 \in T, \A n \in T : n + 1 \in T
    PROVE  T = Nat
<1> SUFFICES ASSUME Nat \ T # {} PROVE FALSE
  OBVIOUS
<1>1. PICK x \in Nat \ T : \A y \in Nat \ T : <<y, x>> \notin OpToRel(<, Nat)
  <2> DEFINE R == OpToRel(<, Nat)
             U == Nat \ T
  <2>1. IsWellFoundedOn(R, Nat)
    BY NatLessThanWellFounded
  <2>2. U \subseteq Nat /\ U # {}
    OBVIOUS
  <2> HIDE DEF R, U
  <2>3. \E x \in U : \A y \in U : ~ (<<y, x>> \in R)
    BY <2>1, <2>2, WFMin
  <2> QED
    BY <2>3 DEF R, U
<1>2. x - 1 \in Nat \ T /\ x - 1 \in Nat /\ x - 1 < x
  OBVIOUS
<1>3. <<x - 1, x>> \in OpToRel(<, Nat)
  BY <1>2 DEF OpToRel
<1> QED
  BY <1>1, <1>2, <1>3

-----------------------------------------------------------------------------
(* How long a certificate is valid                                         *)

\* What the code keeps while it walks the chain.
Expiry == [days : Int, end : Int]
NoExpiry == [days |-> 0, end |-> 0]

\* The chain and the zone of a configuration.
LEMMA ConfParts ==
    ASSUME NEW c \in Confs
    PROVE  /\ c.chain \in Seq(Int) /\ Len(c.chain) \in Nat \ {0}
           /\ DOMAIN c.chain = 1 .. Len(c.chain)
           /\ \A i \in 1 .. Len(c.chain) : c.chain[i] \in Int
           /\ c.zone \in {-1, 0, 1} /\ c.days \in Nat /\ c.adjust \in BOOLEAN
<1>1. c \in Conf /\ c.chain # <<>>
  BY LocalCaAssumption
<1>2. c.chain \in Seq(Int) /\ c.zone \in {-1, 0, 1} /\ c.days \in Nat /\ c.adjust \in BOOLEAN
  BY <1>1 DEF Conf
<1> QED
  BY <1>1, <1>2

\* Days are a number, and one that is rounded down.
LEMMA DaysInt == ASSUME conf \in Confs, NEW a \in Int PROVE Days(a) \in Int
BY ConfParts DEF Days
LEMMA DaysOrder ==
    ASSUME conf \in Confs, NEW a \in Int, NEW b \in Int
    PROVE  /\ Days(a) <= Days(b) => a < b + 2
           /\ a <= Days(b) => 2 * a < b + 2
BY ConfParts, SMTT(30) DEF Days

\* One step of the walk.
LEMMA SoonerType ==
    ASSUME conf \in Confs, NEW best \in Expiry, NEW a \in Int
    PROVE  Sooner(best, a) \in Expiry
BY DaysInt DEF Sooner, Expiry

\* The recursive definition defines a function: by induction on the length of
\* the part of the chain that was walked.
LEMMA SoonestIsFunction ==
    ASSUME conf \in Confs
    PROVE  Soonest = [i \in 0 .. Len(conf.chain) |->
                        IF i = 0 THEN NoExpiry ELSE Sooner(Soonest[i - 1], conf.chain[i])]
<1> DEFINE L == Len(conf.chain)
           Walk(g, i) == IF i = 0 THEN NoExpiry ELSE Sooner(g[i - 1], conf.chain[i])
           T == {n \in Nat : \E g : g = [i \in 0 .. n |-> Walk(g, i)]}
<1>0. L \in Nat
  BY ConfParts
<1>1. 0 \in T
  <2> DEFINE g == [i \in 0 .. 0 |-> NoExpiry]
  <2>1. g = [i \in 0 .. 0 |-> Walk(g, i)]
    OBVIOUS
  <2> QED
    BY <2>1
<1>2. ASSUME NEW n \in T PROVE n + 1 \in T
  <2>1. PICK g : g = [i \in 0 .. n |-> Walk(g, i)]
    OBVIOUS
  <2> DEFINE h == [i \in 0 .. n + 1 |-> IF i <= n THEN g[i] ELSE Walk(g, i)]
  <2>2. ASSUME NEW i \in 0 .. n + 1 PROVE h[i] = Walk(h, i)
    <3>1. CASE i = 0
      BY <2>1, <3>1
    <3>2. CASE i # 0
      <4>1. i - 1 \in 0 .. n /\ i \in 0 .. n + 1
        BY <3>2
      <4>2. h[i - 1] = g[i - 1]
        BY <4>1
      <4>3. h[i] = Walk(g, i)
        BY <2>1, <4>1
      <4> QED
        BY <3>2, <4>2, <4>3
    <3> QED
      BY <3>1, <3>2
  <2>3. h = [i \in 0 .. n + 1 |-> Walk(h, i)]
    BY <2>2
  <2>4. \E f : f = [i \in 0 .. n + 1 |-> Walk(f, i)]
    BY <2>3
  <2>5. n + 1 \in Nat
    OBVIOUS
  <2> QED
    BY <2>4, <2>5
<1>3. L \in T
  <2> HIDE DEF T
  <2>1. T \in SUBSET Nat
    BY DEF T
  <2> QED
    BY <1>0, <1>1, <1>2, <2>1, NatSetInduction
<1>4. \E g : g = [i \in 0 .. L |-> Walk(g, i)]
  BY <1>3
<1>5. Soonest = CHOOSE g : g = [i \in 0 .. L |-> Walk(g, i)]
  BY DEF Soonest, NoExpiry
<1> QED
  BY <1>4, <1>5

\* Its equation, and the type of its values.
LEMMA SoonestStep ==
    ASSUME conf \in Confs
    PROVE  /\ Soonest[0] = NoExpiry
           /\ \A i \in 1 .. Len(conf.chain) :
                 Soonest[i] = Sooner(Soonest[i - 1], conf.chain[i])
<1>1. Len(conf.chain) \in Nat
  BY ConfParts
<1> QED
  BY <1>1, SoonestIsFunction

LEMMA SoonestType ==
    ASSUME conf \in Confs
    PROVE  \A i \in 0 .. Len(conf.chain) : Soonest[i] \in Expiry
<1> DEFINE L == Len(conf.chain)
           T == {n \in Nat : n <= L => Soonest[n] \in Expiry}
<1>0. L \in Nat /\ \A i \in 1 .. L : conf.chain[i] \in Int
  BY ConfParts
<1>1. 0 \in T
  BY SoonestStep DEF NoExpiry, Expiry
<1>2. ASSUME NEW n \in T PROVE n + 1 \in T
  <2>1. n \in Nat /\ n + 1 \in Nat
    OBVIOUS
  <2>2. CASE n + 1 <= L
    <3>1. Soonest[n] \in Expiry /\ n + 1 \in 1 .. L
      BY <1>0, <2>1, <2>2
    <3>2. Soonest[n + 1] = Sooner(Soonest[n], conf.chain[n + 1])
      BY <2>1, <3>1, SoonestStep
    <3>3. Soonest[n + 1] \in Expiry
      BY <1>0, <3>1, <3>2, SoonerType
    <3> QED
      BY <2>1, <3>3
  <2> QED
    BY <2>1, <2>2
<1>3. T \in SUBSET Nat
  OBVIOUS
<1> HIDE DEF T
<1>4. T = Nat
  BY <1>1, <1>2, <1>3, NatSetInduction
<1> QED
  BY <1>0, <1>4 DEF T

\* When no CA is in its last day, the walk keeps the fewest days so far, with
\* the end they belong to.
LEMMA SoonestIsFirst ==
    ASSUME conf \in Confs, \A i \in DOMAIN conf.chain : Days(conf.chain[i]) # 0
    PROVE  \A i \in 1 .. Len(conf.chain) :
              /\ Soonest[i].days # 0 /\ Soonest[i].days = Days(Soonest[i].end)
              /\ \A j \in 1 .. i : Soonest[i].days <= Days(conf.chain[j])
<1> DEFINE L == Len(conf.chain)
           Least(n) == /\ Soonest[n].days # 0 /\ Soonest[n].days = Days(Soonest[n].end)
                       /\ \A j \in 1 .. n : Soonest[n].days <= Days(conf.chain[j])
           T == {n \in Nat : n \in 1 .. L => Least(n)}
<1>0. /\ L \in Nat
      /\ \A i \in 1 .. L : /\ conf.chain[i] \in Int
                           /\ Days(conf.chain[i]) \in Int
                           /\ Days(conf.chain[i]) # 0
  BY ConfParts, DaysInt
<1>1. 0 \in T
  OBVIOUS
<1>2. ASSUME NEW n \in T PROVE n + 1 \in T
  <2>1. n \in Nat /\ n + 1 \in Nat
    OBVIOUS
  <2>2. ASSUME n + 1 \in 1 .. L PROVE Least(n + 1)
    <3>1. Soonest[n + 1] = Sooner(Soonest[n], conf.chain[n + 1])
      BY <2>1, <2>2, SoonestStep
    <3>2. Soonest[n] \in Expiry
      BY <1>0, <2>1, <2>2, SoonestType
    <3>3. CASE n = 0
      <4>1. Soonest[n] = NoExpiry
        BY <3>3, SoonestStep
      <4>2. Soonest[n + 1] = [days |-> Days(conf.chain[1]), end |-> conf.chain[1]]
        BY <3>1, <3>3, <4>1 DEF Sooner, NoExpiry
      <4> QED
        BY <1>0, <2>2, <3>3, <4>2
    <3>4. CASE n # 0
      <4>1. Least(n)
        BY <1>0, <2>1, <2>2, <3>4
      <4>2. \A j \in 1 .. n + 1 : j \in 1 .. n \/ j = n + 1
        BY <2>1
      <4>3. \A j \in 1 .. n + 1 : Days(conf.chain[j]) \in Int
        BY <1>0, <2>1, <2>2
      <4>4. CASE Days(conf.chain[n + 1]) < Soonest[n].days
        <5>1. Soonest[n + 1] = [days |-> Days(conf.chain[n + 1]), end |-> conf.chain[n + 1]]
          BY <3>1, <4>4 DEF Sooner
        <5> HIDE DEF L
        <5> QED
          BY <1>0, <2>2, <3>2, <4>1, <4>2, <4>3, <4>4, <5>1 DEF Expiry
      <4>5. CASE ~(Days(conf.chain[n + 1]) < Soonest[n].days)
        <5>1. Soonest[n + 1] = Soonest[n]
          BY <3>1, <4>1, <4>5 DEF Sooner
        <5> QED
          BY <1>0, <2>2, <3>2, <4>1, <4>2, <4>3, <4>5, <5>1 DEF Expiry
      <4> QED
        BY <4>4, <4>5
    <3> QED
      BY <3>3, <3>4
  <2> HIDE DEF Least
  <2> QED
    BY <2>1, <2>2
<1>3. T \in SUBSET Nat
  OBVIOUS
<1> HIDE DEF T
<1>4. T = Nat
  BY <1>1, <1>2, <1>3, NatSetInduction
<1> QED
  BY <1>0, <1>4, SMTT(30) DEF T

\* The end of a certificate, and what adjusting it achieves.
LEMMA CertEndType == ASSUME conf \in Confs PROVE CertEnd \in Int
<1>1. Len(conf.chain) \in Nat /\ conf.days \in Nat
  BY ConfParts
<1>2. CaExpiry \in Expiry
  BY <1>1, SoonestType DEF CaExpiry
<1> QED
  BY <1>1, <1>2 DEF CertEnd, Expiry

LEMMA CertEndWithin ==
    ASSUME conf \in Confs, conf.adjust,
           \A i \in DOMAIN conf.chain : Days(conf.chain[i]) # 0
    PROVE  \A i \in DOMAIN conf.chain : CertEnd < conf.chain[i] + 2
<1> DEFINE L == Len(conf.chain)
<1>1. /\ L \in Nat \ {0} /\ DOMAIN conf.chain = 1 .. L /\ conf.days \in Nat
      /\ \A i \in 1 .. L : conf.chain[i] \in Int /\ Days(conf.chain[i]) \in Int
  BY ConfParts, DaysInt
<1>2. CaExpiry \in Expiry
  BY <1>1, SoonestType DEF CaExpiry
<1>3. /\ CaExpiry.days = Days(CaExpiry.end)
      /\ \A j \in 1 .. L : CaExpiry.days <= Days(conf.chain[j])
  BY <1>1, SoonestIsFirst DEF CaExpiry
<1> SUFFICES ASSUME NEW i \in 1 .. L PROVE CertEnd < conf.chain[i] + 2
  BY <1>1
<1>4. CASE CaExpiry.days < conf.days
  <2>1. CertEnd = CaExpiry.end
    BY <1>4 DEF CertEnd
  <2> QED
    BY <1>1, <1>2, <1>3, <2>1, DaysOrder DEF Expiry
<1>5. CASE ~(CaExpiry.days < conf.days)
  <2>1. CertEnd = 2 * conf.days
    BY <1>5 DEF CertEnd
  <2>2. conf.days <= Days(conf.chain[i])
    BY <1>1, <1>2, <1>3, <1>5 DEF Expiry
  <2> QED
    BY <1>1, <2>1, <2>2, DaysOrder
<1> QED
  BY <1>4, <1>5

-----------------------------------------------------------------------------
(* Which CSR openssl signs                                                 *)

\* A name that passes is not blocked.
LEMMA NotBlocked ==
    ASSUME conf \in Confs, conf.blacklist = Absent, conf.blocked \notin {Absent, Unparsable},
           NEW n, NamePasses(n)
    PROVE  n \notin conf.blocked
<1>1. Absent # Unparsable
  BY LocalCaAssumption
<1>2. CASE conf.blocked = {}
  BY <1>2
<1>3. CASE conf.blocked # {}
  <2>1. BlockedList = [set |-> TRUE, names |-> conf.blocked]
    BY <1>1, <1>3 DEF BlockedList, Loaded
  <2> QED
    BY <2>1 DEF NamePasses, InList
<1> QED
  BY <1>2, <1>3

\* A CSR that passes has only names within the policy, of those the handler reads,
\* and one at least where there is a list.
LEMMA PassedIsAllowed ==
    ASSUME conf \in Confs, NEW c \in Csrs, CsrPasses(c),
           conf.whitelist = Absent, conf.blacklist = Absent
    PROVE  CsrWithinPolicy(c)
<1>1. conf.allowed \in Lists /\ conf.blocked \in Lists
  BY LocalCaAssumption DEF Conf
<1>2. /\ Absent # Unparsable /\ {} \notin {Absent, Unparsable}
      /\ conf.allowed \notin {Absent, Unparsable} => conf.allowed \in SUBSET Names
      /\ conf.blocked \notin {Absent, Unparsable} => conf.blocked \in SUBSET Names
  <2>1. {} \in SUBSET Names
    OBVIOUS
  <2> QED
    BY <1>1, <2>1, LocalCaAssumption DEF Lists
<1>3. CASE {conf.allowed, conf.blocked} \subseteq {Absent, {}}
  <2>1. conf.allowed \in {Absent, {}} /\ conf.blocked \in {Absent, {}}
    BY <1>3
  <2> QED
    BY <1>2, <1>3, <2>1 DEF CsrWithinPolicy, WithinPolicy
<1>4. CASE ~({conf.allowed, conf.blocked} \subseteq {Absent, {}})
  <2>1. conf.allowed \notin {Absent, {}} \/ conf.blocked \notin {Absent, {}}
    BY <1>4
  <2>2. AllowedList.set \/ BlockedList.set
    <3>1. CASE conf.allowed = Unparsable
      BY <1>2, <3>1 DEF AllowedList, Loaded, BlockAll
    <3>2. CASE conf.blocked = Unparsable
      BY <1>2, <3>2 DEF AllowedList, Loaded, BlockAll
    <3>3. CASE conf.allowed # Unparsable /\ conf.blocked # Unparsable
      BY <1>2, <2>1, <3>3 DEF AllowedList, BlockedList, Loaded, NoList
    <3> QED
      BY <3>1, <3>2, <3>3
  <2>3. /\ Checked(c) # {} /\ ReadSans(c) = Parsed(c)
        /\ \A n \in Checked(c) : NamePasses(n)
    BY <2>2 DEF CsrPasses
  <2>4. ReadNames(c) = Checked(c)
    BY <2>3 DEF ReadNames, Checked
  <2>5. ASSUME NEW n \in Checked(c)
        PROVE  WithinPolicy(n)
    <3>1. CASE conf.allowed = Unparsable \/ conf.blocked = Unparsable
      <4>1. AllowedList = BlockAll
        BY <1>2, <3>1 DEF AllowedList, Loaded, BlockAll
      <4>2. n \in BlockAllNames
        BY <2>3, <2>5, <4>1 DEF NamePasses, InList, BlockAll
      <4> QED
        BY <3>1, <4>2, NotBlocked, <1>2, <2>3, <2>5 DEF WithinPolicy
    <3>2. CASE conf.allowed # Unparsable /\ conf.blocked # Unparsable
      <4>1. ASSUME conf.allowed \notin {Absent, {}}
            PROVE  n \in conf.allowed
        <5>1. AllowedList = [set |-> TRUE, names |-> conf.allowed]
          BY <1>2, <3>2, <4>1 DEF AllowedList, Loaded
        <5> QED
          BY <2>3, <2>5, <5>1 DEF NamePasses, InList
      <4> QED
        BY <3>2, <4>1, NotBlocked, <2>3, <2>5 DEF WithinPolicy
    <3> QED
      BY <3>1, <3>2
  <2> QED
    BY <2>3, <2>4, <2>5 DEF CsrWithinPolicy
<1> QED
  BY <1>3, <1>4

-----------------------------------------------------------------------------
(* Types                                                                   *)

\* The invariant holds initially.
LEMMA LocalCaInit == Init => LocalCaInv /\ RevokedIsListed
<1> SUFFICES ASSUME Init PROVE LocalCaInv /\ RevokedIsListed
  OBVIOUS
<1> USE LocalCaAssumption DEF Init, Callers
<1>1. TypeOK
  BY DEF TypeOK, EnrollPc, NoCert, Openssl, Serials
<1>2. PhaseInv
  BY DEF PhaseInv, EnrollPhase, RevokePhase, EnrollPc, RevokePc, Revoking
<1>3. TornByCall /\ IssuedIsRecorded /\ RowsRefer /\ RequestsByTwo
  BY DEF TornByCall, IssuedIsRecorded, RowsRefer, RequestsByTwo, Importing
<1>4. OverlapNoted /\ ListTakenOver
  BY DEF OverlapNoted, ListTakenOver, Revoking
<1>5. RevokedIsListed
  BY DEF RevokedIsListed, StaysListed, RevokedOnce, Serials
<1> QED
  BY <1>1, <1>2, <1>3, <1>4, <1>5 DEF LocalCaInv

\* A sequence over a set is one over each larger set.
LEMMA SeqWider ==
    ASSUME NEW S, NEW T, S \subseteq T, NEW s \in Seq(S) PROVE s \in Seq(T)
OBVIOUS

\* A call goes on to one of its steps.
LEMMA GotoType ==
    ASSUME pc \in [Callers -> EnrollPc \cup RevokePc], NEW c \in Callers,
           NEW label \in EnrollPc \cup RevokePc, Goto(c, label)
    PROVE  /\ pc' \in [Callers -> EnrollPc \cup RevokePc]
           /\ pc'[c] = label
           /\ \A d \in Callers : d # c => pc'[d] = pc[d]
BY DEF Goto

\* An insert adds an item of its kind, and the call learns its number.
LEMMA ItemInserted ==
    ASSUME TypeOK, NEW e \in Enrollers, NEW type \in {"request", "cert"},
           ItemInsert(e, type)
    PROVE  /\ items' \in Seq({"request", "cert"}) /\ rowId' \in [Enrollers -> Nat]
           /\ rowId'[e] \in DOMAIN items' /\ rowId'[e] \notin DOMAIN items
           /\ items'[rowId'[e]] = type
           /\ DOMAIN items \subseteq DOMAIN items'
           /\ \A i \in DOMAIN items : items'[i] = items[i]
           /\ \A d \in Enrollers : d # e => rowId'[d] = rowId[d]
<1>1. /\ items \in Seq({"request", "cert"}) /\ rowId \in [Enrollers -> Nat]
      /\ Len(items) \in Nat
  BY DEF TypeOK
<1> QED
  BY <1>1 DEF ItemInsert, NewId

\* A signature is added, and stays with its call.
LEMMA SignType ==
    ASSUME TypeOK, NEW e \in Enrollers, NEW c \in Csrs, NEW end \in Int, Sign(e, c, end)
    PROVE  /\ cert' \in [Enrollers -> [end : Int, csr : Csrs \cup {NoCsr}]]
           /\ signed \subseteq signed' /\ signed' \subseteq Serials
           /\ signed' = signed \cup {e}
           /\ cert'[e] = [end |-> end, csr |-> c]
           /\ \A d \in Enrollers : d # e => cert'[d] = cert[d]
BY DEF TypeOK, Sign, Serials

\* The steps of an enrollment keep the types.
LEMMA EnrollType ==
    ASSUME TypeOK, PhaseInv, RowsRefer, NEW e \in Enrollers, Enroll(e) PROVE TypeOK'
<1> USE LocalCaAssumption DEF vars, tableVars, localVars, ghostVars, Openssl, EnrollPc, RevokePc
<1>0. e \in Callers /\ e \in Serials
  BY DEF Callers, Serials
<1>1. CASE EnrollOpenssl(e)
  <2> PICK c \in Csrs : /\ csr' = [csr EXCEPT ![e] = c]
                        /\ IF CsrPasses(c) THEN Sign(e, c, CertEnd) /\ Goto(e, "store")
                           ELSE Goto(e, "refused") /\ UNCHANGED <<cert, signed>>
    BY <1>1 DEF EnrollOpenssl
  <2>1. pc' \in [Callers -> EnrollPc \cup RevokePc]
    BY <1>0, GotoType DEF TypeOK
  <2>2. CertEnd \in Int
    BY CertEndType DEF TypeOK
  <2>3. /\ cert' \in [Enrollers -> [end : Int, csr : Csrs \cup {NoCsr}]]
        /\ signed \subseteq signed' /\ signed' \subseteq Serials
    <3>1. CASE Sign(e, c, CertEnd)
      BY <1>0, <2>2, <3>1, SignType
    <3>2. CASE UNCHANGED <<cert, signed>>
      BY <3>2 DEF TypeOK
    <3> QED
      BY <3>1, <3>2
  <2> QED
    BY <1>1, <2>1, <2>3 DEF TypeOK, EnrollOpenssl
<1>2. CASE StoreFile(e)
  <2>1. pc' \in [Callers -> EnrollPc \cup RevokePc] /\ e \in signed
    BY <1>0, <1>2, GotoType DEF TypeOK, StoreFile, PhaseInv, EnrollPhase
  <2> QED
    BY <1>2, <2>1 DEF TypeOK, StoreFile
<1>3. CASE Bundle(e)
  <2>1. pc' \in [Callers -> EnrollPc \cup RevokePc] /\ e \in signed
    BY <1>0, <1>3, GotoType DEF TypeOK, Bundle, PhaseInv, EnrollPhase
  <2>2. revocations \in Seq(served \cup {e})
    BY SeqWider DEF TypeOK
  <2> QED
    BY <1>3, <2>1, <2>2 DEF TypeOK, Bundle
<1>4. CASE EnrollXca(e)
  <2>1. PICK c \in Csrs :
          /\ csr' = [csr EXCEPT ![e] = c]
          /\ Goto(e, IF ~HasRequestName(c) THEN "refused"
                     ELSE IF \E q \in requests : q.csr = c THEN "sign" ELSE "item")
          /\ together' = together \cup IF Importing(c) # {} THEN {c} ELSE {}
    BY <1>4 DEF EnrollXca
  <2>2. pc' \in [Callers -> EnrollPc \cup RevokePc]
    BY <1>0, <2>1, GotoType DEF TypeOK
  <2>3. together' \subseteq Csrs /\ csr' \in [Enrollers -> Csrs \cup {NoCsr}]
    BY <2>1 DEF TypeOK
  <2> QED
    BY <1>4, <2>2, <2>3 DEF TypeOK, EnrollXca
<1>5. CASE ImportItem(e)
  <2>1. pc' \in [Callers -> EnrollPc \cup RevokePc] /\ ~Openssl
    BY <1>0, <1>5, GotoType DEF TypeOK, ImportItem, PhaseInv, EnrollPhase
  <2>2. /\ items' \in Seq({"request", "cert"}) /\ rowId' \in [Enrollers -> Nat]
        /\ DOMAIN items \subseteq DOMAIN items'
    BY <1>5, ItemInserted DEF ImportItem
  <2>3. /\ requests \subseteq [item : DOMAIN items', csr : Csrs]
        /\ certs \subseteq [item : DOMAIN items', serial : signed]
    BY <2>2 DEF TypeOK
  <2> QED
    BY <1>5, <2>1, <2>2, <2>3 DEF TypeOK, ImportItem
<1>6. CASE ImportRequest(e)
  <2>1. pc' \in [Callers -> EnrollPc \cup RevokePc] /\ csr[e] \in Csrs
        /\ rowId[e] \in DOMAIN items
    BY <1>0, <1>6, GotoType DEF TypeOK, ImportRequest, PhaseInv, EnrollPhase, RowsRefer
  <2> QED
    BY <1>6, <2>1 DEF TypeOK, ImportRequest
<1>7. CASE SignXca(e)
  <2>1. pc' \in [Callers -> EnrollPc \cup RevokePc] /\ ~Openssl /\ csr[e] \in Csrs
    BY <1>0, <1>7, GotoType DEF TypeOK, SignXca, PhaseInv, EnrollPhase
  <2>2. /\ items' \in Seq({"request", "cert"}) /\ rowId' \in [Enrollers -> Nat]
        /\ DOMAIN items \subseteq DOMAIN items'
    BY <1>7, ItemInserted DEF SignXca
  <2>3. 2 * conf.days \in Int
    BY ConfParts DEF TypeOK
  <2>4. /\ cert' \in [Enrollers -> [end : Int, csr : Csrs \cup {NoCsr}]]
        /\ signed \subseteq signed' /\ signed' \subseteq Serials
    BY <1>7, <2>1, <2>3, SignType DEF SignXca
  <2>5. /\ requests \subseteq [item : DOMAIN items', csr : Csrs]
        /\ certs \subseteq [item : DOMAIN items', serial : signed']
    BY <2>2, <2>4 DEF TypeOK
  <2> QED
    BY <1>7, <2>1, <2>2, <2>4, <2>5 DEF TypeOK, SignXca
<1>8. CASE CertInsert(e)
  <2>1. pc' \in [Callers -> EnrollPc \cup RevokePc] /\ e \in signed
        /\ rowId[e] \in DOMAIN items
    BY <1>0, <1>8, GotoType DEF TypeOK, CertInsert, PhaseInv, EnrollPhase, RowsRefer
  <2> QED
    BY <1>8, <2>1 DEF TypeOK, CertInsert
<1> QED
  BY <1>1, <1>2, <1>3, <1>4, <1>5, <1>6, <1>7, <1>8 DEF Enroll

\* The steps of a revocation keep the types, and so does a stop.
LEMMA RevokeType ==
    ASSUME TypeOK, PhaseInv, NEW r \in Revokers, Revoke(r) PROVE TypeOK'
<1> USE LocalCaAssumption
    DEF vars, tableVars, localVars, ghostVars, Openssl, RevokePc, Serials
<1>0. r \in Callers
  BY DEF Callers
<1>1. r \in Revoking => target[r] \in served /\ target[r] \in Serials
  BY DEF PhaseInv, RevokePhase, TypeOK
<1>2. ASSUME NEW s \in served, NoteOverlap(s) PROVE contended' \subseteq Serials
  <2>1. \A d \in Revoking : target[d] \in Serials
    BY DEF TypeOK, PhaseInv, RevokePhase, Revoking
  <2>2. s \in Serials
    BY DEF TypeOK
  <2> QED
    BY <1>2, <2>1, <2>2 DEF NoteOverlap, TypeOK
<1>3. \A s \in Serials : acked[s] + 1 \in Nat
  BY DEF TypeOK
<1>4. CASE LoadCrl(r)
  <2>1. pc' \in [Callers -> EnrollPc \cup RevokePc]
    BY <1>0, <1>4, GotoType DEF TypeOK, LoadCrl
  <2>2. /\ target' \in [Revokers -> Serials \cup {NoCall}]
        /\ snap' \in [Revokers -> SUBSET Serials]
        /\ contended' \subseteq Serials /\ \A d \in Revokers : snap'[d] \subseteq served
    BY <1>2, <1>4 DEF TypeOK, LoadCrl, CrlEntries
  <2> QED
    BY <1>4, <2>1, <2>2 DEF TypeOK, LoadCrl
<1>5. CASE Truncate(r)
  <2>1. pc' \in [Callers -> EnrollPc \cup RevokePc] /\ Openssl
    BY <1>0, <1>5, GotoType DEF TypeOK, Truncate, PhaseInv, RevokePhase
  <2> QED
    BY <1>5, <2>1 DEF TypeOK, Truncate
<1>6. CASE WriteCrl(r)
  <2>1. pc' \in [Callers -> EnrollPc \cup RevokePc] /\ Openssl /\ r \in Revoking
    BY <1>0, <1>6, GotoType DEF TypeOK, WriteCrl, Confirm, PhaseInv, RevokePhase, Revoking
  <2>2. acked' \in [Serials -> Nat]
    BY <1>1, <1>3, <1>6, <2>1 DEF TypeOK, WriteCrl, Confirm
  <2>3. snap[r] \cup {target[r]} \subseteq served
    BY <1>1, <2>1 DEF TypeOK, PhaseInv, RevokePhase
  <2> QED
    BY <1>1, <1>6, <2>1, <2>2, <2>3 DEF TypeOK, WriteCrl
<1>7. CASE SearchRevocation(r)
  <2>1. pc' \in [Callers -> EnrollPc \cup RevokePc]
    BY <1>0, <1>7, GotoType DEF TypeOK, SearchRevocation
  <2>2. target' \in [Revokers -> Serials \cup {NoCall}] /\ contended' \subseteq Serials
    BY <1>2, <1>7 DEF TypeOK, SearchRevocation
  <2> QED
    BY <1>7, <2>1, <2>2 DEF TypeOK, SearchRevocation
<1>8. CASE InsertRevocation(r)
  <2>1. pc' \in [Callers -> EnrollPc \cup RevokePc] /\ ~Openssl /\ r \in Revoking
    BY <1>0, <1>8, GotoType DEF TypeOK, InsertRevocation, Confirm, PhaseInv, RevokePhase, Revoking
  <2>2. acked' \in [Serials -> Nat]
    BY <1>1, <1>3, <1>8, <2>1 DEF TypeOK, InsertRevocation, Confirm
  <2>3. revocations' \in Seq(served)
    BY <1>1, <1>8, <2>1 DEF TypeOK, InsertRevocation
  <2> QED
    BY <1>8, <2>1, <2>2, <2>3 DEF TypeOK, InsertRevocation
<1> QED
  BY <1>4, <1>5, <1>6, <1>7, <1>8 DEF Revoke

\* A call that stops keeps the types.
LEMMA StopType ==
    ASSUME TypeOK, NEW c \in Callers, Stop(c) PROVE TypeOK'
<1>1. pc' \in [Callers -> EnrollPc \cup RevokePc]
  BY GotoType DEF TypeOK, Stop, EnrollPc
<1> QED
  BY <1>1 DEF TypeOK, Stop, tableVars, localVars, ghostVars, Openssl

\* Every step keeps the types.
LEMMA TypeStep == TypeOK /\ PhaseInv /\ RowsRefer /\ [Next]_vars => TypeOK'
<1> SUFFICES ASSUME TypeOK, PhaseInv, RowsRefer, [Next]_vars PROVE TypeOK'
  OBVIOUS
<1>1. CASE UNCHANGED vars
  BY <1>1 DEF vars, tableVars, localVars, ghostVars, TypeOK, Openssl
<1> QED
  BY <1>1, EnrollType, RevokeType, StopType DEF Next

-----------------------------------------------------------------------------
(* What the steps of one call leave alone                                  *)

\* An enrollment touches neither the revocations nor the other enrollments.
LEMMA EnrollFrame ==
    ASSUME TypeOK, NEW e \in Enrollers, Enroll(e)
    PROVE  /\ UNCHANGED <<conf, crl, revocations, target, snap, acked, contended>>
           /\ \A d \in Callers : d # e => pc'[d] = pc[d]
           /\ \A d \in Enrollers : d # e =>
                 csr'[d] = csr[d] /\ cert'[d] = cert[d] /\ rowId'[d] = rowId[d]
           /\ pc'[e] \in EnrollPc
<1>0. e \in Callers /\ pc \in [Callers -> EnrollPc \cup RevokePc]
  BY DEF Callers, TypeOK
<1> USE DEF vars, tableVars, localVars, ghostVars, EnrollPc, Goto
<1>1. CASE EnrollOpenssl(e)
  BY <1>0, <1>1 DEF EnrollOpenssl, TypeOK, Sign
<1>2. CASE StoreFile(e)
  BY <1>0, <1>2 DEF StoreFile
<1>3. CASE Bundle(e)
  BY <1>0, <1>3 DEF Bundle
<1>4. CASE EnrollXca(e)
  BY <1>0, <1>4 DEF EnrollXca, TypeOK
<1>5. CASE ImportItem(e)
  BY <1>0, <1>5 DEF ImportItem, TypeOK, ItemInsert
<1>6. CASE ImportRequest(e)
  BY <1>0, <1>6 DEF ImportRequest
<1>7. CASE SignXca(e)
  BY <1>0, <1>7 DEF SignXca, TypeOK, ItemInsert, Sign
<1>8. CASE CertInsert(e)
  BY <1>0, <1>8 DEF CertInsert
<1> QED
  BY <1>1, <1>2, <1>3, <1>4, <1>5, <1>6, <1>7, <1>8 DEF Enroll

\* So the calls of revoke that are under way stay the same.
LEMMA EnrollKeepsRevoking ==
    ASSUME TypeOK, NEW e \in Enrollers, Enroll(e)
    PROVE  /\ Revoking' = Revoking
           /\ \A r \in Revokers : pc'[r] = pc[r]
<1>1. \A r \in Revokers : r # e /\ r \in Callers
  BY LocalCaAssumption DEF Callers
<1>2. \A r \in Revokers : pc'[r] = pc[r]
  BY <1>1, EnrollFrame
<1> QED
  BY <1>2 DEF Revoking

\* A revocation touches nothing an enrollment reads.
LEMMA RevokeFrame ==
    ASSUME TypeOK, NEW r \in Revokers, Revoke(r)
    PROVE  /\ UNCHANGED <<conf, files, items, requests, certs, csr, cert, rowId, signed,
                          served, together>>
           /\ \A d \in Callers : d # r => pc'[d] = pc[d]
           /\ \A e \in Enrollers : pc'[e] = pc[e]
           /\ \A d \in Revokers : d # r => target'[d] = target[d] /\ snap'[d] = snap[d]
           /\ contended \subseteq contended'
<1>0. /\ r \in Callers /\ pc \in [Callers -> EnrollPc \cup RevokePc]
      /\ \A e \in Enrollers : e # r /\ e \in Callers
  BY LocalCaAssumption DEF Callers, TypeOK
<1> USE DEF vars, tableVars, localVars, ghostVars, Goto, NoteOverlap, Confirm
<1>1. CASE LoadCrl(r)
  BY <1>0, <1>1 DEF LoadCrl, TypeOK
<1>2. CASE Truncate(r)
  BY <1>0, <1>2 DEF Truncate
<1>3. CASE WriteCrl(r)
  BY <1>0, <1>3 DEF WriteCrl
<1>4. CASE SearchRevocation(r)
  BY <1>0, <1>4 DEF SearchRevocation, TypeOK
<1>5. CASE InsertRevocation(r)
  BY <1>0, <1>5 DEF InsertRevocation
<1> QED
  BY <1>1, <1>2, <1>3, <1>4, <1>5 DEF Revoke

LEMMA RevokeKeepsImporting ==
    ASSUME TypeOK, NEW r \in Revokers, Revoke(r), NEW c
    PROVE  Importing(c)' = Importing(c)
BY RevokeFrame DEF Importing

\* A stop changes the step of its call and nothing else.
LEMMA StopFrame ==
    ASSUME TypeOK, NEW c \in Callers, Stop(c)
    PROVE  /\ UNCHANGED <<conf, files, crl, tableVars, localVars, ghostVars>>
           /\ pc[c] \in Running /\ pc'[c] = "failed"
           /\ \A d \in Callers : d # c => pc'[d] = pc[d]
           /\ Revoking' = Revoking \ {c}
<1>1. /\ UNCHANGED <<conf, files, crl, tableVars, localVars, ghostVars>>
      /\ pc[c] \in Running /\ pc'[c] = "failed"
      /\ \A d \in Callers : d # c => pc'[d] = pc[d]
  BY DEF TypeOK, Stop, Goto
<1>2. Revokers \subseteq Callers
  BY DEF Callers
<1> QED
  BY <1>1, <1>2 DEF Revoking

\* What an enrollment records is kept.
LEMMA EnrollGrows ==
    ASSUME TypeOK, NEW e \in Enrollers, Enroll(e)
    PROVE  /\ files \subseteq files' /\ certs \subseteq certs'
           /\ signed \subseteq signed' /\ served \subseteq served'
           /\ together \subseteq together'
<1> USE DEF vars, tableVars, localVars, ghostVars, Sign
<1> QED
  BY DEF Enroll, EnrollOpenssl, StoreFile, Bundle, EnrollXca, ImportItem, ImportRequest,
     SignXca, CertInsert

-----------------------------------------------------------------------------
(* The steps a call goes through                                           *)

\* The steps of a call take it from one of its phases to another.
LEMMA EnrollPhases ==
    ASSUME TypeOK, PhaseInv, NEW e \in Enrollers, Enroll(e) PROVE EnrollPhase(e)'
<1>0. /\ pc \in [Callers -> EnrollPc \cup RevokePc] /\ e \in Callers /\ EnrollPhase(e)
      /\ csr \in [Enrollers -> Csrs \cup {NoCsr}]
  BY DEF TypeOK, Callers, PhaseInv
<1> USE DEF vars, tableVars, localVars, ghostVars, EnrollPc, Goto, EnrollPhase, Openssl, Sign
<1>1. CASE EnrollOpenssl(e)
  BY <1>0, <1>1 DEF EnrollOpenssl
<1>2. CASE StoreFile(e)
  BY <1>0, <1>2 DEF StoreFile
<1>3. CASE Bundle(e)
  BY <1>0, <1>3 DEF Bundle
<1>4. CASE EnrollXca(e)
  BY <1>0, <1>4 DEF EnrollXca
<1>5. CASE ImportItem(e)
  BY <1>0, <1>5 DEF ImportItem
<1>6. CASE ImportRequest(e)
  BY <1>0, <1>6 DEF ImportRequest
<1>7. CASE SignXca(e)
  BY <1>0, <1>7 DEF SignXca
<1>8. CASE CertInsert(e)
  BY <1>0, <1>8 DEF CertInsert
<1> QED
  BY <1>1, <1>2, <1>3, <1>4, <1>5, <1>6, <1>7, <1>8 DEF Enroll

LEMMA RevokePhases ==
    ASSUME TypeOK, PhaseInv, NEW r \in Revokers, Revoke(r) PROVE RevokePhase(r)'
<1>0. /\ pc \in [Callers -> EnrollPc \cup RevokePc] /\ r \in Callers /\ RevokePhase(r)
      /\ target \in [Revokers -> Serials \cup {NoCall}]
  BY DEF TypeOK, Callers, PhaseInv
<1> USE DEF vars, tableVars, localVars, ghostVars, RevokePc, Goto, RevokePhase, Openssl,
            Revoking, Confirm
<1>1. CASE LoadCrl(r)
  BY <1>0, <1>1 DEF LoadCrl
<1>2. CASE Truncate(r)
  BY <1>0, <1>2 DEF Truncate
<1>3. CASE WriteCrl(r)
  BY <1>0, <1>3 DEF WriteCrl
<1>4. CASE SearchRevocation(r)
  BY <1>0, <1>4 DEF SearchRevocation
<1>5. CASE InsertRevocation(r)
  BY <1>0, <1>5 DEF InsertRevocation
<1> QED
  BY <1>1, <1>2, <1>3, <1>4, <1>5 DEF Revoke

LEMMA PhaseStep == TypeOK /\ PhaseInv /\ [Next]_vars => PhaseInv'
<1> SUFFICES ASSUME TypeOK, PhaseInv, [Next]_vars PROVE PhaseInv'
  OBVIOUS
<1>0. /\ \A e \in Enrollers : e \in Callers /\ EnrollPhase(e)
      /\ \A r \in Revokers : r \in Callers /\ RevokePhase(r)
      /\ \A e \in Enrollers : e \notin Revokers
  BY LocalCaAssumption DEF Callers, PhaseInv
<1>1. ASSUME NEW e \in Enrollers, Enroll(e) PROVE PhaseInv'
  <2>1. ASSUME NEW d \in Enrollers PROVE EnrollPhase(d)'
    <3>1. CASE d = e
      BY <1>1, <3>1, EnrollPhases
    <3>2. CASE d # e
      BY <1>0, <1>1, <3>2, EnrollFrame, EnrollGrows DEF EnrollPhase, Openssl
    <3> QED
      BY <3>1, <3>2
  <2>2. ASSUME NEW r \in Revokers PROVE RevokePhase(r)'
    BY <1>0, <1>1, EnrollFrame, EnrollGrows, EnrollKeepsRevoking DEF RevokePhase, Openssl
  <2> QED
    BY <2>1, <2>2 DEF PhaseInv
<1>2. ASSUME NEW r \in Revokers, Revoke(r) PROVE PhaseInv'
  <2>1. ASSUME NEW d \in Enrollers PROVE EnrollPhase(d)'
    BY <1>0, <1>2, RevokeFrame DEF EnrollPhase, Openssl
  <2>2. ASSUME NEW d \in Revokers PROVE RevokePhase(d)'
    <3>1. CASE d = r
      BY <1>2, <3>1, RevokePhases
    <3>2. CASE d # r
      BY <1>0, <1>2, <3>2, RevokeFrame DEF RevokePhase, Openssl, Revoking
    <3> QED
      BY <3>1, <3>2
  <2> QED
    BY <2>1, <2>2 DEF PhaseInv
<1>3. ASSUME NEW c \in Callers, Stop(c) PROVE PhaseInv'
  <2>1. ASSUME NEW d \in Enrollers PROVE EnrollPhase(d)'
    BY <1>0, <1>3, StopFrame DEF EnrollPhase, Openssl, EnrollPc, localVars, ghostVars
  <2>2. ASSUME NEW d \in Revokers PROVE RevokePhase(d)'
    BY <1>0, <1>3, StopFrame DEF RevokePhase, Openssl, RevokePc, localVars, ghostVars
  <2> QED
    BY <2>1, <2>2 DEF PhaseInv
<1>4. CASE UNCHANGED vars
  BY <1>4 DEF vars, localVars, ghostVars, PhaseInv, EnrollPhase, RevokePhase, Openssl, Revoking
<1> QED
  BY <1>1, <1>2, <1>3, <1>4 DEF Next

-----------------------------------------------------------------------------
(* The stores                                                              *)

\* A file is truncated only by a call that goes on to write it.
LEMMA TornStep == TypeOK /\ TornByCall /\ [Next]_vars => TornByCall'
<1> SUFFICES ASSUME TypeOK, TornByCall, [Next]_vars PROVE TornByCall'
  OBVIOUS
<1>0. Revokers \subseteq Callers
  BY DEF Callers
<1>1. ASSUME NEW e \in Enrollers, Enroll(e) PROVE TornByCall'
  BY <1>1, EnrollFrame, EnrollKeepsRevoking DEF TornByCall
<1>2. ASSUME NEW r \in Revokers, Revoke(r) PROVE TornByCall'
  <2>1. /\ r \in Callers /\ pc \in [Callers -> EnrollPc \cup RevokePc]
        /\ \A d \in Revokers : d # r => pc'[d] = pc[d]
    BY <1>0, <1>2, RevokeFrame DEF TypeOK
  <2>2. CASE Truncate(r) \/ WriteCrl(r)
    BY <2>1, <2>2 DEF Truncate, WriteCrl, Goto, TornByCall
  <2>3. CASE LoadCrl(r) \/ SearchRevocation(r) \/ InsertRevocation(r)
    <3>1. pc[r] \in {"idle", "insert"} /\ crl' = crl
      BY <2>3 DEF LoadCrl, SearchRevocation, InsertRevocation
    <3> QED
      BY <2>1, <3>1 DEF TornByCall
  <2> QED
    BY <1>2, <2>2, <2>3 DEF Revoke
<1>3. ASSUME NEW c \in Callers, Stop(c) PROVE TornByCall'
  BY <1>0, <1>3, StopFrame DEF TornByCall
<1>4. CASE UNCHANGED vars
  BY <1>4 DEF vars, TornByCall
<1> QED
  BY <1>1, <1>2, <1>3, <1>4 DEF Next

\* What is on record stays on record.
LEMMA RecordedStays ==
    ASSUME TypeOK, [Next]_vars, NEW s, Recorded(s) PROVE Recorded(s)'
<1> USE DEF Recorded, Openssl
<1>1. ASSUME NEW e \in Enrollers, Enroll(e) PROVE Recorded(s)'
  BY <1>1, EnrollFrame, EnrollGrows
<1>2. ASSUME NEW r \in Revokers, Revoke(r) PROVE Recorded(s)'
  BY <1>2, RevokeFrame
<1>3. ASSUME NEW c \in Callers, Stop(c) PROVE Recorded(s)'
  BY <1>3, StopFrame DEF tableVars
<1>4. CASE UNCHANGED vars
  BY <1>4 DEF vars, tableVars
<1> QED
  BY <1>1, <1>2, <1>3, <1>4 DEF Next

\* A certificate is recorded before it is handed out.
LEMMA RecordedStep ==
    TypeOK /\ PhaseInv /\ IssuedIsRecorded /\ [Next]_vars => IssuedIsRecorded'
<1> SUFFICES ASSUME TypeOK, PhaseInv, IssuedIsRecorded, [Next]_vars PROVE IssuedIsRecorded'
  OBVIOUS
<1>0. Enrollers \subseteq Callers /\ pc \in [Callers -> EnrollPc \cup RevokePc]
  BY DEF TypeOK, Callers
<1>1. ASSUME NEW e \in Enrollers, Enroll(e) PROVE IssuedIsRecorded'
  <2>1. ASSUME NEW s \in served' PROVE Recorded(s)'
    <3>1. CASE s \in served
      BY <3>1, RecordedStays DEF IssuedIsRecorded
    <3>2. CASE s \notin served
      <4>1. s = e /\ pc[e] = "bundle"
        BY <1>1, <3>2 DEF Enroll, EnrollOpenssl, StoreFile, Bundle, EnrollXca, ImportItem,
           ImportRequest, SignXca, CertInsert, ghostVars
      <4> QED
        BY <4>1, RecordedStays DEF IssuedIsRecorded
    <3> QED
      BY <3>1, <3>2
  <2>2. ASSUME NEW d \in Enrollers, pc'[d] = "bundle" PROVE Recorded(d)'
    <3>1. CASE pc[d] = "bundle"
      BY <3>1, RecordedStays DEF IssuedIsRecorded
    <3>2. CASE pc[d] # "bundle"
      <4>1. d = e
        BY <1>0, <1>1, <2>2, <3>2, EnrollFrame
      <4>2. StoreFile(e) \/ CertInsert(e)
        BY <1>0, <1>1, <2>2, <3>2, <4>1 DEF Enroll, EnrollOpenssl, Bundle, EnrollXca,
           ImportItem, ImportRequest, SignXca, Goto
      <4>3. CASE StoreFile(e)
        BY <4>1, <4>3 DEF StoreFile, Recorded, Openssl
      <4>4. CASE CertInsert(e)
        <5>1. ~Openssl
          BY <4>4 DEF CertInsert, PhaseInv, EnrollPhase
        <5>2. conf' = conf /\ [item |-> rowId[e], serial |-> e] \in certs'
          BY <4>4 DEF CertInsert
        <5> QED
          BY <4>1, <5>1, <5>2 DEF Recorded, Openssl
      <4> QED
        BY <4>2, <4>3, <4>4
    <3> QED
      BY <3>1, <3>2
  <2> QED
    BY <2>1, <2>2 DEF IssuedIsRecorded
<1>2. ASSUME NEW r \in Revokers, Revoke(r) PROVE IssuedIsRecorded'
  BY <1>2, RevokeFrame DEF IssuedIsRecorded, Recorded, Openssl
<1>3. ASSUME NEW c \in Callers, Stop(c) PROVE IssuedIsRecorded'
  BY <1>0, <1>3, StopFrame DEF IssuedIsRecorded, Recorded, Openssl, tableVars, ghostVars
<1>4. CASE UNCHANGED vars
  BY <1>4 DEF vars, tableVars, ghostVars, IssuedIsRecorded, Recorded, Openssl
<1> QED
  BY <1>1, <1>2, <1>3, <1>4 DEF Next

\* Rows keep referring to items of their own kind.
LEMMA RowsReferStep == TypeOK /\ PhaseInv /\ RowsRefer /\ [Next]_vars => RowsRefer'
<1> SUFFICES ASSUME TypeOK, PhaseInv, RowsRefer, [Next]_vars PROVE RowsRefer'
  OBVIOUS
<1>0. /\ Enrollers \subseteq Callers /\ pc \in [Callers -> EnrollPc \cup RevokePc]
      /\ \A q \in requests : q.item \in DOMAIN items
      /\ \A t \in certs : t.item \in DOMAIN items
  BY DEF TypeOK, Callers
<1>1. ASSUME NEW e \in Enrollers, Enroll(e) PROVE RowsRefer'
  <2>0. /\ e \in Callers
        /\ \A d \in Enrollers : d # e => pc'[d] = pc[d] /\ rowId'[d] = rowId[d]
    BY <1>0, <1>1, EnrollFrame
  <2>1. CASE EnrollOpenssl(e) \/ StoreFile(e) \/ Bundle(e) \/ EnrollXca(e)
    <3>1. UNCHANGED <<items, requests, certs, rowId>> /\ pc'[e] \notin {"request", "cert"}
      BY <1>0, <2>0, <2>1 DEF EnrollOpenssl, StoreFile, Bundle, EnrollXca, tableVars,
         localVars, Goto
    <3> QED
      BY <2>0, <3>1 DEF RowsRefer
  <2>2. CASE ImportItem(e)
    <3>1. UNCHANGED <<requests, certs>> /\ pc'[e] = "request"
      BY <1>0, <2>0, <2>2 DEF ImportItem, Goto
    <3>2. /\ rowId'[e] \in DOMAIN items' /\ items'[rowId'[e]] = "request"
          /\ DOMAIN items \subseteq DOMAIN items'
          /\ \A i \in DOMAIN items : items'[i] = items[i]
      BY <2>2, ItemInserted DEF ImportItem
    <3> QED
      BY <1>0, <2>0, <3>1, <3>2 DEF RowsRefer
  <2>3. CASE ImportRequest(e)
    <3>1. /\ UNCHANGED <<items, certs, rowId>> /\ pc'[e] = "sign"
          /\ requests' = requests \cup {[item |-> rowId[e], csr |-> csr[e]]}
          /\ pc[e] = "request"
      BY <1>0, <2>0, <2>3 DEF ImportRequest, localVars, Goto
    <3> QED
      BY <2>0, <3>1 DEF RowsRefer
  <2>4. CASE SignXca(e)
    <3>1. UNCHANGED <<requests, certs>> /\ pc'[e] = "cert"
      BY <1>0, <2>0, <2>4 DEF SignXca, Goto
    <3>2. /\ rowId'[e] \in DOMAIN items' /\ items'[rowId'[e]] = "cert"
          /\ rowId'[e] \notin DOMAIN items
          /\ DOMAIN items \subseteq DOMAIN items'
          /\ \A i \in DOMAIN items : items'[i] = items[i]
      BY <2>4, ItemInserted DEF SignXca
    <3>3. \A d \in Enrollers : pc[d] = "cert" => rowId[d] \in DOMAIN items
      BY DEF RowsRefer
    <3> QED
      BY <1>0, <2>0, <3>1, <3>2, <3>3 DEF RowsRefer
  <2>5. CASE CertInsert(e)
    <3>1. /\ UNCHANGED <<items, requests, rowId>> /\ pc'[e] = "bundle" /\ pc[e] = "cert"
          /\ certs' = certs \cup {[item |-> rowId[e], serial |-> e]}
      BY <1>0, <2>0, <2>5 DEF CertInsert, localVars, Goto
    <3>2. \A t \in certs' : t \in certs \/ t = [item |-> rowId[e], serial |-> e]
      BY <3>1
    <3>3. \A t \in certs : t.item # rowId[e] /\ items[rowId[e]] = "cert"
      BY <3>1 DEF RowsRefer
    <3>4. \A t, u \in certs' : t.item = u.item => t = u
      BY <3>2, <3>3 DEF RowsRefer
    <3>5. \A d \in Enrollers : pc'[d] = "cert" => d # e /\ \A t \in certs' : t.item # rowId[d]
      BY <2>0, <3>1, <3>2 DEF RowsRefer
    <3>6. \A t \in certs' : items'[t.item] = "cert"
      BY <3>1, <3>2 DEF RowsRefer
    <3> QED
      BY <2>0, <3>1, <3>4, <3>5, <3>6 DEF RowsRefer
  <2> QED
    BY <1>1, <2>1, <2>2, <2>3, <2>4, <2>5 DEF Enroll
<1>2. ASSUME NEW r \in Revokers, Revoke(r) PROVE RowsRefer'
  BY <1>2, RevokeFrame DEF RowsRefer
<1>3. ASSUME NEW c \in Callers, Stop(c) PROVE RowsRefer'
  BY <1>0, <1>3, StopFrame DEF RowsRefer, tableVars, localVars
<1>4. CASE UNCHANGED vars
  BY <1>4 DEF vars, tableVars, localVars, RowsRefer
<1> QED
  BY <1>1, <1>2, <1>3, <1>4 DEF Next

\* Two requests for one CSR come from two calls that imported it together.
LEMMA RequestsStep == TypeOK /\ PhaseInv /\ RequestsByTwo /\ [Next]_vars => RequestsByTwo'
<1> SUFFICES ASSUME TypeOK, PhaseInv, RequestsByTwo, [Next]_vars PROVE RequestsByTwo'
  OBVIOUS
<1>0. /\ Enrollers \subseteq Callers /\ pc \in [Callers -> EnrollPc \cup RevokePc]
      /\ csr \in [Enrollers -> Csrs \cup {NoCsr}]
  BY DEF TypeOK, Callers
<1>1. ASSUME NEW e \in Enrollers, Enroll(e) PROVE RequestsByTwo'
  <2>0. /\ e \in Callers /\ together \subseteq together'
        /\ \A d \in Enrollers : d # e => pc'[d] = pc[d] /\ csr'[d] = csr[d]
    BY <1>0, <1>1, EnrollFrame, EnrollGrows
  <2>1. CASE EnrollXca(e)
    <3>1. PICK c \in Csrs :
            /\ csr' = [csr EXCEPT ![e] = c]
            /\ Goto(e, IF ~HasRequestName(c) THEN "refused"
                       ELSE IF \E q \in requests : q.csr = c THEN "sign" ELSE "item")
            /\ together' = together \cup IF Importing(c) # {} THEN {c} ELSE {}
      BY <2>1 DEF EnrollXca
    <3>2. csr'[e] = c /\ requests' = requests /\ pc[e] = "idle"
      BY <1>0, <2>1, <3>1 DEF EnrollXca, tableVars
    <3>3. pc'[e] \in {"item", "request"} => ~ \E q \in requests : q.csr = c
      BY <1>0, <2>0, <3>1 DEF Goto
    <3>4. \A d \in Enrollers : d # e /\ pc'[d] \in {"item", "request"} /\ csr'[d] = c => c \in together'
      BY <2>0, <3>1 DEF Importing
    <3> QED
      BY <2>0, <3>2, <3>3, <3>4 DEF RequestsByTwo, Importing
  <2>2. CASE ImportRequest(e)
    <3>1. /\ csr' = csr /\ pc[e] = "request" /\ pc'[e] = "sign"
          /\ requests' = requests \cup {[item |-> rowId[e], csr |-> csr[e]]}
      BY <1>0, <2>0, <2>2 DEF ImportRequest, localVars, Goto
    <3>2. e \in Importing(csr[e])
      BY <3>1 DEF Importing
    <3>3. /\ \A q \in requests : q.csr = csr[e] => csr[e] \in together
          /\ \A d \in Importing(csr[e]) : d # e => csr[e] \in together
      BY <3>2 DEF RequestsByTwo
    <3>4. \A q \in requests' : q \in requests \/ q = [item |-> rowId[e], csr |-> csr[e]]
      BY <3>1
    <3>5. \A q, u \in requests' : q.csr = u.csr /\ q # u => q.csr \in together'
      BY <2>0, <3>3, <3>4 DEF RequestsByTwo
    <3>6. ASSUME NEW d \in Enrollers, d \in Importing(csr[d])'
          PROVE  /\ \A q \in requests' : q.csr = csr'[d] => csr'[d] \in together'
                 /\ \A f \in Importing(csr[d])' : f # d => csr'[d] \in together'
      <4>1. d # e /\ d \in Importing(csr[d]) /\ csr'[d] = csr[d]
        BY <2>0, <3>1, <3>6 DEF Importing
      <4>2. csr[d] = csr[e] => csr[d] \in together
        BY <3>3, <4>1 DEF Importing
      <4>3. Importing(csr[d])' \subseteq Importing(csr[d])
        BY <2>0, <3>1 DEF Importing
      <4> QED
        BY <2>0, <3>4, <4>1, <4>2, <4>3 DEF RequestsByTwo
    <3> QED
      BY <3>5, <3>6 DEF RequestsByTwo
  <2>3. CASE ImportItem(e)
    <3>1. pc[e] = "item" /\ pc'[e] = "request" /\ csr' = csr /\ requests' = requests
      BY <1>0, <2>0, <2>3 DEF ImportItem, Goto
    <3>2. \A c : Importing(c)' = Importing(c)
      BY <2>0, <3>1 DEF Importing
    <3> QED
      BY <2>0, <3>1, <3>2 DEF RequestsByTwo
  <2>4. CASE \/ EnrollOpenssl(e) \/ StoreFile(e) \/ Bundle(e) \/ SignXca(e) \/ CertInsert(e)
    <3>1. requests' = requests /\ pc'[e] \notin {"item", "request"}
      BY <1>0, <2>0, <2>4 DEF EnrollOpenssl, StoreFile, Bundle, SignXca, CertInsert,
         tableVars, localVars, Goto
    <3>2. \A d \in Enrollers : pc'[d] \in {"item", "request"} => d # e
      BY <3>1
    <3> QED
      BY <2>0, <3>1, <3>2 DEF RequestsByTwo, Importing
  <2> QED
    BY <1>1, <2>1, <2>2, <2>3, <2>4 DEF Enroll
<1>2. ASSUME NEW r \in Revokers, Revoke(r) PROVE RequestsByTwo'
  BY <1>2, RevokeFrame DEF RequestsByTwo, Importing
<1>3. ASSUME NEW c \in Callers, Stop(c) PROVE RequestsByTwo'
  BY <1>0, <1>3, StopFrame DEF RequestsByTwo, Importing, tableVars, localVars, ghostVars
<1>4. CASE UNCHANGED vars
  BY <1>4 DEF vars, tableVars, localVars, ghostVars, RequestsByTwo, Importing
<1> QED
  BY <1>1, <1>2, <1>3, <1>4 DEF Next

-----------------------------------------------------------------------------
(* Revocations                                                             *)

\* What holds of confirmed revocations, and of those under way.
Confirmed == OverlapNoted /\ ListTakenOver /\ RevokedIsListed

\* A call that starts to revoke s while others do is noted with all of them; one
\* that starts alone has read all that was confirmed.
LEMMA StartRevoking ==
    ASSUME TypeOK, Confirmed, NEW r \in Revokers, r \notin Revoking, NEW s \in Serials,
           target' = [target EXCEPT ![r] = s], NoteOverlap(s),
           UNCHANGED <<conf, crl, revocations, acked>>,
           Revoking' \subseteq Revoking \cup {r},
           \A d \in Revokers : d # r => snap'[d] = snap[d],
           r \in Revoking' =>
              IF Openssl THEN snap'[r] = crl.listed /\ crl.state # "torn" /\ s \notin crl.listed
              ELSE ~Revoked(s)
    PROVE  Confirmed'
<1>1. /\ target'[r] = s /\ \A d \in Revokers : d # r => target'[d] = target[d]
      /\ contended \subseteq contended'
      /\ \A d \in Revoking' : d # r => d \in Revoking
      /\ Revoking \subseteq Revokers /\ Revoking' \subseteq Revokers
  BY DEF TypeOK, NoteOverlap, Revoking
<1>2. RevokedIsListed'
  BY <1>1 DEF Confirmed, RevokedIsListed, StaysListed, RevokedOnce, Openssl, Revoked
<1>3. OverlapNoted'
  <2>1. CASE Revoking = {}
    <3>1. ASSUME r \in Revoking', s \notin contended PROVE acked[s] = 0
      <4>1. ~(acked[s] > 0)
        BY <3>1 DEF Confirmed, RevokedIsListed, StaysListed
      <4> QED
        BY <4>1 DEF TypeOK
    <3>2. \A d \in Revoking' : d = r
      BY <1>1, <2>1
    <3> QED
      BY <1>1, <3>1, <3>2 DEF OverlapNoted
  <2>2. CASE Revoking # {}
    <3>1. s \in contended' /\ \A d \in Revoking : target[d] \in contended'
      BY <2>2 DEF NoteOverlap
    <3> QED
      BY <1>1, <3>1 DEF OverlapNoted
  <2> QED
    BY <2>1, <2>2
<1>4. ListTakenOver'
  <2> SUFFICES ASSUME NEW d \in Revoking', NEW x \in Serials, Openssl, acked[x] > 0,
                      x \notin contended'
               PROVE  x \in snap'[d]
    BY DEF ListTakenOver, Openssl
  <2>1. CASE d = r
    BY <1>1, <2>1 DEF Confirmed, RevokedIsListed, StaysListed
  <2>2. CASE d # r
    BY <1>1, <2>2 DEF Confirmed, ListTakenOver
  <2> QED
    BY <2>1, <2>2
<1> QED
  BY <1>2, <1>3, <1>4 DEF Confirmed

\* A call that confirms has its serial listed, with all that was confirmed before.
LEMMA EndRevoking ==
    ASSUME TypeOK, Confirmed, NEW r \in Revoking, target[r] \in Serials,
           acked' = [acked EXCEPT ![target[r]] = @ + 1],
           UNCHANGED <<conf, target, snap, contended>>, Revoking' = Revoking \ {r},
           IF Openssl THEN crl'.listed = snap[r] \cup {target[r]}
           ELSE \A x : Revoked(x) \/ x = target[r] => Revoked(x)'
    PROVE  Confirmed'
<1> DEFINE s == target[r]
<1>1. /\ \A x \in Serials : acked[x] \in Nat
      /\ acked'[s] = acked[s] + 1 /\ \A x \in Serials : x # s => acked'[x] = acked[x]
  BY DEF TypeOK
<1>2. s \notin contended => Revoking = {r} /\ acked[s] = 0
  BY DEF Confirmed, OverlapNoted
<1>3. RevokedOnce'
  BY <1>1, <1>2 DEF Confirmed, RevokedIsListed, RevokedOnce
<1>4. StaysListed'
  <2> SUFFICES ASSUME NEW x \in Serials, acked'[x] > 0, x \notin contended
               PROVE  IF Openssl THEN x \in crl'.listed ELSE Revoked(x)'
    BY DEF StaysListed, Openssl
  <2>1. CASE x = s
    BY <2>1
  <2>2. CASE x # s
    <3>1. acked[x] > 0
      BY <1>1, <2>2
    <3>2. Openssl => x \in snap[r]
      BY <3>1 DEF Confirmed, ListTakenOver
    <3>3. ~Openssl => Revoked(x)
      BY <3>1 DEF Confirmed, RevokedIsListed, StaysListed
    <3> QED
      BY <3>2, <3>3
  <2> QED
    BY <2>1, <2>2
<1>5. OverlapNoted'
  <2> SUFFICES ASSUME NEW d \in Revoking, d # r, target[d] \notin contended
               PROVE  Revoking' = {d} /\ acked'[target[d]] = 0
    BY DEF OverlapNoted
  <2>1. Revoking = {d}
    BY DEF Confirmed, OverlapNoted
  <2> QED
    BY <2>1
<1>6. ListTakenOver'
  <2> SUFFICES ASSUME NEW d \in Revoking, d # r, NEW x \in Serials, Openssl,
                      acked'[x] > 0, x \notin contended
               PROVE  x \in snap[d]
    BY DEF ListTakenOver, Openssl
  <2>1. CASE x = s
    BY <1>2, <2>1
  <2>2. CASE x # s
    BY <1>1, <2>2 DEF Confirmed, ListTakenOver
  <2> QED
    BY <2>1, <2>2
<1> QED
  BY <1>3, <1>4, <1>5, <1>6 DEF Confirmed, RevokedIsListed

\* The steps of a revocation.
LEMMA RevokeConfirmed ==
    ASSUME TypeOK, PhaseInv, Confirmed, NEW r \in Revokers, Revoke(r) PROVE Confirmed'
<1>0. /\ r \in Callers /\ pc \in [Callers -> EnrollPc \cup RevokePc]
      /\ Revokers \subseteq Callers /\ \A s \in served : s \in Serials
      /\ \A d \in Callers : d # r => pc'[d] = pc[d]
      /\ \A d \in Revokers : d # r => snap'[d] = snap[d]
      /\ snap \in [Revokers -> SUBSET Serials]
  BY RevokeFrame DEF TypeOK, Callers
<1>1. CASE LoadCrl(r)
  <2>1. PICK s \in served :
          /\ target' = [target EXCEPT ![r] = s]
          /\ NoteOverlap(s)
          /\ snap' = [snap EXCEPT ![r] = CrlEntries]
          /\ Goto(r, IF crl.state = "torn" THEN "failed"
                     ELSE IF s \in crl.listed THEN "refused" ELSE "truncate")
    BY <1>1 DEF LoadCrl
  <2>2. /\ r \notin Revoking /\ Revoking' \subseteq Revoking \cup {r}
        /\ UNCHANGED <<conf, crl, revocations, acked>> /\ Openssl
    BY <1>0, <1>1 DEF LoadCrl, Revoking, tableVars
  <2>3. r \in Revoking' => snap'[r] = crl.listed /\ crl.state # "torn" /\ s \notin crl.listed
    BY <1>0, <2>1 DEF Revoking, Goto, CrlEntries
  <2> QED
    BY <1>0, <2>1, <2>2, <2>3, StartRevoking
<1>2. CASE SearchRevocation(r)
  <2>1. PICK s \in served :
          /\ target' = [target EXCEPT ![r] = s]
          /\ NoteOverlap(s)
          /\ Goto(r, IF Revoked(s) THEN "refused" ELSE "insert")
    BY <1>2 DEF SearchRevocation
  <2>2. /\ r \notin Revoking /\ Revoking' \subseteq Revoking \cup {r}
        /\ UNCHANGED <<conf, crl, revocations, acked>> /\ ~Openssl
    BY <1>0, <1>2 DEF SearchRevocation, Revoking, tableVars
  <2>3. r \in Revoking' => ~Revoked(s)
    BY <1>0, <2>1 DEF Revoking, Goto
  <2> QED
    BY <1>0, <2>1, <2>2, <2>3, StartRevoking
<1>3. CASE Truncate(r)
  <2>1. /\ pc[r] = "truncate" /\ pc'[r] = "write" /\ crl'.state = "torn" /\ Openssl
        /\ UNCHANGED <<conf, target, snap, contended, acked>>
    BY <1>0, <1>3 DEF Truncate, Goto, localVars, ghostVars, PhaseInv, RevokePhase
  <2>2. Revoking' = Revoking
    BY <1>0, <2>1 DEF Revoking
  <2>3. OverlapNoted' /\ ListTakenOver'
    BY <2>1, <2>2 DEF Confirmed, OverlapNoted, ListTakenOver, Openssl
  <2>4. RevokedIsListed'
    BY <2>1 DEF Confirmed, RevokedIsListed, StaysListed, RevokedOnce, Openssl
  <2> QED
    BY <2>3, <2>4 DEF Confirmed
<1>4. CASE WriteCrl(r)
  <2>1. /\ pc[r] = "write" /\ pc'[r] = "done" /\ r \in Revoking /\ Openssl
        /\ acked' = [acked EXCEPT ![target[r]] = @ + 1]
        /\ UNCHANGED <<conf, target, snap, contended>>
        /\ crl'.listed = snap[r] \cup {target[r]}
    BY <1>0, <1>4 DEF WriteCrl, Confirm, Goto, localVars, Revoking, PhaseInv, RevokePhase
  <2>2. Revoking' = Revoking \ {r} /\ target[r] \in Serials
    BY <1>0, <2>1 DEF Revoking, PhaseInv, RevokePhase
  <2> QED
    BY <2>1, <2>2, EndRevoking
<1>5. CASE InsertRevocation(r)
  <2>1. /\ pc[r] = "insert" /\ pc'[r] = "done" /\ r \in Revoking /\ ~Openssl
        /\ acked' = [acked EXCEPT ![target[r]] = @ + 1]
        /\ UNCHANGED <<conf, target, snap, contended>>
        /\ revocations' = Append(revocations, target[r])
    BY <1>0, <1>5 DEF InsertRevocation, Confirm, Goto, localVars, Revoking, PhaseInv, RevokePhase
  <2>2. Revoking' = Revoking \ {r} /\ target[r] \in Serials
    BY <1>0, <2>1 DEF Revoking, PhaseInv, RevokePhase
  <2>3. \A x : Revoked(x) \/ x = target[r] => Revoked(x)'
    <3>1. revocations \in Seq(served)
      BY DEF TypeOK
    <3>2. /\ Len(revocations') = Len(revocations) + 1
          /\ revocations'[Len(revocations) + 1] = target[r]
          /\ \A i \in 1 .. Len(revocations) : revocations'[i] = revocations[i]
      BY <2>1, <3>1
    <3>3. /\ DOMAIN revocations = 1 .. Len(revocations)
          /\ DOMAIN revocations' = 1 .. Len(revocations) + 1
          /\ Len(revocations) \in Nat
      BY <2>1, <3>1
    <3> QED
      BY <3>2, <3>3 DEF Revoked, Range
  <2> QED
    BY <2>1, <2>2, <2>3, EndRevoking
<1> QED
  BY <1>1, <1>2, <1>3, <1>4, <1>5 DEF Revoke

\* Every step keeps what is confirmed.
LEMMA ConfirmedStep == TypeOK /\ PhaseInv /\ Confirmed /\ [Next]_vars => Confirmed'
<1> SUFFICES ASSUME TypeOK, PhaseInv, Confirmed, [Next]_vars PROVE Confirmed'
  OBVIOUS
<1> USE DEF Confirmed, OverlapNoted, ListTakenOver, RevokedIsListed, StaysListed,
            RevokedOnce, Openssl, Revoked
<1>1. ASSUME NEW e \in Enrollers, Enroll(e) PROVE Confirmed'
  BY <1>1, EnrollFrame, EnrollKeepsRevoking
<1>2. ASSUME NEW c \in Callers, Stop(c) PROVE Confirmed'
  BY <1>2, StopFrame DEF tableVars, localVars, ghostVars
<1>3. CASE UNCHANGED vars
  BY <1>3 DEF vars, tableVars, localVars, ghostVars, Revoking
<1> QED
  BY <1>1, <1>2, <1>3, RevokeConfirmed DEF Next

-----------------------------------------------------------------------------
(* Theorems                                                                *)

\* In every reachable state, with any number of calls that overlap or stop: both
\* stores are consistent, and a confirmed revocation is listed unless overlapped.
THEOREM LocalCaInvariant == Spec => [](LocalCaInv /\ RevokedIsListed)
<1>1. LocalCaInv /\ RevokedIsListed /\ [Next]_vars => (LocalCaInv /\ RevokedIsListed)'
  BY TypeStep, PhaseStep, TornStep, RecordedStep, RowsReferStep, RequestsStep, ConfirmedStep
     DEF LocalCaInv, Confirmed
<1> QED
  BY LocalCaInit, <1>1, PTL DEF Spec

\* A revocation the server confirmed stays on record, and is confirmed once.
THEOREM RevocationsStay == Spec => []RevokedIsListed
BY LocalCaInvariant, PTL

\* What is true of each call of Sign is true of all certificates of openssl.
LEMMA SignedByOpenssl ==
    ASSUME TypeOK, PhaseInv, [Next]_vars, Openssl, NEW e \in signed'
    PROVE  /\ conf' = conf
           /\ \/ e \in signed /\ cert'[e] = cert[e]
              \/ \E c \in Csrs : CsrPasses(c) /\ cert'[e] = [end |-> CertEnd, csr |-> c]
<1>1. ASSUME NEW d \in Enrollers, Enroll(d)
      PROVE  /\ conf' = conf
             /\ \/ e \in signed /\ cert'[e] = cert[e]
                \/ \E c \in Csrs : CsrPasses(c) /\ cert'[e] = [end |-> CertEnd, csr |-> c]
  <2>1. conf' = conf
    BY <1>1, EnrollFrame
  <2>2. CASE EnrollOpenssl(d)
    <3>1. PICK c \in Csrs :
            IF CsrPasses(c) THEN Sign(d, c, CertEnd) ELSE UNCHANGED <<cert, signed>>
      BY <2>2 DEF EnrollOpenssl
    <3>2. CASE CsrPasses(c)
      <4>1. CertEnd \in Int
        BY CertEndType DEF TypeOK
      <4>2. /\ signed' = signed \cup {d} /\ cert'[d] = [end |-> CertEnd, csr |-> c]
            /\ \A x \in Enrollers : x # d => cert'[x] = cert[x]
        BY <3>1, <3>2, <4>1, SignType
      <4> QED
        BY <2>1, <3>2, <4>2 DEF TypeOK, Serials
    <3>3. CASE ~CsrPasses(c)
      BY <2>1, <3>1, <3>3
    <3> QED
      BY <3>2, <3>3
  <2>3. CASE ~EnrollOpenssl(d)
    <3>1. pc[d] # "sign"
      BY DEF PhaseInv, EnrollPhase
    <3>2. UNCHANGED <<cert, signed>>
      BY <1>1, <2>3, <3>1 DEF Enroll, StoreFile, Bundle, EnrollXca, ImportItem, ImportRequest,
         SignXca, CertInsert, localVars, ghostVars
    <3> QED
      BY <2>1, <3>2
  <2> QED
    BY <2>2, <2>3
<1>2. ASSUME NEW r \in Revokers, Revoke(r)
      PROVE  conf' = conf /\ e \in signed /\ cert'[e] = cert[e]
  BY <1>2, RevokeFrame
<1>3. ASSUME NEW c \in Callers, Stop(c)
      PROVE  conf' = conf /\ e \in signed /\ cert'[e] = cert[e]
  BY <1>3, StopFrame DEF localVars, ghostVars
<1>4. CASE UNCHANGED vars
  BY <1>4 DEF vars, localVars, ghostVars
<1> QED
  BY <1>1, <1>2, <1>3, <1>4 DEF Next

\* Without the deprecated options, what openssl signs is within its lists.
THEOREM PolicyHolds == Spec => []IssuedWithinPolicy
<1>1. Init => IssuedWithinPolicy
  BY DEF Init, IssuedWithinPolicy
<1>2. LocalCaInv /\ IssuedWithinPolicy /\ [Next]_vars => IssuedWithinPolicy'
  <2> SUFFICES ASSUME LocalCaInv, IssuedWithinPolicy, [Next]_vars, NEW e \in signed',
                      Openssl', conf'.whitelist = Absent, conf'.blacklist = Absent
               PROVE  CsrWithinPolicy(cert[e].csr)'
    BY DEF IssuedWithinPolicy, Openssl
  <2>1. conf' = conf
    <3>1. \A d \in Enrollers : Enroll(d) => conf' = conf
      BY EnrollFrame DEF LocalCaInv
    <3> QED
      BY <3>1, RevokeFrame, StopFrame DEF LocalCaInv, Next, vars
  <2>2. Openssl /\ conf \in Confs
    BY <2>1 DEF Openssl, LocalCaInv, TypeOK
  <2>3. \/ e \in signed /\ cert'[e] = cert[e]
        \/ \E c \in Csrs : CsrPasses(c) /\ cert'[e] = [end |-> CertEnd, csr |-> c]
    BY <2>2, SignedByOpenssl DEF LocalCaInv
  <2>4. PICK c : cert'[e].csr = c /\ CsrWithinPolicy(c)
    <3>1. CASE e \in signed /\ cert'[e] = cert[e]
      BY <2>1, <2>2, <3>1 DEF IssuedWithinPolicy
    <3>2. ASSUME NEW c \in Csrs, CsrPasses(c), cert'[e] = [end |-> CertEnd, csr |-> c]
          PROVE  cert'[e].csr = c /\ CsrWithinPolicy(c)
      BY <2>1, <2>2, <3>2, PassedIsAllowed
    <3> QED
      BY <2>3, <3>1, <3>2
  <2> QED
    BY <2>1, <2>4, SMTT(30) DEF CsrWithinPolicy, WithinPolicy, ReadNames, ReadSans
<1> QED
  BY <1>1, <1>2, LocalCaInvariant, PTL DEF Spec

\* An adjusted certificate ends within its chain, to the day.
THEOREM ValidityHolds == Spec => []ValidWithinChain
<1>1. Init => ValidWithinChain
  BY DEF Init, ValidWithinChain
<1>2. LocalCaInv /\ ValidWithinChain /\ [Next]_vars => ValidWithinChain'
  <2> SUFFICES ASSUME LocalCaInv, ValidWithinChain, [Next]_vars, NEW e \in signed',
                      Openssl', conf'.adjust,
                      (\A i \in DOMAIN conf.chain : Days(conf.chain[i]) # 0)',
                      NEW i \in DOMAIN conf'.chain
               PROVE  cert'[e].end < conf'.chain[i] + 2
    BY DEF ValidWithinChain, Openssl
  <2>1. conf' = conf
    <3>1. \A d \in Enrollers : Enroll(d) => conf' = conf
      BY EnrollFrame DEF LocalCaInv
    <3> QED
      BY <3>1, RevokeFrame, StopFrame DEF LocalCaInv, Next, vars
  <2>2. /\ Openssl /\ conf \in Confs /\ conf.adjust
        /\ \A k \in DOMAIN conf.chain : Days(conf.chain[k]) # 0
    BY <2>1 DEF Openssl, LocalCaInv, TypeOK, Days
  <2>3. \/ e \in signed /\ cert'[e] = cert[e]
        \/ \E c \in Csrs : CsrPasses(c) /\ cert'[e] = [end |-> CertEnd, csr |-> c]
    BY <2>2, SignedByOpenssl DEF LocalCaInv
  <2>4. CASE e \in signed /\ cert'[e] = cert[e]
    BY <2>1, <2>2, <2>4 DEF ValidWithinChain
  <2>5. ASSUME NEW c, cert'[e] = [end |-> CertEnd, csr |-> c]
        PROVE  cert'[e].end < conf'.chain[i] + 2
    <3>1. CertEnd < conf.chain[i] + 2
      BY <2>1, <2>2, CertEndWithin
    <3> QED
      BY <2>1, <2>5, <3>1
  <2> QED
    BY <2>3, <2>4, <2>5
<1> QED
  BY <1>1, <1>2, LocalCaInvariant, PTL DEF Spec

-----------------------------------------------------------------------------
(* The handlers that forward to a remote CA: an order and its call         *)

Safe(o) == OrderFits(o) /\ CallFits(o)

\* What no step changes for an order: its requests but for decisions of the CA.
RequestsStay ==
    /\ received' \in Seq([order : Orders, state : {"pending", "issued", "rejected"}])
    /\ DOMAIN received \subseteq DOMAIN received'
    /\ \A i \in DOMAIN received :
          /\ received'[i].order = received[i].order
          /\ received[i].state # "pending" => received'[i] = received[i]

Untouched(o) ==
    /\ RequestsStay /\ Of(o)' = Of(o)
    /\ call'[o] = call[o] /\ row'[o] = row[o] /\ order'[o] = order[o]
    /\ lost'[o] = lost[o] /\ (o \in excused' <=> o \in excused)
    /\ handler' = handler

-----------------------------------------------------------------------------
LEMMA OfDomain ==
    ASSUME RemoteType, NEW o \in Orders
    PROVE  /\ Of(o) \subseteq DOMAIN received /\ Of(o) \subseteq Nat \ {0}
           /\ IsFiniteSet(Of(o)) /\ 0 \notin Of(o) /\ CaPage \notin Of(o)
<1>1. DOMAIN received = 1 .. Len(received) /\ Len(received) \in Nat
  BY DEF RemoteType
<1>2. IsFiniteSet(1 .. Len(received))
  BY <1>1, FS_Interval
<1> QED
  BY <1>1, <1>2, FS_Subset DEF Of, CaPage

LEMMA RequestTypes ==
    ASSUME RemoteType
    PROVE  /\ Len(received) \in Nat /\ DOMAIN received = 1 .. Len(received)
           /\ \A i \in DOMAIN received :
                 /\ received[i] \in [order : Orders, state : {"pending", "issued", "rejected"}]
                 /\ received[i].order \in Orders
                 /\ received[i].state \in {"pending", "issued", "rejected"}
<1> DEFINE R == [order : Orders, state : {"pending", "issued", "rejected"}]
<1>1. received \in Seq(R)
  BY DEF RemoteType
<1>2. Len(received) \in Nat /\ DOMAIN received = 1 .. Len(received)
      /\ \A i \in DOMAIN received : received[i] \in R
  <2> HIDE DEF R
  <2> QED
    BY <1>1
<1> QED
  BY <1>2

\* what a decision leaves of a request
LEMMA DecidedStays ==
    ASSUME RequestsStay, NEW i
    PROVE  /\ Issued(i) => Issued(i)'
           /\ Rejected(i) => Rejected(i)'
BY DEF RequestsStay, Issued, Rejected

LEMMA OthersSafe ==
    ASSUME NEW o \in Orders, Safe(o), Untouched(o), RemoteType
    PROVE  Safe(o)'
<1>1. OrderFits(o)'
  BY DecidedStays DEF Safe, OrderFits, Untouched
<1>2. AnswerFits(o, call[o].answer) => AnswerFits(o, call[o].answer)'
  <2>1. \A j : Rejected(j) => Rejected(j)'
    BY DecidedStays DEF Untouched
  <2>2. \A j : Issued(j) => Issued(j)'
    BY DecidedStays DEF Untouched
  <2> QED
    BY <2>1, <2>2 DEF AnswerFits, Untouched
<1>3. CallFits(o)'
  <2>1. \A j : Issued(j) => Issued(j)'
    BY DecidedStays DEF Untouched
  <2>2. call'[o] = call[o] /\ handler' = handler /\ Of(o)' = Of(o) /\ lost'[o] = lost[o]
        /\ order'[o] = order[o] /\ row'[o] = row[o] /\ (o \in excused' <=> o \in excused)
    BY DEF Untouched
  <2> QED
    BY <1>2, <2>1, <2>2 DEF Safe, CallFits
<1> QED
  BY <1>1, <1>3 DEF Safe

-----------------------------------------------------------------------------
(* Steps of one call that change nothing but its locals                    *)

KeySteps == {"key", "register", "account"}

Quiet(o) ==
    /\ UNCHANGED <<handler, dbVars, caVars, lost>>
    /\ \A p \in Orders \ {o} : call'[p] = call[p]
    /\ excused' \in {excused, excused \cup {o}}

\* what such a step has to leave behind
Kept(o) ==
    /\ Quiet(o) /\ Safe(o)'
    /\ call' \in [Orders -> EnrollCall] /\ call'[o].at \notin KeySteps \cup {"ended"}

LEMMA QuietOthers ==
    ASSUME RemoteType, NEW o \in Orders, Quiet(o)
    PROVE  \A p \in Orders \ {o} : Untouched(p)
<1>1. RequestsStay
  BY DEF RemoteType, RequestsStay, Quiet, caVars
<1> QED
  BY <1>1 DEF Quiet, Untouched, dbVars, caVars, Of

\* the call returns something that fits, and what it shows excuses the rest
Fitting(o, shown, a) ==
    LET i == call[o].id IN
    /\ a.kind = "certificate" => a.cert = i /\ Issued(i) /\ a.poll \in {0, i}
    /\ a.kind = "waiting" => \/ a.poll = i /\ i # 0
                             \/ handler = "certifier" /\ a.poll = CaPage
    /\ a.kind \in {"failed", "raised", "unstorable"} => a.poll = 0
    /\ a.kind = "failed" /\ handler = "certifier" =>
          lost[o] > 0 \/ \A j \in Of(o) : Rejected(j)
    /\ \/ Missed(shown, a) \/ i = 0 \/ Rejected(i)
       \/ a.kind = "certificate"
       \/ a.kind = "waiting" /\ a.poll = i

LEMMA Answered ==
    ASSUME RemoteType, NEW o \in Orders, Safe(o), NEW shown, NEW a \in Answers,
           call[o].at \in Following \cup {"failed"},
           Answer(o, shown, a), UNCHANGED handler, Fitting(o, shown, a)
    PROVE  Kept(o)
<1>1. /\ UNCHANGED <<handler, row, order, received, revoked, lost>>
      /\ call' = [call EXCEPT ![o].at = "store", ![o].tries = 0, ![o].answer = a]
      /\ excused' = IF Missed(shown, a) THEN excused \cup {o} ELSE excused
  BY DEF Answer, Return, Excuse, dbVars, caVars
<1>2. call' \in [Orders -> EnrollCall]
  <2> DEFINE c == [call[o] EXCEPT !.at = "store", !.tries = 0, !.answer = a]
  <2>1. call[o] \in EnrollCall
    BY DEF RemoteType
  <2>2. c \in EnrollCall
    BY <2>1 DEF EnrollCall
  <2>3. call' = [call EXCEPT ![o] = c]
    BY <1>1
  <2> HIDE DEF c
  <2> QED
    BY <2>2, <2>3 DEF RemoteType
<1>3. /\ call'[o].at = "store" /\ call'[o].answer = a /\ call'[o].id = call[o].id
      /\ \A p \in Orders \ {o} : call'[p] = call[p]
  BY <1>1 DEF RemoteType, EnrollCall
<1>4. Quiet(o)
  BY <1>1, <1>3 DEF Quiet, dbVars, caVars
<1>5. OrderFits(o)'
  BY <1>1 DEF Safe, OrderFits, Of, Issued
<1>6. AnswerFits(o, a)'
  BY <1>1, <1>3 DEF Fitting, AnswerFits, Of, Issued, Rejected
<1>7. CallFits(o)'
  <2>1. /\ call'[o].at \notin BeforeReply \cup Following
        /\ call'[o].at \notin {"ended", "fetch", "job"} \cup KeySteps
        /\ call'[o].at \notin {"nonce", "approve", "status"}
    BY <1>3 DEF BeforeReply, Following, KeySteps
  <2>2. Of(o)' = Of(o) /\ (o \in excused => o \in excused')
    BY <1>1 DEF Of
  <2>3. call[o].at # "ended"
    BY DEF Following
  <2> QED
    BY <1>1, <1>3, <1>6, <2>1, <2>2, <2>3 DEF Safe, CallFits, KeySteps
<1> QED
  BY <1>2, <1>3, <1>4, <1>5, <1>7 DEF Kept, Safe, KeySteps

\* the call goes on
LEMMA WentOn ==
    ASSUME RemoteType, NEW o \in Orders, Safe(o), UNCHANGED handler,
           call[o].at \in Following, NEW next, Step(o, next) \/ Again(o, next),
           \/ next \in {"wait", "reply"}
           \/ next = "submit" /\ handler = "openxpki"
           \/ next \in {"nonce", "approve", "status"}
              /\ handler \in {"dogtag", "dogtag_approve"}
           \/ next = "job" /\ handler = "nclm"
           \/ next = "fetch" /\ Issued(call[o].id)
    PROVE  Kept(o)
<1>1. UNCHANGED <<handler, row, order, received, revoked, lost, excused>>
  BY DEF Step, Again, dbVars, caVars
<1>2. /\ call' \in [Orders -> EnrollCall]
      /\ call'[o].at = next /\ call'[o].id = call[o].id
      /\ \A p \in Orders \ {o} : call'[p] = call[p]
  <2>1. next \in Following \cup {"submit"}
    BY DEF Following
  <2>2. \/ call' = [call EXCEPT ![o].at = next, ![o].tries = 0]
        \/ call' = [call EXCEPT ![o].at = next, ![o].round = @ + 1]
    BY DEF Step, Again, Move
  <2>3. next \in BeforeReply \cup Following \cup {"store", "ended"}
    BY <2>1 DEF BeforeReply
  <2>4. call[o] \in EnrollCall /\ call \in [Orders -> EnrollCall]
    BY DEF RemoteType
  <2>5. PICK c \in EnrollCall : /\ call' = [call EXCEPT ![o] = c]
                                /\ c.at = next /\ c.id = call[o].id
    <3>1. CASE call' = [call EXCEPT ![o].at = next, ![o].tries = 0]
      <4> DEFINE c == [call[o] EXCEPT !.at = next, !.tries = 0]
      <4>1. c \in EnrollCall /\ c.at = next /\ c.id = call[o].id
        BY <2>3, <2>4 DEF EnrollCall
      <4> QED
        BY <3>1, <4>1
    <3>2. CASE call' = [call EXCEPT ![o].at = next, ![o].round = @ + 1]
      <4> DEFINE n == call[o].round + 1
                 c == [call[o] EXCEPT !.at = next, !.round = n]
      <4>0. n \in Nat
        BY <2>4 DEF EnrollCall
      <4> HIDE DEF n
      <4>1. c \in EnrollCall /\ c.at = next /\ c.id = call[o].id
        BY <2>3, <2>4, <4>0 DEF EnrollCall
      <4> USE DEF n
      <4> QED
        BY <3>2, <4>1
    <3> QED
      BY <2>2, <3>1, <3>2
  <2> QED
    BY <2>4, <2>5
<1>3. Quiet(o)
  BY <1>1, <1>2 DEF Quiet, dbVars, caVars
<1>4. OrderFits(o)'
  BY <1>1 DEF Safe, OrderFits, Of, Issued
<1>5. CallFits(o)'
  <2>1. Of(o)' = Of(o) /\ (\A i : Issued(i)' = Issued(i))
    BY <1>1 DEF Of, Issued
  <2>2. call[o].at # "ended" /\ call[o].id # 0
    BY DEF Following, Safe, CallFits
  <2>3. next \notin KeySteps \cup {"store", "ended"}
    BY DEF KeySteps
  <2> QED
    BY <1>1, <1>2, <2>1, <2>2, <2>3 DEF Safe, CallFits, KeySteps, BeforeReply
<1> QED
  BY <1>2, <1>3, <1>4, <1>5 DEF Kept, Safe, KeySteps

-----------------------------------------------------------------------------
(* The handlers whose first answer ends the call                           *)

Replies(i) == {Certificate(i, 0), Certificate(i, i), Unstorable, Failed, Raised,
               Waiting(i)}

\* The answer of each handler: a certificate only of an issued request, and
\* an identifier or an excuse unless the CA rejected it.
LEMMA DirectAnswered ==
    ASSUME handler \in Direct, NEW i, NEW chain \in BOOLEAN,
           NEW shown \in {"issued", "leaf", "bare", "pending", "rejected"},
           NEW a \in DirectAnswers(i, shown, chain)
    PROVE  /\ a \in Replies(i)
           /\ a.kind = "certificate" => shown \in {"issued", "leaf"}
           /\ \/ Missed(shown, a) \/ shown = "rejected"
              \/ a.kind = "certificate" \/ a = Waiting(i)
<1> USE DEF Replies, Certificate, Unstorable, Failed, Raised, Waiting, Missed, Followers
<1>1. CASE handler = "acme"
  BY <1>1 DEF DirectAnswers, AcmeAnswers
<1>2. CASE handler = "asa"
  BY <1>2 DEF DirectAnswers, AsaAnswers
<1>3. CASE handler = "cmp"
  BY <1>3 DEF DirectAnswers, CmpAnswers
<1>4. CASE handler = "digicert"
  BY <1>4 DEF DirectAnswers, DigicertAnswers
<1>5. CASE handler = "ejbca"
  BY <1>5 DEF DirectAnswers, EjbcaAnswers
<1>6. CASE handler = "entrust"
  BY <1>6 DEF DirectAnswers, EntrustAnswers
<1>7. CASE handler = "est"
  BY <1>7 DEF DirectAnswers, EstAnswers
<1>8. CASE handler = "freeipa"
  BY <1>8 DEF DirectAnswers, FreeipaAnswers
<1>9. CASE handler = "mscertsrv"
  BY <1>9 DEF DirectAnswers, MscertsrvAnswers
<1>10. CASE handler = "msicpr"
  BY <1>10 DEF DirectAnswers, MsicprAnswers, MsicprBundle
<1>11. CASE handler = "pkcs7_soap"
  BY <1>11 DEF DirectAnswers, Pkcs7SoapAnswers
<1>12. CASE handler = "vault"
  BY <1>12 DEF DirectAnswers, VaultAnswers
<1> QED
  BY <1>1, <1>2, <1>3, <1>4, <1>5, <1>6, <1>7, <1>8, <1>9, <1>10, <1>11, <1>12 DEF Direct

\* what the CA shows of a request tells its state
LEMMA ShownState ==
    ASSUME RemoteType, NEW o \in Orders, Safe(o), call[o].at \in Following
    PROVE  LET i == call[o].id
               state == received[i].state
           IN  /\ i \in DOMAIN received /\ i \in Nat /\ i # 0
               /\ state \in {"pending", "issued", "rejected"}
               /\ \A shown \in Shown(o) :
                     /\ shown \in {"issued", "leaf", "bare", "pending", "rejected"}
                     /\ shown \in {"issued", "leaf", "bare"} => Issued(i)
                     /\ shown = "rejected" => Rejected(i)
                     /\ shown = "pending" => state = "pending"
<1>1. call[o].id \in Of(o) /\ call[o].id # 0
  BY DEF Safe, CallFits
<1>2. call[o].id \in DOMAIN received /\ call[o].id \in Nat
  BY <1>1, OfDomain
<1>3. received[call[o].id].state \in {"pending", "issued", "rejected"}
  BY <1>2, RequestTypes
<1> QED
  BY <1>1, <1>2, <1>3 DEF Shown, Issued, Rejected

LEMMA ReplyTypes ==
    ASSUME NEW i \in Nat
    PROVE  Replies(i) \subseteq Answers
BY DEF Replies, Answers, Certificate, Unstorable, Failed, Raised, Waiting

\* whatever a handler other than certifier answers
LEMMA ReplyFits ==
    ASSUME RemoteType, NEW o \in Orders, Safe(o), call[o].at \in Following, NEW shown,
           NEW a \in Replies(call[o].id), Answer(o, shown, a), UNCHANGED handler,
           a.kind = "certificate" => Issued(call[o].id),
           handler = "certifier" /\ a.kind = "failed" => Rejected(call[o].id),
           \/ Missed(shown, a) \/ Rejected(call[o].id)
           \/ a.kind = "certificate" \/ a = Waiting(call[o].id)
    PROVE  Kept(o)
<1>1. call[o].id \in Nat /\ call[o].id # 0
  BY ShownState
<1>2. a \in Answers
  BY <1>1, ReplyTypes
<1>3. a.kind = "failed" /\ handler = "certifier" =>
          lost[o] > 0 \/ \A j \in Of(o) : Rejected(j)
  <2>1. lost[o] \in Nat /\ (lost[o] = 0 => Of(o) \subseteq {call[o].id})
    BY DEF RemoteType, Safe, CallFits
  <2> QED
    BY <2>1
<1>4. Fitting(o, shown, a)
  BY <1>1, <1>3 DEF Fitting, Replies, Certificate, Unstorable, Failed, Raised, Waiting
<1> QED
  BY <1>2, <1>4, Answered

LEMMA DirectKept ==
    ASSUME RemoteType, NEW o \in Orders, Safe(o), AnswerDirect(o), UNCHANGED handler
    PROVE  Kept(o)
<1>1. At(o, "reply") /\ handler \in Direct /\ call[o].at \in Following
  BY DEF AnswerDirect, At, Following
<1>2. PICK shown \in Shown(o) : \E a \in DirectAnswers(call[o].id, shown, call[o].chain) :
          Answer(o, shown, a)
  BY DEF AnswerDirect
<1>3. PICK a \in DirectAnswers(call[o].id, shown, call[o].chain) : Answer(o, shown, a)
  BY <1>2
<1>4. call[o].chain \in BOOLEAN
  BY DEF RemoteType, EnrollCall
<1>5. /\ a \in Replies(call[o].id)
      /\ a.kind = "certificate" => shown \in {"issued", "leaf"}
      /\ \/ Missed(shown, a) \/ shown = "rejected"
         \/ a.kind = "certificate" \/ a = Waiting(call[o].id)
  BY <1>1, <1>4, ShownState, DirectAnswered
<1> QED
  BY <1>1, <1>3, <1>5, ShownState, ReplyFits DEF Direct

-----------------------------------------------------------------------------
(* The handlers that ask again                                             *)

LEMMA CertifierKept ==
    ASSUME RemoteType, NEW o \in Orders, Safe(o), UNCHANGED handler,
           CertifierReply(o) \/ CertifierWait(o)
    PROVE  Kept(o)
<1> USE DEF Replies, Certificate, Unstorable, Failed, Waiting, Missed
<1>1. At(o, "reply") \/ At(o, "wait")
  BY DEF CertifierReply, CertifierWait
<1>2. call[o].at \in Following /\ handler = "certifier"
  BY <1>1 DEF At, Following, CertifierReply, CertifierWait
<1> DEFINE i == call[o].id
<1>3. CASE \E shown \in Shown(o) :
              \/ shown = "issued" /\ Answer(o, shown, Certificate(i, 0))
              \/ shown = "leaf" /\ Answer(o, shown, Unstorable)
              \/ shown = "rejected" /\ Answer(o, shown, Failed)
  <2>1. PICK shown \in Shown(o) :
              \/ shown = "issued" /\ Answer(o, shown, Certificate(i, 0))
              \/ shown = "leaf" /\ Answer(o, shown, Unstorable)
              \/ shown = "rejected" /\ Answer(o, shown, Failed)
    BY <1>3
  <2>2. CASE shown = "issued" /\ Answer(o, shown, Certificate(i, 0))
    BY <1>2, <2>1, <2>2, ShownState, ReplyFits
  <2>3. CASE shown = "leaf" /\ Answer(o, shown, Unstorable)
    <3>1. Unstorable \in Replies(i)
      OBVIOUS
    <3> QED
      BY <1>2, <2>3, <3>1, ReplyFits
  <2>4. CASE shown = "rejected" /\ Answer(o, shown, Failed)
    BY <1>2, <2>1, <2>4, ShownState, ReplyFits
  <2> QED
    BY <2>1, <2>2, <2>3, <2>4
<1>4. CASE Answer(o, "pending", Waiting(i))
  <2>1. Waiting(i) \in Replies(i)
    OBVIOUS
  <2> QED
    BY <1>2, <1>4, <2>1, ReplyFits
<1>5. CASE Step(o, "wait") \/ Again(o, "wait")
  BY <1>2, <1>5, WentOn
<1>6. CASE CertifierReply(o)
  <2>1. PICK shown \in Shown(o) :
          CASE shown = "issued"   -> Answer(o, shown, Certificate(i, 0))
            [] shown = "leaf"     -> Answer(o, shown, Unstorable)
            [] shown = "rejected" -> Answer(o, shown, Failed)
            [] OTHER              -> Step(o, "wait")
    BY <1>6 DEF CertifierReply
  <2>2. shown \in {"issued", "leaf", "bare", "pending", "rejected"}
    BY <1>2, ShownState
  <2> QED
    BY <1>3, <1>5, <2>1, <2>2
<1>7. CASE CertifierWait(o)
  <2>1. \/ Answer(o, "pending", Waiting(i)) \/ Again(o, "wait")
        \/ \E shown \in Shown(o) \ {"pending", "bare"} :
              Answer(o, shown, CASE shown = "issued" -> Certificate(i, 0)
                                 [] shown = "leaf"   -> Unstorable
                                 [] OTHER            -> Failed)
    BY <1>7 DEF CertifierWait
  <2>2. ASSUME NEW shown \in Shown(o) \ {"pending", "bare"},
               Answer(o, shown, CASE shown = "issued" -> Certificate(i, 0)
                                  [] shown = "leaf"   -> Unstorable
                                  [] OTHER            -> Failed)
        PROVE  Kept(o)
    <3>1. shown \in {"issued", "leaf", "rejected"}
      BY <1>2, ShownState
    <3> QED
      BY <1>3, <2>2, <3>1
  <2> QED
    BY <1>4, <1>5, <2>1, <2>2
<1> QED
  BY <1>6, <1>7

LEMMA DogtagKept ==
    ASSUME RemoteType, NEW o \in Orders, Safe(o), UNCHANGED handler,
           DogtagReply(o) \/ DogtagNonce(o) \/ DogtagStatus(o) \/ DogtagFetch(o)
    PROVE  Kept(o)
<1> USE DEF Replies, Certificate, Unstorable, Failed, Raised, Waiting, Missed
<1> DEFINE i == call[o].id
           state == received[i].state
<1>1. call[o].at \in Following
  BY DEF At, Following, DogtagReply, DogtagNonce, DogtagStatus, DogtagFetch
<1>2. handler \in {"dogtag", "dogtag_approve"}
  BY DEF At, DogtagReply, DogtagNonce, DogtagStatus, DogtagFetch, Safe, CallFits
<1>3. /\ i \in DOMAIN received /\ i \in Nat
      /\ state \in {"pending", "issued", "rejected"}
  BY <1>1, ShownState
<1>4. \A shown, a : /\ a \in {Unstorable, Failed, Raised} /\ shown \in {"unread", "bare"}
                    /\ Answer(o, shown, a)
                    => Kept(o)
  <2>1. \A a : a \in {Unstorable, Failed, Raised} =>
                 a \in Replies(i) /\ a.kind # "certificate"
    OBVIOUS
  <2> HIDE DEF Unstorable, Failed, Raised, Replies
  <2> QED
    BY <1>1, <1>2, <2>1, ReplyFits
<1>5. CASE DogtagReply(o)
  <2>1. CASE state = "issued"
    BY <1>1, <1>2, <1>5, <2>1, WentOn DEF DogtagReply
  <2>2. CASE state = "rejected"
    <3>1. Answer(o, state, Failed) /\ Rejected(i) /\ Failed \in Replies(i)
      BY <1>3, <1>5, <2>2 DEF DogtagReply, Rejected
    <3> QED
      BY <1>1, <1>2, <3>1, ReplyFits
  <2>3. CASE state = "pending"
    <3>1. CASE handler = "dogtag"
      <4>1. Answer(o, state, Waiting(i)) /\ Waiting(i) \in Replies(i)
        BY <1>5, <2>3, <3>1 DEF DogtagReply
      <4> QED
        BY <1>1, <1>2, <4>1, ReplyFits
    <3>2. CASE handler # "dogtag"
      <4>1. Step(o, "nonce")
        BY <1>5, <2>3, <3>2 DEF DogtagReply
      <4> QED
        BY <1>1, <1>2, <4>1, WentOn
    <3> QED
      BY <3>1, <3>2
  <2> QED
    BY <1>3, <2>1, <2>2, <2>3
<1>6. CASE DogtagNonce(o)
  BY <1>1, <1>2, <1>4, <1>6, WentOn DEF DogtagNonce
<1>7. CASE DogtagStatus(o)
  <2>1. CASE state = "issued" /\ Step(o, "fetch")
    BY <1>1, <1>2, <1>3, <2>1, WentOn DEF Issued
  <2> QED
    BY <1>4, <1>7, <2>1 DEF DogtagStatus
<1>8. CASE DogtagFetch(o)
  <2>1. Issued(i)
    BY <1>8 DEF DogtagFetch, At, Safe, CallFits
  <2>2. CASE Answer(o, "issued", Certificate(i, 0))
    <3>1. Certificate(i, 0) \in Replies(i) /\ Certificate(i, 0).kind = "certificate"
      OBVIOUS
    <3> QED
      BY <1>1, <1>2, <2>1, <2>2, <3>1, ReplyFits
  <2> QED
    BY <1>4, <1>8, <2>2 DEF DogtagFetch
<1> QED
  BY <1>5, <1>6, <1>7, <1>8

LEMMA NclmKept ==
    ASSUME RemoteType, NEW o \in Orders, Safe(o), UNCHANGED handler,
           NclmReply(o) \/ NclmJob(o) \/ NclmFetch(o)
    PROVE  Kept(o)
<1> USE DEF Replies, Certificate, Unstorable, Failed, Raised, Waiting, Missed
<1> DEFINE i == call[o].id
           state == received[i].state
<1>1. call[o].at \in Following /\ handler = "nclm"
  BY DEF At, Following, NclmReply, NclmJob, NclmFetch, Safe, CallFits
<1>2. /\ i \in DOMAIN received /\ i \in Nat
      /\ state \in {"pending", "issued", "rejected"}
  BY <1>1, ShownState
<1>3. \A shown, a : /\ a \in {Unstorable, Failed, Raised, Waiting(i)}
                    /\ shown \in {"unread", "bare"} /\ Answer(o, shown, a)
                    => Kept(o)
  <2>1. \A a : a \in {Unstorable, Failed, Raised, Waiting(i)} =>
                 a \in Replies(i) /\ a.kind # "certificate"
    OBVIOUS
  <2> HIDE DEF Unstorable, Failed, Raised, Replies
  <2> QED
    BY <1>1, <2>1, ReplyFits
<1>4. CASE NclmReply(o)
  BY <1>1, <1>4, WentOn DEF NclmReply
<1>5. CASE NclmJob(o)
  <2>1. CASE Answer(o, state, Failed) /\ state \in {"pending", "rejected"}
    <3>1. /\ Failed \in Replies(i) /\ Failed.kind # "certificate"
          /\ Missed(state, Failed) \/ Rejected(i)
      BY <1>1, <1>2, <2>1 DEF Followers, Rejected
    <3> QED
      BY <1>1, <2>1, <3>1, ReplyFits
  <2>2. CASE Again(o, "job")
    BY <1>1, <2>2, WentOn
  <2>3. CASE state = "issued" /\ Step(o, "fetch")
    BY <1>1, <1>2, <2>3, WentOn DEF Issued
  <2>4. \/ Answer(o, IF state = "issued" THEN "unread" ELSE state, Failed)
        \/ Again(o, "job") \/ Answer(o, "unread", Raised)
        \/ state = "issued" /\ Step(o, "fetch")
        \/ state = "issued" /\ Answer(o, "bare", Failed)
    BY <1>5 DEF NclmJob
  <2> QED
    BY <1>2, <1>3, <2>1, <2>2, <2>3, <2>4
<1>6. CASE NclmFetch(o)
  <2>1. Issued(i)
    BY <1>6 DEF NclmFetch, At, Safe, CallFits
  <2>2. CASE Answer(o, "issued", Certificate(i, i))
    <3>1. Certificate(i, i) \in Replies(i) /\ Certificate(i, i).kind = "certificate"
      OBVIOUS
    <3> QED
      BY <1>1, <2>1, <2>2, <3>1, ReplyFits
  <2> QED
    BY <1>3, <1>6, <2>2 DEF NclmFetch
<1> QED
  BY <1>4, <1>5, <1>6

LEMMA OpenxpkiKept ==
    ASSUME RemoteType, NEW o \in Orders, Safe(o), UNCHANGED handler, OpenxpkiReply(o)
    PROVE  Kept(o)
<1> USE DEF Replies, Certificate, Unstorable, Failed, Raised, Waiting, Missed
<1> DEFINE i == call[o].id
<1>1. call[o].at \in Following /\ handler = "openxpki"
  BY DEF At, Following, OpenxpkiReply
<1>2. PICK shown \in Shown(o) :
          CASE shown = "issued" -> Answer(o, shown, Certificate(i, i))
            [] shown \in {"leaf", "bare"} ->
                  \E answer \in {Waiting(i), Raised} : Answer(o, shown, answer)
            [] shown = "pending" -> IF call[o].round = Rounds
                                    THEN Answer(o, shown, Waiting(i))
                                    ELSE Again(o, "submit")
            [] OTHER -> Answer(o, shown, IF call[o].round > 0 THEN Waiting(i)
                                                              ELSE Failed)
  BY DEF OpenxpkiReply
<1>3. /\ shown \in {"issued", "leaf", "bare", "pending", "rejected"}
      /\ shown = "issued" => Issued(i)
      /\ shown = "rejected" => Rejected(i)
  BY <1>1, ShownState
<1>4. \/ shown = "issued" /\ Answer(o, shown, Certificate(i, i))
      \/ shown = "rejected" /\ Answer(o, shown, Failed)
      \/ shown \in {"leaf", "bare"} /\ Answer(o, shown, Raised)
      \/ Answer(o, shown, Waiting(i))
      \/ Again(o, "submit")
  BY <1>2, <1>3
<1>5. CASE shown = "issued" /\ Answer(o, shown, Certificate(i, i))
  <2>1. Certificate(i, i) \in Replies(i) /\ Certificate(i, i).kind = "certificate"
    OBVIOUS
  <2> QED
    BY <1>1, <1>3, <1>5, <2>1, ReplyFits
<1>6. CASE shown = "rejected" /\ Answer(o, shown, Failed)
  <2>1. Failed \in Replies(i) /\ Failed.kind # "certificate"
    OBVIOUS
  <2> QED
    BY <1>1, <1>3, <1>6, <2>1, ReplyFits
<1>7. CASE shown \in {"leaf", "bare"} /\ Answer(o, shown, Raised)
  <2>1. Raised \in Replies(i) /\ Raised.kind # "certificate" /\ Missed(shown, Raised)
    OBVIOUS
  <2> QED
    BY <1>1, <1>7, <2>1, ReplyFits
<1>8. CASE Answer(o, shown, Waiting(i))
  <2>1. Waiting(i) \in Replies(i) /\ Waiting(i).kind # "certificate"
    OBVIOUS
  <2> QED
    BY <1>1, <1>8, <2>1, ReplyFits
<1>9. CASE Again(o, "submit")
  BY <1>1, <1>9, WentOn
<1> QED
  BY <1>4, <1>5, <1>6, <1>7, <1>8, <1>9

-----------------------------------------------------------------------------
(* Before a request is at the CA                                           *)

\* A call that has not got an answer changes its place only.
LEMMA EarlyStep ==
    ASSUME RemoteType, NEW o \in Orders, Safe(o), call[o].at \in BeforeReply,
           NEW c \in EnrollCall, call' = [call EXCEPT ![o] = c], c.id = call[o].id,
           c.at \in BeforeReply, c.at \in KeySteps => handler = "acme",
           UNCHANGED <<handler, dbVars, caVars, lost, excused>>
    PROVE  /\ Quiet(o) /\ Safe(o)' /\ call' \in [Orders -> EnrollCall]
           /\ call'[o] = c /\ c.at # "ended"
<1>1. /\ UNCHANGED <<handler, row, order, received, revoked, lost, excused>>
      /\ call'[o] = c /\ \A p \in Orders \ {o} : call'[p] = call[p]
      /\ call' \in [Orders -> EnrollCall]
  BY DEF dbVars, caVars, RemoteType
<1>2. Quiet(o)
  BY <1>1 DEF Quiet, dbVars, caVars
<1>3. OrderFits(o)'
  BY <1>1 DEF Safe, OrderFits, Of, Issued
<1>4. CallFits(o)'
  <2>1. Of(o)' = Of(o)
    BY <1>1 DEF Of
  <2>2. /\ call[o].at # "ended" /\ c.at \notin Following \cup {"store", "ended", "fetch", "job"}
        /\ c.at \notin {"nonce", "approve", "status"}
    BY DEF BeforeReply, Following
  <2> QED
    BY <1>1, <2>1, <2>2 DEF Safe, CallFits, KeySteps
<1> QED
  BY <1>1, <1>2, <1>3, <1>4 DEF Safe, BeforeReply

LEMMA FailKept ==
    ASSUME RemoteType, NEW o \in Orders, Safe(o), UNCHANGED handler, Fail(o)
    PROVE  Kept(o)
<1> USE DEF Certificate, Unstorable, Failed, Raised, Waiting, Missed
<1> DEFINE i == call[o].id
<1>1. call[o].at = "failed" /\ i \in Nat
  BY DEF Fail, At, RemoteType, EnrollCall
<1>2. PICK a \in FailAnswers(o) : Answer(o, "none", a)
  BY DEF Fail
<1>3. handler # "openxpki" => i = 0
  BY <1>1 DEF BeforeReply, Safe, CallFits
<1>4. \/ a \in {Failed, Raised} /\ i = 0
      \/ a = Raised
      \/ a = Waiting(i) /\ i # 0
      \/ a = Waiting(CaPage) /\ handler = "certifier"
  BY <1>2, <1>3 DEF FailAnswers
<1>5. a \in Answers
  BY <1>1, <1>4 DEF Answers
<1>6. handler = "certifier" => lost[o] > 0 \/ \A j \in Of(o) : Rejected(j)
  <2>1. lost[o] \in Nat /\ (lost[o] = 0 => Of(o) \subseteq {i}) /\ 0 \notin Of(o)
    BY OfDomain DEF RemoteType, Safe, CallFits
  <2> QED
    BY <1>3, <2>1
<1>7. Fitting(o, "none", a)
  BY <1>3, <1>4, <1>6 DEF Fitting
<1> QED
  BY <1>1, <1>2, <1>5, <1>7, Answered

LEMMA PrepareKept ==
    ASSUME RemoteType, NEW o \in Orders, Safe(o), UNCHANGED handler, Prepare(o)
    PROVE  Kept(o)
<1>1. PICK chain \in BOOLEAN : \E step \in Ready(chain) :
           call' = IF step = "raised"
                   THEN [call EXCEPT ![o].at = "store", ![o].answer = Raised]
                   ELSE [call EXCEPT ![o].at = step, ![o].chain = chain]
  BY DEF Prepare
<1>2. PICK step \in Ready(chain) :
           call' = IF step = "raised"
                   THEN [call EXCEPT ![o].at = "store", ![o].answer = Raised]
                   ELSE [call EXCEPT ![o].at = step, ![o].chain = chain]
  BY <1>1
<1>3. /\ call[o].at = "idle" /\ handler # "acme"
      /\ UNCHANGED <<dbVars, caVars, lost, excused>>
  BY DEF Prepare, At
<1>4. call[o] \in EnrollCall
  BY DEF RemoteType
<1>5. /\ step \in {"raised", "failed", "submit"}
      /\ step = "raised" => handler # "openxpki" /\ handler # "certifier"
  BY DEF Ready, Stops, Breaks, Submits, CertifierReady, DogtagReady, EntrustReady,
      NclmReady, EjbcaReady, DigicertReady, FreeipaReady, AsaReady, MscertsrvReady, EstReady
<1>6. CASE step # "raised"
  <2> DEFINE c == [call[o] EXCEPT !.at = step, !.chain = chain]
  <2>1. c \in EnrollCall /\ c.id = call[o].id /\ c.at = step
    BY <1>4, <1>5, <1>6 DEF EnrollCall, BeforeReply
  <2>2. call' = [call EXCEPT ![o] = c]
    BY <1>2, <1>6
  <2>3. step \in BeforeReply /\ step \notin KeySteps /\ call[o].at \in BeforeReply
    BY <1>3, <1>5, <1>6 DEF BeforeReply, KeySteps
  <2> HIDE DEF c
  <2>4. Quiet(o) /\ Safe(o)' /\ call' \in [Orders -> EnrollCall] /\ call'[o] = c
    BY <1>3, <2>1, <2>2, <2>3, EarlyStep
  <2> QED
    BY <1>5, <1>6, <2>1, <2>3, <2>4 DEF Kept
<1>7. CASE step = "raised"
  <2> DEFINE d == [call[o] EXCEPT !.at = "store", !.answer = Raised]
  <2>0. d \in EnrollCall /\ d.id = call[o].id /\ d.at = "store" /\ d.answer = Raised
    BY <1>4 DEF EnrollCall, Raised, Answers
  <2>1. PICK c \in EnrollCall : /\ c.id = call[o].id /\ c.at = "store" /\ c.answer = Raised
                                /\ call' = [call EXCEPT ![o] = c]
    BY <1>2, <1>7, <2>0
  <2>3. /\ UNCHANGED <<handler, row, order, received, revoked, lost, excused>>
        /\ call'[o] = c /\ \A p \in Orders \ {o} : call'[p] = call[p]
        /\ call' \in [Orders -> EnrollCall]
    BY <1>3, <2>1 DEF dbVars, caVars, RemoteType
  <2>4. Quiet(o)
    BY <2>3 DEF Quiet, dbVars, caVars
  <2>5. OrderFits(o)'
    BY <2>3 DEF Safe, OrderFits, Of, Issued
  <2>6. call[o].id = 0
    BY <1>3, <1>5, <1>7 DEF Safe, CallFits, BeforeReply
  <2>7. AnswerFits(o, c.answer)'
    BY <1>5, <1>7, <2>1, <2>3, <2>6 DEF AnswerFits, Raised
  <2>8. CallFits(o)'
    <3>1. Of(o)' = Of(o)
      BY <2>3 DEF Of
    <3>2. c.at \notin BeforeReply \cup Following \cup {"ended", "fetch", "job"}
                       \cup {"key", "register", "account", "nonce", "approve", "status"}
      BY <2>1 DEF BeforeReply, Following
    <3> QED
      BY <1>3, <2>1, <2>3, <2>7, <3>1, <3>2 DEF Safe, CallFits
  <2> QED
    BY <2>1, <2>3, <2>4, <2>5, <2>8 DEF Kept, Safe, KeySteps
<1> QED
  BY <1>6, <1>7

-----------------------------------------------------------------------------
(* The key of acme                                                         *)

LEMMA KeyQuiet ==
    ASSUME KeyFits, NEW o \in Orders, UNCHANGED <<keyFile, raced>>,
           \A p \in Orders \ {o} : call'[p] = call[p], call'[o].at \notin KeySteps
    PROVE  KeyFits'
BY DEF KeyFits, KeySteps, At

\* what a step that handles the key keeps, of the call and of the key file
LEMMA KeyKept ==
    ASSUME RemoteType, NEW o \in Orders, Safe(o), KeyFits, UNCHANGED handler,
           LoadKey(o) \/ WriteKey(o) \/ Register(o) \/ NoteAccount(o), 0 \notin Orders
    PROVE  /\ Quiet(o) /\ Safe(o)' /\ call' \in [Orders -> EnrollCall]
           /\ call'[o].at # "ended" /\ KeyFits'
           /\ keyFile' \in [key : Orders \cup {0}, account : Orders \cup {0}]
           /\ raced' \in BOOLEAN
<1> DEFINE b == call[o]
<1>1. /\ b.at \in BeforeReply /\ handler = "acme" /\ b \in EnrollCall
      /\ call \in [Orders -> EnrollCall]
  BY DEF LoadKey, WriteKey, Register, NoteAccount, At, BeforeReply, Safe, CallFits, RemoteType
<1>2. UNCHANGED <<dbVars, caVars, lost, excused>>
  BY DEF LoadKey, WriteKey, Register, NoteAccount
<1>3. /\ b.id \in Nat /\ b.key \in Orders \cup {0} /\ b.account \in Orders \cup {0}
      /\ keyFile \in [key : Orders \cup {0}, account : Orders \cup {0}]
      /\ keyFile.key \in Orders \cup {0} /\ keyFile.account \in Orders \cup {0}
      /\ raced \in BOOLEAN
  BY <1>1 DEF EnrollCall, RemoteType
\* the call after the step, and what the step did to the key file
<1>4. \E c \in EnrollCall :
          /\ call' = [call EXCEPT ![o] = c] /\ c.id = b.id
          /\ c.at \in {"key", "register", "account", "submit", "failed"}
          /\ \/ /\ c.at = "key" /\ c.key = o /\ keyFile.key = 0
                /\ UNCHANGED <<keyFile, raced>>
             \/ /\ c.at = "register" /\ c.key = keyFile.key /\ keyFile.key # 0
                /\ UNCHANGED <<keyFile, raced>>
             \/ /\ b.at = "key" /\ c.at = "register" /\ c.key = b.key
                /\ keyFile' = [key |-> o, account |-> 0]
                /\ raced' = (raced \/ \E p \in Orders \ {o} : At(p, "key"))
             \/ b.at = "key" /\ c.at = "register" /\ UNCHANGED keyFile /\ raced' = TRUE
             \/ c.at \in {"failed", "submit"} /\ UNCHANGED <<keyFile, raced>>
             \/ /\ b.at = "register" /\ c.at = "account" /\ c.key = b.key
                /\ c.account = b.key /\ UNCHANGED <<keyFile, raced>>
             \/ /\ b.at = "account" /\ c.at = "submit" /\ keyFile.key # 0
                /\ keyFile' = [keyFile EXCEPT !.account = b.account] /\ UNCHANGED raced
  <2>1. CASE LoadKey(o)
    <3>1. CASE keyFile.key # 0
      <4> DEFINE c == [b EXCEPT !.at = "register", !.key = keyFile.key,
                                !.account = keyFile.account]
      <4>1. c \in EnrollCall /\ c.id = b.id /\ c.at = "register" /\ c.key = keyFile.key
        BY <1>1, <1>3 DEF EnrollCall, BeforeReply
      <4>2. call' = [call EXCEPT ![o] = c] /\ UNCHANGED <<keyFile, raced>>
        BY <2>1, <3>1 DEF LoadKey
      <4> HIDE DEF c, b
      <4> QED
        BY <3>1, <4>1, <4>2
    <3>2. CASE keyFile.key = 0
      <4> DEFINE c == [b EXCEPT !.at = "key", !.key = o]
      <4>1. c \in EnrollCall /\ c.id = b.id /\ c.at = "key" /\ c.key = o
        BY <1>1 DEF EnrollCall, BeforeReply
      <4>2. call' = [call EXCEPT ![o] = c] /\ UNCHANGED <<keyFile, raced>>
        BY <2>1, <3>2 DEF LoadKey
      <4> HIDE DEF c, b
      <4> QED
        BY <3>2, <4>1, <4>2
    <3> QED
      BY <3>1, <3>2
  <2>2. ASSUME NEW step \in {"register", "failed", "submit"}, Move(o, step)
        PROVE  \E c \in EnrollCall : /\ call' = [call EXCEPT ![o] = c]
                                     /\ c = [b EXCEPT !.at = step, !.tries = 0]
                                     /\ c.id = b.id /\ c.at = step /\ c.key = b.key
    <3> DEFINE c == [b EXCEPT !.at = step, !.tries = 0]
    <3>1. c \in EnrollCall /\ c.id = b.id /\ c.at = step /\ c.key = b.key
      BY <1>1 DEF EnrollCall, BeforeReply
    <3>2. call' = [call EXCEPT ![o] = c]
      BY <2>2 DEF Move
    <3> HIDE DEF c
    <3>3. c = [b EXCEPT !.at = step, !.tries = 0]
      BY DEF c
    <3> QED
      BY <3>1, <3>2, <3>3
  <2>3. CASE WriteKey(o)
    <3>1. b.at = "key" /\ Move(o, "register")
      BY <2>3 DEF WriteKey, At
    <3>2. PICK c \in EnrollCall : /\ call' = [call EXCEPT ![o] = c]
                                  /\ c.id = b.id /\ c.at = "register" /\ c.key = b.key
      BY <2>2, <3>1
    <3>3. \/ /\ keyFile' = [key |-> o, account |-> 0]
             /\ raced' = (raced \/ \E p \in Orders \ {o} : At(p, "key"))
          \/ keyFile' = keyFile /\ raced' = TRUE
      BY <2>3 DEF WriteKey
    <3> HIDE DEF b
    <3> QED
      BY <3>1, <3>2, <3>3
  <2>4. CASE Register(o)
    <3>1. CASE \E step \in {"failed", "submit"} : Move(o, step)
      <4>1. PICK step \in {"failed", "submit"} : Move(o, step)
        BY <3>1
      <4>2. PICK c \in EnrollCall : /\ call' = [call EXCEPT ![o] = c]
                                    /\ c.id = b.id /\ c.at = step
        BY <2>2, <4>1
      <4>3. UNCHANGED <<keyFile, raced>>
        BY <2>4 DEF Register
      <4> HIDE DEF b
      <4> QED
        BY <4>2, <4>3
    <3>2. CASE call' = [call EXCEPT ![o].at = "account", ![o].account = call[o].key]
      <4> DEFINE c == [b EXCEPT !.at = "account", !.account = b.key]
      <4>1. /\ c \in EnrollCall /\ c.id = b.id /\ c.at = "account" /\ c.key = b.key
            /\ c.account = b.key
        BY <1>1, <1>3 DEF EnrollCall, BeforeReply
      <4>2. call' = [call EXCEPT ![o] = c] /\ UNCHANGED <<keyFile, raced>>
        BY <2>4, <3>2 DEF Register
      <4>3. b.at = "register"
        BY <2>4 DEF Register, At
      <4> HIDE DEF c, b
      <4> QED
        BY <4>1, <4>2, <4>3
    <3> QED
      BY <2>4, <3>1, <3>2 DEF Register
  <2>5. CASE NoteAccount(o)
    <3>1. PICK c \in EnrollCall : /\ call' = [call EXCEPT ![o] = c]
                                  /\ c.id = b.id /\ c.at = "submit"
      BY <2>2, <2>5 DEF NoteAccount
    <3>2. /\ b.at = "account" /\ UNCHANGED raced
          /\ \/ keyFile.key # 0 /\ keyFile' = [keyFile EXCEPT !.account = b.account]
             \/ UNCHANGED keyFile
      BY <2>5 DEF NoteAccount, At
    <3> HIDE DEF b
    <3> QED
      BY <3>1, <3>2
  <2> QED
    BY <2>1, <2>3, <2>4, <2>5
<1>5. PICK c \in EnrollCall :
          /\ call' = [call EXCEPT ![o] = c] /\ c.id = b.id
          /\ c.at \in {"key", "register", "account", "submit", "failed"}
          /\ \/ /\ c.at = "key" /\ c.key = o /\ keyFile.key = 0
                /\ UNCHANGED <<keyFile, raced>>
             \/ /\ c.at = "register" /\ c.key = keyFile.key /\ keyFile.key # 0
                /\ UNCHANGED <<keyFile, raced>>
             \/ /\ b.at = "key" /\ c.at = "register" /\ c.key = b.key
                /\ keyFile' = [key |-> o, account |-> 0]
                /\ raced' = (raced \/ \E p \in Orders \ {o} : At(p, "key"))
             \/ b.at = "key" /\ c.at = "register" /\ UNCHANGED keyFile /\ raced' = TRUE
             \/ c.at \in {"failed", "submit"} /\ UNCHANGED <<keyFile, raced>>
             \/ /\ b.at = "register" /\ c.at = "account" /\ c.key = b.key
                /\ c.account = b.key /\ UNCHANGED <<keyFile, raced>>
             \/ /\ b.at = "account" /\ c.at = "submit" /\ keyFile.key # 0
                /\ keyFile' = [keyFile EXCEPT !.account = b.account] /\ UNCHANGED raced
  BY <1>4
<1>6. c.at \in BeforeReply
  BY <1>5 DEF BeforeReply
<1>7. /\ Quiet(o) /\ Safe(o)' /\ call' \in [Orders -> EnrollCall]
      /\ call'[o] = c /\ c.at # "ended"
  BY <1>1, <1>2, <1>5, <1>6, EarlyStep
<1>8. /\ keyFile' \in [key : Orders \cup {0}, account : Orders \cup {0}]
      /\ raced' \in BOOLEAN
  <2>1. \/ keyFile' = keyFile \/ keyFile' = [key |-> o, account |-> 0]
        \/ keyFile' = [keyFile EXCEPT !.account = b.account]
    BY <1>5
  <2>2. /\ [key |-> o, account |-> 0] \in [key : Orders \cup {0}, account : Orders \cup {0}]
        /\ [keyFile EXCEPT !.account = b.account]
              \in [key : Orders \cup {0}, account : Orders \cup {0}]
    BY <1>3
  <2>3. raced' \in BOOLEAN
    <3>1. \/ raced' = raced \/ raced' = TRUE
          \/ raced' = (raced \/ \E p \in Orders \ {o} : At(p, "key"))
      BY <1>5
    <3> QED
      BY <1>3, <3>1
  <2> QED
    BY <1>3, <2>1, <2>2, <2>3
<1>9. KeyFits'
  <2>0. \A p \in Orders \ {o} : call'[p] = call[p]
    BY <1>7 DEF Quiet
  <2>1. CASE raced \/ raced'
    <3>1. \/ raced' = raced \/ raced' = TRUE
          \/ raced' = (raced \/ \E p \in Orders \ {o} : At(p, "key"))
      BY <1>5
    <3>2. raced'
      BY <2>1, <3>1
    <3> QED
      BY <3>2 DEF KeyFits
  <2>2. CASE ~raced /\ ~raced'
    <3>1. /\ keyFile.account \in {0, keyFile.key}
          /\ \A p \in Orders :
                /\ At(p, "key") => call[p].key = p /\ keyFile.key = 0
                /\ call[p].at \in {"register", "account"} =>
                      call[p].key = keyFile.key /\ keyFile.key # 0
                /\ At(p, "account") => call[p].account = call[p].key
      BY <2>2 DEF KeyFits
    <3>2. CASE /\ b.at = "key" /\ c.at = "register" /\ c.key = b.key
               /\ keyFile' = [key |-> o, account |-> 0]
      <4>1. \A p \in Orders \ {o} : call[p].at \notin KeySteps
        BY <1>5, <2>2, <3>1, <3>2 DEF At, KeySteps
      <4>2. keyFile'.key = o /\ keyFile'.account = 0 /\ o # 0 /\ c.key = o
        BY <3>1, <3>2 DEF At
      <4> QED
        BY <1>7, <2>0, <3>2, <4>1, <4>2 DEF KeyFits, At, KeySteps
    <3>3. CASE /\ b.at = "account" /\ c.at = "submit"
               /\ keyFile' = [keyFile EXCEPT !.account = b.account]
      <4>1. keyFile'.key = keyFile.key /\ keyFile'.account = keyFile.key
        BY <1>3, <3>1, <3>3 DEF At
      <4> QED
        BY <1>7, <2>0, <3>1, <3>3, <4>1 DEF KeyFits, At
    <3>4. CASE UNCHANGED keyFile
      <4>1. \A p \in Orders \ {o} : At(p, "key")' = At(p, "key") /\ At(p, "account")' = At(p, "account")
        BY <2>0 DEF At
      <4>2. /\ c.at = "key" => c.key = o /\ keyFile.key = 0
            /\ c.at \in {"register", "account"} => c.key = keyFile.key /\ keyFile.key # 0
            /\ c.at = "account" => c.account = c.key
        BY <1>5, <2>2, <3>1, <3>4 DEF At
      <4> QED
        BY <1>7, <2>0, <3>1, <3>4, <4>1, <4>2 DEF KeyFits, At
    <3> QED
      BY <1>5, <3>2, <3>3, <3>4
  <2> QED
    BY <2>1, <2>2
<1> QED
  BY <1>7, <1>8, <1>9

-----------------------------------------------------------------------------
(* The submission                                                          *)

\* the CA has one request more
LEMMA OneMore ==
    ASSUME RemoteType, NEW o \in Orders, NEW state \in {"pending", "issued", "rejected"},
           received' = Append(received, [order |-> o, state |-> state])
    PROVE  LET i == Len(received) + 1 IN
           /\ RequestsStay /\ i \in Nat \ {0}
           /\ Of(o)' = Of(o) \cup {i}
           /\ \A p \in Orders \ {o} : Of(p)' = Of(p)
           /\ Cardinality(Of(o)) \in Nat
           /\ Cardinality(Of(o)') = Cardinality(Of(o)) + 1
<1> DEFINE R == [order : Orders, state : {"pending", "issued", "rejected"}]
           r == [order |-> o, state |-> state]
           n == Len(received)
<1>1. received \in Seq(R) /\ r \in R /\ received' = Append(received, r) /\ r.order = o
  BY DEF RemoteType
<1>2. /\ received' \in Seq(R) /\ n \in Nat
      /\ DOMAIN received = 1 .. n /\ DOMAIN received' = 1 .. n + 1
      /\ received'[n + 1] = r /\ \A i \in 1 .. n : received'[i] = received[i]
  <2> HIDE DEF R, r
  <2> QED
    BY <1>1
<1>3. RequestsStay
  <2>1. received' \in Seq([order : Orders, state : {"pending", "issued", "rejected"}])
    BY <1>2
  <2> HIDE DEF R, r, n
  <2> QED
    BY <1>2, <2>1 DEF RequestsStay
<1>4. \A p \in Orders : Of(p)' = {i \in 1 .. n + 1 : received'[i].order = p}
  BY <1>2 DEF Of
<1>5. \A p \in Orders : Of(p) = {i \in 1 .. n : received[i].order = p}
  BY <1>2 DEF Of
<1>6. Of(o)' = Of(o) \cup {n + 1} /\ \A p \in Orders \ {o} : Of(p)' = Of(p)
  <2>1. /\ 1 .. n + 1 = (1 .. n) \cup {n + 1}
        /\ \A i \in 1 .. n : received'[i].order = received[i].order
        /\ received'[n + 1].order = o
    BY <1>1, <1>2
  <2> HIDE DEF r, R, n
  <2>2. \A p \in Orders : Of(p)' = Of(p) \cup {i \in {n + 1} : o = p}
    <3> SUFFICES ASSUME NEW p \in Orders
                 PROVE  Of(p)' = Of(p) \cup {i \in {n + 1} : o = p}
      OBVIOUS
    <3> DEFINE D == 1 .. n
               m == n + 1
    <3>1. /\ Of(p)' = {i \in D \cup {m} : received'[i].order = p}
          /\ Of(p) = {i \in D : received[i].order = p}
          /\ \A i \in D : received'[i].order = received[i].order
          /\ received'[m].order = o
      BY <1>4, <1>5, <2>1
    <3> HIDE DEF D, m
    <3>2. Of(p)' = Of(p) \cup {i \in {m} : o = p}
      BY <3>1
    <3> QED
      BY <3>2 DEF m
  <2> QED
    BY <2>2
<1>7. n + 1 \notin Of(o) /\ IsFiniteSet(Of(o))
  BY <1>2, <1>5, OfDomain
<1>8. /\ Cardinality(Of(o)) \in Nat
      /\ Cardinality(Of(o) \cup {n + 1}) = Cardinality(Of(o)) + 1
  BY <1>7, FS_CardinalityType, FS_AddElement
<1> QED
  BY <1>2, <1>3, <1>6, <1>8

LEMMA RepeatType ==
    ASSUME RemoteType, NEW o \in Orders, At(o, "submit")
    PROVE  /\ Repeat(o, call[o]) \in EnrollCall
           /\ Repeat(o, call[o]).at \in {"submit", "failed"}
           /\ Repeat(o, call[o]).id = call[o].id
<1> DEFINE b == call[o]
           n == b.tries + 1
<1>1. b \in EnrollCall /\ b.at = "submit"
  BY DEF RemoteType, At
<1>2. n \in Nat
  BY <1>1 DEF EnrollCall
<1> HIDE DEF n
<1>3. [b EXCEPT !.tries = n] \in EnrollCall /\ [b EXCEPT !.at = "failed", !.tries = 0] \in EnrollCall
  BY <1>1, <1>2 DEF EnrollCall, BeforeReply
<1>4. Repeat(o, b) \in {[b EXCEPT !.tries = n], [b EXCEPT !.at = "failed", !.tries = 0]}
  BY DEF Repeat, n
<1> QED
  BY <1>1, <1>3, <1>4 DEF EnrollCall

\* what a step of a call leaves behind that may reach the CA or the rows
Advanced(o) ==
    /\ \A p \in Orders \ {o} : Untouched(p)
    /\ Safe(o)'
    /\ call' \in [Orders -> EnrollCall] /\ call'[o].at \notin KeySteps
    /\ received' \in Seq([order : Orders, state : {"pending", "issued", "rejected"}])
    /\ lost' \in [Orders -> Nat] /\ excused' \subseteq Orders
    /\ UNCHANGED <<handler, revoked>>

LEMMA SubmitKept ==
    ASSUME RemoteType, NEW o \in Orders, Safe(o), UNCHANGED handler, Submit(o)
    PROVE  /\ Advanced(o) /\ call'[o].at # "ended" /\ UNCHANGED <<row, order>>
<1> DEFINE b == call[o]
           i == IF Same(o) # {} THEN CHOOSE j \in Same(o) : TRUE ELSE Len(received) + 1
<1>1. b \in EnrollCall /\ b.at = "submit" /\ At(o, "submit") /\ b.id \in Nat
  BY DEF Submit, RemoteType, At, EnrollCall
<1>2. UNCHANGED <<row, order>>
  BY DEF Submit, dbVars
<1>3. CASE /\ call' = [call EXCEPT ![o] = Repeat(o, @)] \/ Move(o, "failed")
           /\ UNCHANGED <<caVars, lost, excused>>
  <2>1. PICK c \in EnrollCall : /\ call' = [call EXCEPT ![o] = c]
                                /\ c.at \in {"submit", "failed"} /\ c.id = b.id
    <3>1. CASE call' = [call EXCEPT ![o] = Repeat(o, @)]
      BY <1>1, <3>1, RepeatType
    <3>2. CASE Move(o, "failed")
      <4> DEFINE d == [b EXCEPT !.at = "failed", !.tries = 0]
      <4>1. d \in EnrollCall /\ d.at = "failed" /\ d.id = b.id
        BY <1>1 DEF EnrollCall, BeforeReply
      <4>2. call' = [call EXCEPT ![o] = d]
        BY <3>2 DEF Move
      <4> HIDE DEF d, b
      <4> QED
        BY <4>1, <4>2
    <3> QED
      BY <1>3, <3>1, <3>2
  <2>2. b.at \in BeforeReply /\ c.at \in BeforeReply /\ c.at \notin KeySteps
    BY <1>1, <2>1 DEF BeforeReply, KeySteps
  <2>3. UNCHANGED <<dbVars, caVars, lost, excused>>
    BY <1>2, <1>3 DEF dbVars
  <2>4. /\ Quiet(o) /\ Safe(o)' /\ call' \in [Orders -> EnrollCall]
        /\ call'[o] = c /\ c.at # "ended"
    BY <2>1, <2>2, <2>3, EarlyStep
  <2>5. \A p \in Orders \ {o} : Untouched(p)
    BY <2>4, QuietOthers
  <2> QED
    BY <1>2, <2>2, <2>3, <2>4, <2>5 DEF Advanced, RemoteType, caVars
<1>4. ASSUME NEW state \in {"pending", "issued", "rejected"}, NEW answered \in BOOLEAN,
             /\ received' = IF Same(o) # {} THEN received
                            ELSE Append(received, [order |-> o, state |-> state])
             /\ IF answered
                THEN /\ call' = [call EXCEPT ![o].at = "reply",
                                             ![o].tries = 0, ![o].id = i]
                     /\ UNCHANGED <<lost, excused>>
                ELSE /\ call' = [call EXCEPT ![o] = Repeat(o, @)]
                     /\ lost' = [lost EXCEPT ![o] = @ + 1]
                     /\ Excuse(o)
             /\ UNCHANGED revoked
      PROVE  Advanced(o) /\ call'[o].at # "ended"
  \* how the requests of the order grow
  <2>0. Same(o) = IF handler = "openxpki" THEN Of(o) ELSE {}
    BY RequestTypes DEF Same, Of
  <2>1. /\ RequestsStay /\ i \in Of(o)' /\ i \in Nat \ {0} /\ Of(o) \subseteq Of(o)'
        /\ \A p \in Orders \ {o} : Of(p)' = Of(p)
        /\ Cardinality(Of(o)') \in Nat
    <3>1. CASE Same(o) # {}
      <4>1. i \in Of(o) /\ received' = received
        BY <1>4, <2>0, <3>1
      <4>2. RequestsStay /\ (\A p \in Orders : Of(p)' = Of(p))
        BY <4>1 DEF RequestsStay, RemoteType, Of
      <4>3. Cardinality(Of(o)) \in Nat /\ Of(o) \subseteq Nat \ {0}
        BY OfDomain, FS_CardinalityType
      <4>4. Of(o)' = Of(o)
        BY <4>2
      <4> HIDE DEF i
      <4> QED
        BY <4>1, <4>2, <4>3, <4>4
    <3>2. CASE Same(o) = {}
      <4>1. received' = Append(received, [order |-> o, state |-> state])
        BY <1>4, <3>2
      <4>2. i = Len(received) + 1
        BY <3>2
      <4> HIDE DEF i
      <4>3. /\ RequestsStay /\ i \in Nat \ {0} /\ Of(o)' = Of(o) \cup {i}
            /\ \A p \in Orders \ {o} : Of(p)' = Of(p)
            /\ Cardinality(Of(o)) \in Nat
            /\ Cardinality(Of(o)') = Cardinality(Of(o)) + 1
        BY <4>1, <4>2, OneMore
      <4>4. Cardinality(Of(o)') \in Nat
        BY <4>3
      <4> QED
        BY <4>3, <4>4
    <3> QED
      BY <3>1, <3>2
  <2>2. /\ b.id \in {0} \cup Of(o)
        /\ handler # "openxpki" => b.id = 0
        /\ lost[o] \in Nat /\ (lost[o] = 0 => Of(o) \subseteq {b.id})
        /\ lost[o] > 0 => o \in excused
        /\ Cardinality(Of(o)) <= lost[o] + IF b.id = 0 THEN 0 ELSE 1
        /\ order[o] # "invalid" /\ (handler # "certifier" => row[o].cert = 0)
    BY <1>1 DEF Safe, CallFits, BeforeReply, RemoteType
  <2>3. /\ lost[o] = 0 => Of(o)' = {i}
        /\ Cardinality(Of(o)') <= lost[o] + 1
    <3>1. CASE Same(o) # {}
      <4>1. i \in Of(o) /\ Of(o)' = Of(o)
        BY <1>4, <2>0, <3>1 DEF Of
      <4>2. Cardinality(Of(o)) \in Nat /\ Cardinality(Of(o)') = Cardinality(Of(o))
        BY <2>1, <4>1
      <4> HIDE DEF i, b
      <4>3. lost[o] = 0 => Of(o)' = {i}
        BY <2>2, <4>1
      <4>4. Cardinality(Of(o)') <= lost[o] + 1
        BY <2>2, <4>2
      <4> QED
        BY <4>3, <4>4
    <3>2. CASE Same(o) = {}
      <4>1. b.id = 0
        BY <2>0, <2>2, <3>2
      <4>2. received' = Append(received, [order |-> o, state |-> state])
        BY <1>4, <3>2
      <4>3. i = Len(received) + 1
        BY <3>2
      <4>4. 0 \notin Of(o)
        BY OfDomain
      <4> HIDE DEF i, b
      <4>5. Of(o)' = Of(o) \cup {i} /\ Cardinality(Of(o)') = Cardinality(Of(o)) + 1
            /\ Cardinality(Of(o)) \in Nat
        BY <4>2, <4>3, OneMore
      <4> QED
        BY <2>2, <4>1, <4>4, <4>5
    <3> QED
      BY <3>1, <3>2
  \* the call after the step
  <2>4. PICK c \in EnrollCall :
            /\ call' = [call EXCEPT ![o] = c]
            /\ answered => c.at = "reply" /\ c.id = i
            /\ ~answered => c.at \in {"submit", "failed"} /\ c.id = b.id
    <3>1. CASE answered
      <4> DEFINE d == [b EXCEPT !.at = "reply", !.tries = 0, !.id = i]
      <4> HIDE DEF i
      <4>1. d \in EnrollCall /\ d.at = "reply" /\ d.id = i
        BY <1>1, <2>1 DEF EnrollCall, Following
      <4>2. call' = [call EXCEPT ![o] = d]
        BY <1>4, <3>1 DEF i
      <4> HIDE DEF d, b
      <4> QED
        BY <3>1, <4>1, <4>2
    <3>2. CASE ~answered
      <4>1. call' = [call EXCEPT ![o] = Repeat(o, b)]
        BY <1>4, <3>2
      <4> HIDE DEF i
      <4> QED
        BY <1>1, <3>2, <4>1, RepeatType
    <3> QED
      BY <3>1, <3>2
  <2>5. /\ call'[o] = c /\ \A p \in Orders \ {o} : call'[p] = call[p]
        /\ call' \in [Orders -> EnrollCall]
    BY <2>4 DEF RemoteType
  <2>6. /\ lost' \in [Orders -> Nat] /\ excused' \subseteq Orders
        /\ \A p \in Orders \ {o} : lost'[p] = lost[p] /\ (p \in excused' <=> p \in excused)
        /\ lost'[o] = IF answered THEN lost[o] ELSE lost[o] + 1
        /\ o \in excused' <=> ~answered \/ o \in excused
    <3>1. lost \in [Orders -> Nat] /\ excused \subseteq Orders
      BY DEF RemoteType
    <3>2. CASE answered
      BY <1>4, <3>1, <3>2
    <3>3. CASE ~answered
      <4>1. lost' = [lost EXCEPT ![o] = @ + 1] /\ excused' = excused \cup {o}
        BY <1>4, <3>3 DEF Excuse
      <4>2. lost[o] + 1 \in Nat
        BY <3>1
      <4> QED
        BY <3>1, <3>3, <4>1, <4>2
    <3> QED
      BY <3>2, <3>3
  <2> HIDE DEF i, b
  <2>7. \A p \in Orders \ {o} : Untouched(p)
    BY <1>2, <2>1, <2>5, <2>6 DEF Untouched
  <2>8. \A j : Issued(j) => Issued(j)'
    BY <2>1, DecidedStays
  <2>9. OrderFits(o)'
    <3>1. lost[o] > 0 => lost'[o] > 0
      BY <2>2, <2>6
    <3> QED
      BY <1>2, <2>1, <2>8, <3>1 DEF Safe, OrderFits
  <2>10. CallFits(o)'
    <3>1. /\ c.at \in {"reply", "submit", "failed"}
          /\ c.at \notin KeySteps \cup {"nonce", "approve", "status", "job", "fetch", "store", "ended"}
          /\ c.at \in BeforeReply => ~answered
          /\ c.at \in Following => answered
      BY <2>4 DEF KeySteps, BeforeReply, Following
    <3>2. c.id \in {0} \cup Of(o)' /\ (c.at \in BeforeReply /\ handler # "openxpki" => c.id = 0)
          /\ (c.at \in Following => c.id # 0)
      BY <2>1, <2>2, <2>4, <3>1
    <3>3. lost'[o] = 0 => Of(o)' \subseteq {c.id}
      BY <2>2, <2>3, <2>4, <2>6
    <3>4. lost'[o] > 0 => o \in excused'
      BY <2>2, <2>6
    <3>5. Cardinality(Of(o)') <= lost'[o] + IF c.id = 0 THEN 0 ELSE 1
      <4>1. CASE answered
        BY <2>1, <2>3, <2>4, <2>6, <4>1
      <4>2. CASE ~answered
        BY <2>1, <2>2, <2>3, <2>6, <4>2
      <4> QED
        BY <4>1, <4>2
    <3> QED
      BY <1>2, <2>2, <2>5, <3>1, <3>2, <3>3, <3>4, <3>5 DEF CallFits, KeySteps
  <2>11. c.at \notin KeySteps \cup {"ended"}
    BY <2>4 DEF KeySteps
  <2>12. received' \in Seq([order : Orders, state : {"pending", "issued", "rejected"}])
    BY <2>1 DEF RequestsStay
  <2> QED
    BY <1>4, <2>5, <2>6, <2>7, <2>9, <2>10, <2>11, <2>12 DEF Advanced, Safe
<1> QED
  BY <1>2, <1>3, <1>4 DEF Submit

-----------------------------------------------------------------------------
(* The steps that write the rows, and those of the CA                      *)

\* What a call that has ended leaves behind: NothingForgotten, by order.
Remembered(o) ==
    At(o, "ended") =>
        \A i \in Of(o) : \/ Rejected(i) \/ o \in excused \/ row[o].cert = i
                         \/ row[o].poll = i /\ order[o] = "processing"

LEMMA OthersRemembered ==
    ASSUME NEW o \in Orders, Remembered(o), Untouched(o)
    PROVE  Remembered(o)'
BY DecidedStays DEF Remembered, Untouched, At

\* an order that is not excused has left one request at most
LEMMA OneOnly ==
    ASSUME RemoteType, NEW o \in Orders, Safe(o), o \notin excused
    PROVE  Of(o) \subseteq {call[o].id}
BY DEF RemoteType, Safe, CallFits

LEMMA StoreKept ==
    ASSUME RemoteType, NEW o \in Orders, Safe(o), UNCHANGED handler, StoreAnswer(o)
    PROVE  /\ Advanced(o) /\ Remembered(o)'
           /\ row' \in [Orders -> [cert : Nat, poll : Nat \cup {CaPage}]]
           /\ order' \in [Orders -> {"processing", "valid", "invalid"}]
<1> DEFINE a == call[o].answer
           i == call[o].id
<1>1. /\ call[o].at = "store" /\ a \in Answers /\ i \in Nat
      /\ a.kind \in {"certificate", "unstorable", "waiting", "failed", "raised"}
      /\ a.cert \in Nat /\ a.poll \in Nat \cup {CaPage}
      /\ row \in [Orders -> [cert : Nat, poll : Nat \cup {CaPage}]]
      /\ row[o] \in [cert : Nat, poll : Nat \cup {CaPage}]
  BY DEF StoreAnswer, At, RemoteType, EnrollCall, Answers
<1>2. UNCHANGED <<handler, received, revoked, lost, excused>>
  BY DEF StoreAnswer, caVars
<1>3. PICK c \in EnrollCall : call' = [call EXCEPT ![o] = c] /\ c.at = "ended" /\ c.id = i
  <2> DEFINE d == [call[o] EXCEPT !.at = "ended", !.tries = 0]
  <2>1. d \in EnrollCall /\ d.at = "ended" /\ d.id = i
    <3>1. call[o] \in EnrollCall
      BY DEF RemoteType
    <3> QED
      BY <3>1 DEF EnrollCall
  <2>2. call' = [call EXCEPT ![o] = d]
    BY DEF StoreAnswer, Move
  <2> HIDE DEF d, i
  <2> QED
    BY <2>1, <2>2
<1>4. /\ call'[o] = c /\ \A p \in Orders \ {o} : call'[p] = call[p]
      /\ call' \in [Orders -> EnrollCall]
  BY <1>3 DEF RemoteType
<1>5. PICK r \in [cert : Nat, poll : Nat \cup {CaPage}] :
          /\ row' = [row EXCEPT ![o] = r]
          /\ a.kind \in {"raised", "unstorable"} => r = row[o]
          /\ a.kind = "certificate" => r.cert = a.cert /\ r.poll = a.poll
          /\ a.kind \in {"waiting", "failed"} => r.cert = row[o].cert /\ r.poll = a.poll
  <2>1. row' = CASE a.kind \in {"raised", "unstorable"} -> row
                 [] a.kind = "certificate" ->
                       [row EXCEPT ![o] = [cert |-> a.cert, poll |-> a.poll]]
                 [] OTHER -> [row EXCEPT ![o].poll = a.poll]
    BY DEF StoreAnswer
  <2> HIDE DEF a
  <2>2. CASE a.kind \in {"raised", "unstorable"}
    <3>1. row' = [row EXCEPT ![o] = row[o]]
      BY <1>1, <2>1, <2>2
    <3> QED
      BY <1>1, <2>2, <3>1
  <2>3. CASE a.kind = "certificate"
    <3>1. [cert |-> a.cert, poll |-> a.poll] \in [cert : Nat, poll : Nat \cup {CaPage}]
      BY <1>1
    <3> QED
      BY <2>1, <2>3, <3>1
  <2>4. CASE a.kind \in {"waiting", "failed"}
    <3> DEFINE s == [row[o] EXCEPT !.poll = a.poll]
    <3>1. /\ s \in [cert : Nat, poll : Nat \cup {CaPage}]
          /\ s.cert = row[o].cert /\ s.poll = a.poll
      BY <1>1
    <3>2. row' = [row EXCEPT ![o] = s]
      BY <2>1, <2>4
    <3> HIDE DEF s
    <3> QED
      BY <2>4, <3>1, <3>2
  <2> QED
    BY <1>1, <2>2, <2>3, <2>4
<1>6. /\ order' \in [Orders -> {"processing", "valid", "invalid"}]
      /\ \A p \in Orders \ {o} : order'[p] = order[p]
      /\ order'[o] = CASE a.kind = "certificate" -> "valid"
                       [] a.kind = "failed" -> "invalid"
                       [] OTHER -> order[o]
  BY DEF StoreAnswer, RemoteType
<1>7. /\ row'[o] = r /\ \A p \in Orders \ {o} : row'[p] = row[p]
      /\ row' \in [Orders -> [cert : Nat, poll : Nat \cup {CaPage}]]
  BY <1>1, <1>5
<1>8. /\ RequestsStay /\ \A p \in Orders : Of(p)' = Of(p)
      /\ \A j : Issued(j)' = Issued(j) /\ Rejected(j)' = Rejected(j)
  BY <1>2 DEF RequestsStay, RemoteType, Of, Issued, Rejected
<1>9. \A p \in Orders \ {o} : Untouched(p)
  BY <1>2, <1>4, <1>6, <1>7, <1>8 DEF Untouched
<1>10. AnswerFits(o, a) /\ OrderFits(o) /\ i \in {0} \cup Of(o)
       /\ (lost[o] > 0 => o \in excused) /\ order[o] # "invalid"
       /\ (handler # "certifier" => row[o].cert = 0)
  BY <1>1 DEF Safe, CallFits
<1>11. \A j : Issued(j) => j # 0 /\ ~Rejected(j)
  BY RequestTypes DEF Issued, Rejected
<1> HIDE DEF a, i
<1>12. OrderFits(o)'
  <2>1. r.cert \in {0} \cup Of(o) /\ (r.cert # 0 => Issued(r.cert))
    BY <1>1, <1>5, <1>10, <1>11 DEF OrderFits, AnswerFits, i
  <2>2. r.poll \in {0} \cup Of(o) \cup IF handler = "certifier" THEN {CaPage} ELSE {}
    <3>1. row[o].poll \in {0} \cup Of(o) \cup IF handler = "certifier" THEN {CaPage} ELSE {}
      BY <1>10 DEF OrderFits
    <3> QED
      BY <1>1, <1>5, <1>10, <3>1 DEF AnswerFits, i
  <2>3. order'[o] = "valid" => r.cert # 0
    BY <1>1, <1>5, <1>6, <1>10, <1>11 DEF OrderFits, AnswerFits, i
  <2>4. r.cert # 0 => order'[o] = "valid" \/ lost[o] > 0
    <3>1. CASE a.kind = "failed"
      BY <1>1, <1>5, <1>10, <1>11, <3>1 DEF OrderFits, AnswerFits, i
    <3>2. CASE a.kind # "failed"
      BY <1>1, <1>5, <1>6, <1>10, <3>2 DEF OrderFits
    <3> QED
      BY <3>1, <3>2
  <2> QED
    BY <1>2, <1>7, <1>8, <2>1, <2>2, <2>3, <2>4 DEF OrderFits
<1>13. CallFits(o)'
  <2>1. "ended" \notin BeforeReply \cup Following
    BY DEF BeforeReply, Following
  <2> QED
    BY <1>2, <1>3, <1>4, <1>8, <2>1 DEF Safe, CallFits, i
<1>14. Remembered(o)'
  <2> SUFFICES ASSUME NEW j \in Of(o), ~Rejected(j), o \notin excused
               PROVE  r.cert = j \/ (r.poll = j /\ order'[o] = "processing")
    BY <1>2, <1>4, <1>7, <1>8 DEF Remembered
  <2>1. j = i /\ j # 0
    BY OneOnly, OfDomain DEF i
  <2>2. CASE a.kind = "certificate"
    BY <1>5, <1>10, <2>1, <2>2 DEF AnswerFits, i
  <2>3. CASE a.kind = "waiting" /\ a.poll = i
    <3>1. order'[o] = order[o] /\ order[o] \in {"processing", "valid"}
      BY <1>6, <1>10, <2>3 DEF RemoteType
    <3>2. order[o] = "valid" => row[o].cert = i
      BY <1>10, OneOnly DEF OrderFits, i
    <3> QED
      BY <1>5, <2>1, <2>3, <3>1, <3>2
  <2> QED
    BY <1>10, <2>1, <2>2, <2>3 DEF AnswerFits, i
<1> QED
  BY <1>2, <1>3, <1>4, <1>6, <1>7, <1>8, <1>9, <1>12, <1>13, <1>14
     DEF Advanced, Safe, KeySteps, RequestsStay, RemoteType

\* a decision on a request
LEMMA OneDecided ==
    ASSUME RemoteType, NEW i \in DOMAIN received, received[i].state = "pending",
           NEW state \in {"issued", "rejected"},
           received' = [received EXCEPT ![i].state = state]
    PROVE  RequestsStay /\ \A p \in Orders : Of(p)' = Of(p)
<1> DEFINE R == [order : Orders, state : {"pending", "issued", "rejected"}]
           r == [received[i] EXCEPT !.state = state]
<1>1. received \in Seq(R) /\ i \in 1 .. Len(received) /\ received[i] \in R
  BY RequestTypes DEF RemoteType
<1>2. r \in R /\ r.order = received[i].order
  BY <1>1
<1>3. received' = [received EXCEPT ![i] = r]
  OBVIOUS
<1>4. /\ received' \in Seq(R) /\ DOMAIN received' = DOMAIN received
      /\ received'[i] = r /\ \A j \in DOMAIN received \ {i} : received'[j] = received[j]
  <2> HIDE DEF R, r
  <2> QED
    BY <1>1, <1>2, <1>3
<1> HIDE DEF r
<1>5. \A j \in DOMAIN received : received'[j].order = received[j].order
  BY <1>2, <1>4
<1> QED
  BY <1>4, <1>5 DEF RequestsStay, Of

\* dogtag: the approval of a pending request
LEMMA ApproveKept ==
    ASSUME RemoteType, NEW o \in Orders, Safe(o), UNCHANGED handler, DogtagApprove(o)
    PROVE  Advanced(o) /\ call'[o].at # "ended" /\ UNCHANGED <<row, order>>
<1> DEFINE b == call[o]
           i == call[o].id
<1>1. /\ b.at = "approve" /\ b.at \in Following /\ b \in EnrollCall /\ i \in Nat
      /\ handler \in {"dogtag", "dogtag_approve"}
  BY DEF DogtagApprove, At, Following, RemoteType, EnrollCall, Safe, CallFits
<1>2. CASE Answer(o, "unread", Failed)
  <2>1. Failed \in Replies(i) /\ Failed.kind # "certificate" /\ Missed("unread", Failed)
    BY DEF Replies, Failed, Missed
  <2>2. Kept(o)
    BY <1>1, <1>2, <2>1, ReplyFits
  <2> QED
    BY <2>2, QuietOthers DEF Kept, Quiet, Advanced, RemoteType, dbVars, caVars
<1>3. CASE /\ \/ UNCHANGED received
              \/ /\ received[i].state = "pending"
                 /\ received' = [received EXCEPT ![i].state = "issued"]
           /\ UNCHANGED <<dbVars, revoked, lost>>
           /\ \/ /\ call' = [call EXCEPT ![o].tries = @ + 1] /\ excused' = excused
              \/ /\ call' = [call EXCEPT ![o].at = "store", ![o].tries = 0,
                                         ![o].answer = Failed]
                 /\ Excuse(o)
              \/ Move(o, "status") /\ excused' = excused
  <2>1. i \in DOMAIN received
    BY <1>1, ShownState
  <2>2. RequestsStay /\ \A p \in Orders : Of(p)' = Of(p)
    <3>1. CASE received' = received
      BY <3>1 DEF RequestsStay, RemoteType, Of
    <3>2. CASE /\ received[i].state = "pending"
               /\ received' = [received EXCEPT ![i].state = "issued"]
      <4> HIDE DEF i
      <4> QED
        BY <2>1, <3>2, OneDecided
    <3> QED
      BY <1>3, <3>1, <3>2
  <2>3. PICK c \in EnrollCall :
            /\ call' = [call EXCEPT ![o] = c] /\ c.id = i
            /\ c.at \in {"approve", "status", "store"}
            /\ c.at = "store" => c.answer = Failed /\ excused' = excused \cup {o}
            /\ c.at # "store" => excused' = excused
    <3>1. CASE call' = [call EXCEPT ![o].tries = @ + 1] /\ excused' = excused
      <4> DEFINE n == b.tries + 1
                 d == [b EXCEPT !.tries = n]
      <4>1. n \in Nat
        BY <1>1 DEF EnrollCall
      <4>2. call' = [call EXCEPT ![o] = d]
        BY <3>1
      <4> HIDE DEF n
      <4>3. d \in EnrollCall /\ d.at = b.at /\ d.id = i
        BY <1>1, <4>1 DEF EnrollCall
      <4> HIDE DEF d, b, i
      <4> QED
        BY <1>1, <3>1, <4>2, <4>3
    <3>2. CASE /\ call' = [call EXCEPT ![o].at = "store", ![o].tries = 0,
                                       ![o].answer = Failed]
               /\ Excuse(o)
      <4> DEFINE d == [b EXCEPT !.at = "store", !.tries = 0, !.answer = Failed]
      <4>1. call' = [call EXCEPT ![o] = d]
        BY <3>2
      <4>2. Failed \in Answers
        BY DEF Failed, Answers
      <4>3. d \in EnrollCall /\ d.at = "store" /\ d.id = i /\ d.answer = Failed
        BY <1>1, <4>2 DEF EnrollCall
      <4> HIDE DEF d, b, i
      <4> QED
        BY <3>2, <4>1, <4>3 DEF Excuse
    <3>3. CASE Move(o, "status") /\ excused' = excused
      <4> DEFINE d == [b EXCEPT !.at = "status", !.tries = 0]
      <4>1. call' = [call EXCEPT ![o] = d]
        BY <3>3 DEF Move
      <4>2. d \in EnrollCall /\ d.at = "status" /\ d.id = i
        BY <1>1 DEF EnrollCall, Following
      <4> HIDE DEF d, b, i
      <4> QED
        BY <3>3, <4>1, <4>2
    <3> QED
      BY <1>3, <3>1, <3>2, <3>3
  <2>4. /\ call'[o] = c /\ \A p \in Orders \ {o} : call'[p] = call[p]
        /\ call' \in [Orders -> EnrollCall]
    BY <2>3 DEF RemoteType
  <2>5. UNCHANGED <<handler, row, order, revoked, lost>>
    BY <1>3 DEF dbVars
  <2>6. \A p \in Orders \ {o} : Untouched(p)
    BY <2>2, <2>3, <2>4, <2>5 DEF Untouched
  <2>7. \A j : Issued(j) => Issued(j)'
    BY <2>2, DecidedStays
  <2>8. OrderFits(o)'
    BY <2>2, <2>5, <2>7 DEF Safe, OrderFits
  <2>9. CallFits(o)'
    <3>1. c.at = "store" => AnswerFits(o, c.answer)'
      BY <1>1, <2>3, <2>5 DEF AnswerFits, Failed
    <3>2. /\ c.at \notin BeforeReply \cup {"key", "register", "account", "job", "fetch", "ended"}
          /\ b.at # "ended" /\ i # 0
      BY <1>1, <2>3, ShownState DEF BeforeReply
    <3>3. o \in excused => o \in excused'
      BY <2>3
    <3> HIDE DEF b
    <3> QED
      BY <1>1, <2>2, <2>3, <2>4, <2>5, <3>1, <3>2, <3>3 DEF Safe, CallFits, b
  <2> QED
    BY <2>2, <2>3, <2>4, <2>5, <2>6, <2>8, <2>9
       DEF Advanced, Safe, KeySteps, RequestsStay, RemoteType
<1> QED
  <2>1. \/ /\ \E repeated \in {call[o].tries + 1 < Attempts} :
             /\ IF repeated
                THEN call' = [call EXCEPT ![o].tries = @ + 1] /\ excused' = excused
                ELSE /\ call' = [call EXCEPT ![o].at = "store", ![o].tries = 0,
                                             ![o].answer = Failed]
                     /\ Excuse(o)
             /\ \/ UNCHANGED received
                \/ /\ received[i].state = "pending"
                   /\ received' = [received EXCEPT ![i].state = "issued"]
             /\ UNCHANGED <<dbVars, revoked, lost>>
        \/ Answer(o, "unread", Failed)
        \/ /\ received[i].state = "pending"
           /\ received' = [received EXCEPT ![i].state = "issued"]
           /\ Move(o, "status")
           /\ UNCHANGED <<dbVars, revoked, lost, excused>>
    BY DEF DogtagApprove
  <2> HIDE DEF i
  <2>2. CASE Answer(o, "unread", Failed)
    BY <1>2, <2>2
  <2>3. CASE \E repeated \in {call[o].tries + 1 < Attempts} :
             /\ IF repeated
                THEN call' = [call EXCEPT ![o].tries = @ + 1] /\ excused' = excused
                ELSE /\ call' = [call EXCEPT ![o].at = "store", ![o].tries = 0,
                                             ![o].answer = Failed]
                     /\ Excuse(o)
             /\ \/ UNCHANGED received
                \/ /\ received[i].state = "pending"
                   /\ received' = [received EXCEPT ![i].state = "issued"]
             /\ UNCHANGED <<dbVars, revoked, lost>>
    <3>1. /\ \/ call' = [call EXCEPT ![o].tries = @ + 1] /\ excused' = excused
             \/ /\ call' = [call EXCEPT ![o].at = "store", ![o].tries = 0,
                                        ![o].answer = Failed]
                /\ Excuse(o)
          /\ \/ UNCHANGED received
             \/ /\ received[i].state = "pending"
                /\ received' = [received EXCEPT ![i].state = "issued"]
          /\ UNCHANGED <<dbVars, revoked, lost>>
      BY <2>3
    <3> QED
      BY <1>3, <3>1
  <2>4. CASE /\ received[i].state = "pending"
             /\ received' = [received EXCEPT ![i].state = "issued"]
             /\ Move(o, "status")
             /\ UNCHANGED <<dbVars, revoked, lost, excused>>
    BY <1>3, <2>4
  <2> QED
    BY <2>1, <2>2, <2>3, <2>4

\* Whatever a step of a call does, the order keeps its part of the invariant.
LEMMA CallKept ==
    ASSUME RemoteType, NEW o \in Orders, Safe(o), UNCHANGED handler,
           Prepare(o) \/ Fail(o) \/ AnswerDirect(o) \/ CertifierReply(o) \/ CertifierWait(o)
           \/ DogtagReply(o) \/ DogtagNonce(o) \/ DogtagStatus(o) \/ DogtagFetch(o)
           \/ NclmReply(o) \/ NclmJob(o) \/ NclmFetch(o) \/ OpenxpkiReply(o)
    PROVE  Advanced(o) /\ call'[o].at # "ended" /\ UNCHANGED <<row, order>>
<1>1. Kept(o)
  BY PrepareKept, FailKept, DirectKept, CertifierKept, DogtagKept, NclmKept, OpenxpkiKept
<1> QED
  BY <1>1, QuietOthers DEF Kept, Quiet, Advanced, RemoteType, dbVars, caVars

\* the poll tool and the trigger
LEMMA LaterKept ==
    ASSUME RemoteType, NEW o \in Orders, Safe(o), Remembered(o),
           Poll(o) \/ \E i \in DOMAIN received : received[i].order = o /\ Trigger(i)
    PROVE  /\ Advanced(o) /\ Remembered(o)'
           /\ UNCHANGED <<call, received>>
           /\ row' \in [Orders -> [cert : Nat, poll : Nat \cup {CaPage}]]
           /\ order' \in [Orders -> {"processing", "valid", "invalid"}]
<1>1. /\ UNCHANGED <<handler, received, revoked, call, lost, excused>>
      /\ handler = "certifier" /\ order[o] = "processing"
  BY DEF Poll, Trigger, caVars
<1>2. row \in [Orders -> [cert : Nat, poll : Nat \cup {CaPage}]]
      /\ row[o] \in [cert : Nat, poll : Nat \cup {CaPage}]
      /\ order \in [Orders -> {"processing", "valid", "invalid"}]
  BY DEF RemoteType
\* either a certificate of the order is stored, or its request was rejected
<1>3. \E i \in Of(o), r \in [cert : Nat, poll : Nat \cup {CaPage}] :
          /\ row' = [row EXCEPT ![o] = r]
          /\ \/ /\ Issued(i) /\ r.cert = i /\ r.poll \in {0, row[o].poll}
                /\ order' = [order EXCEPT ![o] = "valid"]
             \/ /\ Rejected(i) /\ r = row[o] /\ i = row[o].poll /\ At(o, "ended")
                /\ order' = [order EXCEPT ![o] = "invalid"]
  <2>1. CASE Poll(o)
    <3> DEFINE i == row[o].poll
    <3>1. i \in DOMAIN received /\ At(o, "ended")
      BY <2>1 DEF Poll
    <3>2. i \in Of(o) /\ i \in Nat
      <4>1. i \in {0} \cup Of(o) \cup {CaPage}
        BY <1>1 DEF Safe, OrderFits
      <4>2. 0 \notin DOMAIN received /\ CaPage \notin DOMAIN received
        BY RequestTypes DEF CaPage
      <4> QED
        BY <3>1, <4>1, <4>2, OfDomain
    <3>3. PICK answer \in PollAnswer(i) :
          \/ /\ answer.kind = "certificate"
             /\ row' = [row EXCEPT ![o] = [cert |-> i, poll |-> 0]]
             /\ order' = [order EXCEPT ![o] = "valid"]
          \/ /\ answer.kind = "failed"
             /\ order' = [order EXCEPT ![o] = "invalid"]
             /\ UNCHANGED row
      BY <2>1 DEF Poll
    <3>4. CASE answer.kind = "certificate"
      <4>1. Issued(i)
        BY <3>1, <3>3, <3>4 DEF PollAnswer, Certificate, Waiting, Failed, Issued
      <4>2. [cert |-> i, poll |-> 0] \in [cert : Nat, poll : Nat \cup {CaPage}]
        BY <3>2
      <4> QED
        BY <3>2, <3>3, <3>4, <4>1, <4>2
    <3>5. CASE answer.kind = "failed"
      <4>1. Rejected(i)
        BY <3>1, <3>3, <3>5 DEF PollAnswer, Certificate, Waiting, Failed, Rejected
      <4>2. row' = [row EXCEPT ![o] = row[o]]
        BY <1>2, <3>3, <3>5
      <4> QED
        BY <1>2, <3>1, <3>2, <3>3, <3>5, <4>1, <4>2
    <3> QED
      BY <3>3, <3>4, <3>5
  <2>2. CASE \E i \in DOMAIN received : received[i].order = o /\ Trigger(i)
    <3>1. PICK i \in DOMAIN received : received[i].order = o /\ Trigger(i)
      BY <2>2
    <3>2. i \in Of(o) /\ i \in Nat /\ Issued(i)
      BY <3>1, OfDomain DEF Of, Trigger, Issued
    <3> DEFINE r == [row[o] EXCEPT !.cert = i]
    <3>3. /\ r \in [cert : Nat, poll : Nat \cup {CaPage}]
          /\ r.cert = i /\ r.poll = row[o].poll
      BY <1>2, <3>2
    <3>4. row' = [row EXCEPT ![o] = r] /\ order' = [order EXCEPT ![o] = "valid"]
      BY <3>1 DEF Trigger
    <3> HIDE DEF r
    <3> QED
      BY <3>2, <3>3, <3>4
  <2> QED
    BY <2>1, <2>2
<1>4. PICK i \in Of(o), r \in [cert : Nat, poll : Nat \cup {CaPage}] :
          /\ row' = [row EXCEPT ![o] = r]
          /\ \/ /\ Issued(i) /\ r.cert = i /\ r.poll \in {0, row[o].poll}
                /\ order' = [order EXCEPT ![o] = "valid"]
             \/ /\ Rejected(i) /\ r = row[o] /\ i = row[o].poll /\ At(o, "ended")
                /\ order' = [order EXCEPT ![o] = "invalid"]
  BY <1>3
<1>5. /\ row' \in [Orders -> [cert : Nat, poll : Nat \cup {CaPage}]] /\ row'[o] = r
      /\ order' \in [Orders -> {"processing", "valid", "invalid"}]
      /\ \A p \in Orders \ {o} : row'[p] = row[p] /\ order'[p] = order[p]
  BY <1>2, <1>4
<1>6. /\ RequestsStay /\ \A p \in Orders : Of(p)' = Of(p)
      /\ \A j : Issued(j)' = Issued(j) /\ Rejected(j)' = Rejected(j)
  BY <1>1 DEF RequestsStay, RemoteType, Of, Issued, Rejected
<1>7. \A p \in Orders \ {o} : Untouched(p)
  BY <1>1, <1>5, <1>6 DEF Untouched
<1>8. i # 0 /\ (At(o, "ended") \/ order'[o] = "valid")
  BY <1>2, <1>4, OfDomain
<1>9. OrderFits(o)'
  BY <1>1, <1>2, <1>4, <1>5, <1>6, <1>8 DEF Safe, OrderFits
<1>10. CallFits(o)'
  <2>1. AnswerFits(o, call[o].answer) => AnswerFits(o, call[o].answer)'
    BY <1>1, <1>6 DEF AnswerFits
  <2>2. call[o].at # "ended" => order'[o] # "invalid"
    BY <1>8 DEF At
  <2> QED
    BY <1>1, <1>6, <2>1, <2>2 DEF Safe, CallFits
<1>11. Remembered(o)'
  <2> SUFFICES ASSUME At(o, "ended"), NEW j \in Of(o), ~Rejected(j), o \notin excused
               PROVE  r.cert = j
    BY <1>1, <1>5, <1>6 DEF Remembered, At
  <2>1. j = i
    BY OneOnly
  <2> QED
    BY <1>4, <2>1
<1>12. call[o].at \notin KeySteps
  BY <1>1 DEF Safe, CallFits, KeySteps
<1>13. /\ received' \in Seq([order : Orders, state : {"pending", "issued", "rejected"}])
       /\ call' \in [Orders -> EnrollCall] /\ lost' \in [Orders -> Nat]
       /\ excused' \subseteq Orders
  BY <1>1 DEF RemoteType
<1> QED
  BY <1>1, <1>5, <1>7, <1>9, <1>10, <1>11, <1>12, <1>13 DEF Advanced, Safe

-----------------------------------------------------------------------------
(* Revocations                                                             *)

LEMMA CodesFit ==
    ASSUME handler \in Known \ Unsupported
    PROVE  /\ HandlerCodes.found \subseteq {200, 400}
           /\ HandlerCodes.refused \subseteq {400, 500}
           /\ HandlerCodes.silent \subseteq {200, 400, 500}
           /\ 200 \in HandlerCodes.silent => handler = "certifier"
<1> USE DEF HandlerCodes, Codes, CertifierCodes, DogtagCodes, EntrustCodes, EjbcaCodes,
        AsaCodes, DigicertCodes, VaultCodes, OpenxpkiCodes, FreeipaCodes, AcmeCodes,
        NclmCodes
<1>1. CASE handler \in {"certifier", "dogtag", "dogtag_approve", "entrust"}
  BY <1>1
<1>2. CASE handler \in {"ejbca", "asa", "digicert", "vault"}
  BY <1>2
<1>3. CASE handler \in {"openxpki", "freeipa", "acme", "nclm"}
  BY <1>3
<1> QED
  BY <1>1, <1>2, <1>3 DEF Known, Unsupported

\* what a step makes of the locals of a revocation
RevocationMovesTo(r, c) ==
    /\ rev' = [rev EXCEPT ![r] = c]
    /\ c.code # 0 => c.at = "ended"
    /\ c.at \in {"lookup", "post", "job"} => handler \notin Unsupported
    /\ c.at = "job" => handler = "nclm"
    /\ c.code = 200 => c.cert \in revoked' \/ (handler = "certifier" /\ c.end = "silent")
    /\ revoked \subseteq revoked' /\ revoked' \subseteq Nat /\ jobs' \subseteq Nat

RevocationMoves(r) == \E c \in RevokeCall : RevocationMovesTo(r, c)

LEMMA RevocationStep ==
    ASSUME RemoteType, \A q \in RevokeCalls : RevokeFits(q), RevocationAnswered,
           NEW r \in RevokeCalls, UNCHANGED handler,
           NEW c \in RevokeCall, RevocationMovesTo(r, c)
    PROVE  /\ rev' \in [RevokeCalls -> RevokeCall]
           /\ \A q \in RevokeCalls : RevokeFits(q)'
           /\ RevocationAnswered'
<1>1. /\ rev' \in [RevokeCalls -> RevokeCall] /\ rev'[r] = c
      /\ \A q \in RevokeCalls \ {r} : rev'[q] = rev[q]
  BY DEF RemoteType, RevocationMovesTo
<1>2. \A q \in RevokeCalls : RevokeFits(q)'
  BY <1>1 DEF RevokeFits, RevocationMovesTo
<1>3. RevocationAnswered'
  <2>1. revoked \subseteq revoked' /\ handler' = handler
    BY DEF RevocationMovesTo
  <2>2. c.code = 200 => c.cert \in revoked' \/ (handler = "certifier" /\ c.end = "silent")
    BY DEF RevocationMovesTo
  <2>3. SUFFICES ASSUME NEW q \in RevokeCalls, rev'[q].code = 200
                 PROVE  \/ rev'[q].cert \in revoked'
                        \/ handler' = "certifier" /\ rev'[q].end = "silent"
    BY DEF RevocationAnswered
  <2>4. CASE q = r
    BY <1>1, <2>1, <2>2, <2>3, <2>4
  <2>5. CASE q # r
    <3>1. rev'[q] = rev[q]
      BY <1>1, <2>5
    <3> QED
      BY <2>1, <2>3, <3>1 DEF RevocationAnswered
  <2> QED
    BY <2>4, <2>5
<1> QED
  BY <1>1, <1>2, <1>3

\* how a revocation ends
LEMMA Ended ==
    ASSUME NEW r \in RevokeCalls, rev[r] \in RevokeCall,
           NEW code \in {200, 400, 500}, NEW end \in {"plain", "silent"}, End(r, code, end)
    PROVE  \E d \in RevokeCall :
              /\ rev' = [rev EXCEPT ![r] = d]
              /\ d.at = "ended" /\ d.code = code /\ d.end = end
              /\ d.cert = rev[r].cert
<1> DEFINE b == rev[r]
           b1 == [b EXCEPT !.at = "ended"]
           b2 == [b1 EXCEPT !.code = code]
           d == [b EXCEPT !.at = "ended", !.code = code, !.end = end]
<1>1. rev' = [rev EXCEPT ![r] = d]
  BY DEF End
<1>2. b \in RevokeCall
  OBVIOUS
<1> HIDE DEF b
<1>3. d = [b2 EXCEPT !.end = end]
  BY <1>2 DEF RevokeCall
<1>4. d.at = "ended" /\ d.code = code /\ d.end = end /\ d.cert = b.cert
  BY <1>2 DEF RevokeCall
<1>5. b1 \in RevokeCall
  BY <1>2 DEF RevokeCall
<1> HIDE DEF b1
<1>6. b2 \in RevokeCall
  BY <1>5 DEF RevokeCall
<1> HIDE DEF b2
<1>7. [b2 EXCEPT !.end = end] \in RevokeCall
  BY <1>6 DEF RevokeCall
<1> HIDE DEF d
<1> QED
  BY <1>1, <1>3, <1>4, <1>7 DEF b

LEMMA RevokeKept ==
    ASSUME RemoteType, \A q \in RevokeCalls : RevokeFits(q), RevocationAnswered,
           NEW r \in RevokeCalls, RevokeRemote(r), Handlers \subseteq Known
    PROVE  /\ rev' \in [RevokeCalls -> RevokeCall]
           /\ \A q \in RevokeCalls : RevokeFits(q)'
           /\ RevocationAnswered'
           /\ revoked' \subseteq Nat /\ jobs' \subseteq Nat
<1> DEFINE b == rev[r]
<1>1. /\ b \in RevokeCall /\ handler \in Known /\ UNCHANGED handler
      /\ rev \in [RevokeCalls -> RevokeCall] /\ revoked \subseteq Nat /\ jobs \subseteq Nat
      /\ b.cert \in Nat /\ b.tries \in Nat /\ b.round \in Nat /\ b.code \in {0, 200, 400, 500}
  BY DEF RemoteType, RevokeRemote, RevokeCall
\* the locals after the step
<1>2. RevocationMoves(r)
  <2>1. revoked \subseteq revoked' /\ revoked' \subseteq Nat /\ jobs' \subseteq Nat
    <3>1. CASE \E o \in Orders : StartRevoke(r, o)
      BY <1>1, <3>1 DEF StartRevoke
    <3>2. CASE Lookup(r)
      BY <1>1, <3>2 DEF Lookup
    <3>3. CASE PostRevoke(r)
      BY <1>1, <3>3 DEF PostRevoke
    <3>4. CASE PostJob(r)
      BY <1>1, <3>4 DEF PostJob
    <3>5. CASE PollJob(r)
      BY <1>1, <3>5 DEF PollJob
    <3> QED
      BY <3>1, <3>2, <3>3, <3>4, <3>5 DEF RevokeRemote
  \* a call that ends
  <2>8. ASSUME NEW code \in {200, 400, 500}, NEW end \in {"plain", "silent"}, End(r, code, end),
               code = 200 => b.cert \in revoked' \/ (handler = "certifier" /\ end = "silent")
        PROVE  RevocationMoves(r)
    <3>1. PICK d \in RevokeCall : /\ rev' = [rev EXCEPT ![r] = d] /\ d.end = end
                                  /\ d.at = "ended" /\ d.code = code /\ d.cert = b.cert
      BY <1>1, <2>8, Ended
    <3>2. RevocationMovesTo(r, d)
      BY <2>1, <2>8, <3>1 DEF RevocationMovesTo
    <3> QED
      BY <3>2 DEF RevocationMoves
  <2>9. /\ End(r, 200, "plain") /\ b.cert \in revoked' => RevocationMoves(r)
        /\ End(r, 200, "silent") /\ handler = "certifier" => RevocationMoves(r)
    BY <2>8
  <2>10. /\ End(r, 400, "plain") => RevocationMoves(r)
         /\ End(r, 500, "plain") => RevocationMoves(r)
         /\ End(r, 400, "silent") => RevocationMoves(r)
         /\ End(r, 500, "silent") => RevocationMoves(r)
    BY <2>8
  \* a call that goes on
  <2>2. ASSUME NEW c \in RevokeCall, rev' = [rev EXCEPT ![r] = c], c.code = 0,
               c.at \in {"lookup", "post", "job"}, handler \notin Unsupported,
               c.at = "job" => handler = "nclm"
        PROVE  RevocationMoves(r)
    <3>1. RevocationMovesTo(r, c)
      BY <2>1, <2>2 DEF RevocationMovesTo
    <3> QED
      BY <3>1 DEF RevocationMoves
  <2>3. ASSUME NEW o \in Orders, StartRevoke(r, o)
        PROVE  RevocationMoves(r)
    <3>1. row[o].cert \in Nat
      BY DEF RemoteType
    <3> DEFINE e == [NoRev EXCEPT !.at = "ended", !.code = 500, !.cert = row[o].cert]
               d == [NoRev EXCEPT !.at = "lookup", !.cert = row[o].cert]
    <3>2. e \in RevokeCall /\ e.code = 500 /\ e.at = "ended"
      BY <3>1, ZenonT(40) DEF NoRev, RevokeCall
    <3>3. d \in RevokeCall /\ d.code = 0 /\ d.at = "lookup"
      BY <3>1 DEF NoRev, RevokeCall
    <3>4. \/ rev' = [rev EXCEPT ![r] = e]
          \/ rev' = [rev EXCEPT ![r] = d] /\ handler \notin Unsupported
      BY <2>3 DEF StartRevoke
    <3> HIDE DEF d, e
    <3>5. CASE rev' = [rev EXCEPT ![r] = e]
      <4>1. RevocationMovesTo(r, e)
        BY <2>1, <3>2, <3>5 DEF RevocationMovesTo
      <4> QED
        BY <3>2, <4>1 DEF RevocationMoves
    <3>6. CASE rev' = [rev EXCEPT ![r] = d] /\ handler \notin Unsupported
      BY <2>2, <3>3, <3>6
    <3> QED
      BY <3>4, <3>5, <3>6
  <2>4. ASSUME b.at \in {"lookup", "post", "job"}
        PROVE  b.code = 0 /\ handler \in Known \ Unsupported /\ (b.at = "job" => handler = "nclm")
    BY <1>1, <2>4 DEF RevokeFits
  <2>5. CASE Lookup(r)
    <3>1. b.at = "lookup" /\ revoked' = revoked
      BY <2>5 DEF Lookup
    <3>2. \/ \E code \in HandlerCodes.found : b.cert \in revoked /\ End(r, code, "plain")
          \/ rev' = [rev EXCEPT ![r].at = "post"]
          \/ End(r, 500, "plain")
      BY <2>5 DEF Lookup
    <3>3. CASE b.cert \in revoked /\ \E code \in HandlerCodes.found : End(r, code, "plain")
      <4>1. End(r, 200, "plain") \/ End(r, 400, "plain")
        BY <2>4, <3>1, <3>3, CodesFit
      <4> QED
        BY <2>9, <2>10, <3>1, <3>3, <4>1
    <3>4. CASE rev' = [rev EXCEPT ![r].at = "post"]
      <4> DEFINE d == [b EXCEPT !.at = "post"]
      <4>1. d \in RevokeCall /\ d.at = "post" /\ d.code = b.code
        BY <1>1 DEF RevokeCall
      <4>2. rev' = [rev EXCEPT ![r] = d]
        BY <3>4
      <4> HIDE DEF d, b
      <4> QED
        BY <1>1, <2>2, <2>4, <3>1, <4>1, <4>2
    <3>5. CASE End(r, 500, "plain")
      BY <2>10, <3>5
    <3> QED
      BY <3>2, <3>3, <3>4, <3>5
  <2>6. CASE PostRevoke(r)
    <3>1. /\ b.at = "post" /\ UNCHANGED jobs
          /\ revoked' \in {revoked, revoked \cup {b.cert}}
      BY <2>6 DEF PostRevoke
    <3>3. \/ rev' = [rev EXCEPT ![r].tries = @ + 1]
          \/ \E code \in HandlerCodes.silent : End(r, code, "silent")
          \/ b.cert \in revoked' /\ End(r, 200, "plain")
          \/ \E code \in HandlerCodes.refused : End(r, code, "plain")
      BY <2>6 DEF PostRevoke
    <3>4. CASE rev' = [rev EXCEPT ![r].tries = @ + 1]
      <4> DEFINE n == b.tries + 1
                 d == [b EXCEPT !.tries = n]
      <4>1. n \in Nat
        BY <1>1
      <4>2. rev' = [rev EXCEPT ![r] = d]
        BY <3>4
      <4> HIDE DEF n
      <4>3. d \in RevokeCall /\ d.at = b.at /\ d.code = b.code
        BY <1>1, <4>1 DEF RevokeCall
      <4> HIDE DEF d, b
      <4> QED
        BY <2>2, <2>4, <3>1, <4>2, <4>3
    <3>5. CASE \E code \in HandlerCodes.silent : End(r, code, "silent")
      <4>1. \/ End(r, 200, "silent") /\ handler = "certifier"
            \/ End(r, 400, "silent") \/ End(r, 500, "silent")
        BY <2>4, <3>1, <3>5, CodesFit
      <4> QED
        BY <2>9, <2>10, <4>1
    <3>6. CASE b.cert \in revoked' /\ End(r, 200, "plain")
      BY <2>9, <3>6
    <3>7. CASE \E code \in HandlerCodes.refused : End(r, code, "plain")
      <4>1. End(r, 400, "plain") \/ End(r, 500, "plain")
        BY <2>4, <3>1, <3>7, CodesFit
      <4> QED
        BY <2>10, <4>1
    <3> QED
      BY <3>3, <3>4, <3>5, <3>6, <3>7
  <2>7. CASE PostJob(r)
    <3>1. /\ b.at = "post" /\ handler = "nclm"
          /\ End(r, 500, "silent") \/ rev' = [rev EXCEPT ![r].at = "job"]
      BY <2>7 DEF PostJob
    <3>3. CASE End(r, 500, "silent")
      BY <2>10, <3>3
    <3>4. CASE rev' = [rev EXCEPT ![r].at = "job"]
      <4> DEFINE d == [b EXCEPT !.at = "job"]
      <4>1. d \in RevokeCall /\ d.at = "job" /\ d.code = b.code
        BY <1>1 DEF RevokeCall
      <4>2. rev' = [rev EXCEPT ![r] = d]
        BY <3>4
      <4> HIDE DEF d, b
      <4> QED
        BY <2>2, <2>4, <3>1, <4>1, <4>2
    <3> QED
      BY <3>1, <3>3, <3>4
  <2>11. CASE PollJob(r) 
    <3>1. /\ b.at = "job" /\ revoked' = revoked
          /\ \/ End(r, 500, "plain") \/ rev' = [rev EXCEPT ![r].round = @ + 1]
             \/ b.cert \in revoked /\ End(r, 200, "plain")
      BY <2>11 DEF PollJob
    <3>2. CASE rev' = [rev EXCEPT ![r].round = @ + 1]
      <4> DEFINE n == b.round + 1
                 d == [b EXCEPT !.round = n]
      <4>1. n \in Nat
        BY <1>1
      <4>2. rev' = [rev EXCEPT ![r] = d]
        BY <3>2
      <4> HIDE DEF n
      <4>3. d \in RevokeCall /\ d.at = b.at /\ d.code = b.code
        BY <1>1, <4>1 DEF RevokeCall
      <4> HIDE DEF d, b
      <4> QED
        BY <2>2, <2>4, <3>1, <4>2, <4>3
    <3>3. CASE End(r, 500, "plain")
      BY <2>10, <3>3
    <3>4. CASE b.cert \in revoked /\ End(r, 200, "plain")
      BY <2>9, <3>1, <3>4
    <3> QED
      BY <3>1, <3>2, <3>3, <3>4
  <2> QED
    BY <2>3, <2>5, <2>6, <2>7, <2>11 DEF RevokeRemote
<1>3. PICK c \in RevokeCall : RevocationMovesTo(r, c)
  BY <1>2 DEF RevocationMoves
<1>4. /\ rev' \in [RevokeCalls -> RevokeCall]
      /\ \A q \in RevokeCalls : RevokeFits(q)'
      /\ RevocationAnswered'
  BY <1>1, <1>3, RevocationStep
<1> QED
  BY <1>3, <1>4 DEF RevocationMovesTo

-----------------------------------------------------------------------------
(* The invariant of the specification                                      *)

RemoteAll ==
    RemoteInv /\ RevocationAnswered /\ \A o \in Orders : Remembered(o)

LEMMA RemoteInitFits ==
    ASSUME RemoteInit, ExchangeAssumption
    PROVE  RemoteAll
<1> USE DEF RemoteInit, InitExchange, Uncalled, NoRev, NoKey, Failed
<1>1. RemoteType
  <2>1. Uncalled \in EnrollCall
    BY DEF EnrollCall, BeforeReply, Answers
  <2>2. NoRev \in RevokeCall
    BY DEF RevokeCall
  <2>3. received \in Seq([order : Orders, state : {"pending", "issued", "rejected"}])
    OBVIOUS
  <2>4. /\ call \in [Orders -> EnrollCall] /\ rev \in [RevokeCalls -> RevokeCall]
        /\ keyFile \in [key : Orders \cup {0}, account : Orders \cup {0}]
    BY <2>1, <2>2
  <2> QED
    BY <2>3, <2>4 DEF RemoteType
<1>2. Len(received) = 0 /\ DOMAIN received = {}
  OBVIOUS
<1>3. \A o \in Orders : Of(o) = {}
  BY <1>2 DEF Of
<1>4. KeyFits
  BY DEF KeyFits, At
<1>5. ASSUME NEW o \in Orders
      PROVE  OrderFits(o) /\ CallFits(o) /\ Remembered(o)
  <2>1. Cardinality(Of(o)) = 0
    BY <1>3, FS_EmptySet
  <2>2. CallFits(o)
    BY <1>3, <2>1 DEF CallFits, BeforeReply, Following
  <2> QED
    BY <1>3, <2>2 DEF OrderFits, Remembered, At
<1>6. \A r \in RevokeCalls : RevokeFits(r)
  BY DEF RevokeFits
<1>7. RevocationAnswered
  BY DEF RevocationAnswered
<1> QED
  BY <1>1, <1>4, <1>5, <1>6, <1>7 DEF RemoteAll, RemoteInv

\* a step of one order, which leaves the others as they were
LEMMA OneAdvances ==
    ASSUME RemoteAll, NEW o \in Orders, Advanced(o), Remembered(o)', KeyFits',
           row' \in [Orders -> [cert : Nat, poll : Nat \cup {CaPage}]],
           order' \in [Orders -> {"processing", "valid", "invalid"}],
           keyFile' \in [key : Orders \cup {0}, account : Orders \cup {0}],
           raced' \in BOOLEAN, UNCHANGED revVars
    PROVE  RemoteAll'
<1>1. RemoteType'
  BY Zenon DEF RemoteAll, RemoteInv, RemoteType, Advanced, revVars
<1>2. \A p \in Orders : Safe(p)
  BY DEF RemoteAll, RemoteInv, Safe
<1>3. \A p \in Orders : Safe(p)' /\ Remembered(p)'
  BY <1>2, OthersSafe, OthersRemembered DEF Advanced, RemoteAll, RemoteInv
<1>4. (\A r \in RevokeCalls : RevokeFits(r)') /\ RevocationAnswered'
  BY DEF RemoteAll, RemoteInv, RevokeFits, RevocationAnswered, Advanced, revVars
<1> QED
  BY <1>1, <1>3, <1>4 DEF RemoteAll, RemoteInv, Safe

LEMMA EnrollRemoteKept ==
    ASSUME RemoteAll, ExchangeAssumption, NEW o \in Orders, EnrollRemote(o)
    PROVE  RemoteAll'
<1>1. /\ RemoteType /\ Safe(o) /\ KeyFits /\ UNCHANGED <<handler, revVars>>
      /\ 0 \notin Orders
  BY DEF RemoteAll, RemoteInv, Safe, EnrollRemote, ExchangeAssumption
<1>2. /\ row \in [Orders -> [cert : Nat, poll : Nat \cup {CaPage}]]
      /\ order \in [Orders -> {"processing", "valid", "invalid"}]
      /\ keyFile \in [key : Orders \cup {0}, account : Orders \cup {0}]
      /\ raced \in BOOLEAN
  BY <1>1 DEF RemoteType
<1>3. CASE LoadKey(o) \/ WriteKey(o) \/ Register(o) \/ NoteAccount(o)
  <2>1. /\ Quiet(o) /\ Safe(o)' /\ call' \in [Orders -> EnrollCall]
        /\ call'[o].at # "ended" /\ KeyFits'
        /\ keyFile' \in [key : Orders \cup {0}, account : Orders \cup {0}]
        /\ raced' \in BOOLEAN
    BY <1>1, <1>3, KeyKept
  <2>2. /\ UNCHANGED <<row, order, received, revoked, lost, handler>>
        /\ excused' \in {excused, excused \cup {o}}
    BY <2>1 DEF Quiet, dbVars, caVars
  <2>3. RemoteType'
    BY <1>1, <2>1, <2>2 DEF RemoteType, revVars
  <2>4. \A p \in Orders \ {o} : Untouched(p)
    BY <1>1, <2>1, QuietOthers
  <2>5. \A p \in Orders : Safe(p)'
    BY <1>1, <2>1, <2>4, OthersSafe DEF RemoteAll, RemoteInv, Safe
  <2>6. Remembered(o)'
    BY <2>1 DEF Remembered, At
  <2>7. \A p \in Orders : Remembered(p)'
    BY <2>4, <2>6, OthersRemembered DEF RemoteAll
  <2>8. (\A r \in RevokeCalls : RevokeFits(r)') /\ RevocationAnswered'
    BY <1>1, <2>2 DEF RemoteAll, RemoteInv, RevokeFits, RevocationAnswered, revVars
  <2> QED
    BY <2>1, <2>3, <2>5, <2>7, <2>8 DEF RemoteAll, RemoteInv, Safe
<1>4. ASSUME Rest, Advanced(o), Remembered(o)',
             row' \in [Orders -> [cert : Nat, poll : Nat \cup {CaPage}]],
             order' \in [Orders -> {"processing", "valid", "invalid"}]
      PROVE  RemoteAll'
  <2>1. UNCHANGED <<keyFile, raced>>
    BY <1>4 DEF Rest
  <2>2. /\ \A p \in Orders \ {o} : call'[p] = call[p]
        /\ call'[o].at \notin KeySteps
    BY <1>4 DEF Advanced, Untouched
  <2>3. KeyFits'
    BY <1>1, <2>1, <2>2, KeyQuiet
  <2> QED
    BY <1>1, <1>2, <1>4, <2>1, <2>3, OneAdvances
<1>5. CASE Rest /\ StoreAnswer(o)
  BY <1>1, <1>4, <1>5, StoreKept
<1>6. ASSUME Rest, Advanced(o), call'[o].at # "ended", UNCHANGED <<row, order>>
      PROVE  RemoteAll'
  <2>1. Remembered(o)'
    BY <1>6 DEF Remembered, At
  <2> QED
    BY <1>2, <1>4, <1>6, <2>1
<1>7. CASE Rest /\ Submit(o)
  BY <1>1, <1>6, <1>7, SubmitKept
<1>8. CASE Rest /\ DogtagApprove(o)
  BY <1>1, <1>6, <1>8, ApproveKept
<1>9. CASE /\ Rest
           /\ \/ Prepare(o) \/ Fail(o) \/ AnswerDirect(o) \/ CertifierReply(o) \/ CertifierWait(o)
              \/ DogtagReply(o) \/ DogtagNonce(o) \/ DogtagStatus(o) \/ DogtagFetch(o)
              \/ NclmReply(o) \/ NclmJob(o) \/ NclmFetch(o) \/ OpenxpkiReply(o)
  BY <1>1, <1>6, <1>9, CallKept
<1> QED
  BY <1>3, <1>5, <1>7, <1>8, <1>9 DEF EnrollRemote

LEMMA LaterStep ==
    ASSUME RemoteAll, NEW o \in Orders,
           Poll(o) \/ \E i \in DOMAIN received : received[i].order = o /\ Trigger(i)
    PROVE  RemoteAll'
<1>1. RemoteType /\ Safe(o) /\ KeyFits /\ Remembered(o)
  BY DEF RemoteAll, RemoteInv, Safe
<1>2. /\ Advanced(o) /\ Remembered(o)' /\ UNCHANGED <<call, received>>
      /\ row' \in [Orders -> [cert : Nat, poll : Nat \cup {CaPage}]]
      /\ order' \in [Orders -> {"processing", "valid", "invalid"}]
  BY <1>1, LaterKept
<1>3. UNCHANGED <<keyFile, raced, revVars>>
  BY DEF Poll, Trigger
<1>4. /\ keyFile' \in [key : Orders \cup {0}, account : Orders \cup {0}]
      /\ raced' \in BOOLEAN
  BY <1>1, <1>3 DEF RemoteType
<1>5. KeyFits'
  BY <1>1, <1>2, <1>3 DEF KeyFits, At
<1> QED
  BY <1>2, <1>3, <1>4, <1>5, OneAdvances

LEMMA RevokeStep ==
    ASSUME RemoteAll, ExchangeAssumption, NEW r \in RevokeCalls, RevokeRemote(r)
    PROVE  RemoteAll'
<1>1. /\ UNCHANGED <<handler, row, order, received, call, lost, excused, keyFile, raced>>
      /\ RemoteType /\ RevocationAnswered /\ \A q \in RevokeCalls : RevokeFits(q)
      /\ Handlers \subseteq Known
  BY DEF RevokeRemote, dbVars, RemoteAll, RemoteInv, ExchangeAssumption
<1>2. /\ rev' \in [RevokeCalls -> RevokeCall]
      /\ \A q \in RevokeCalls : RevokeFits(q)'
      /\ RevocationAnswered'
      /\ revoked' \subseteq Nat /\ jobs' \subseteq Nat
  BY <1>1, RevokeKept
<1>3. RemoteType'
  BY <1>1, <1>2 DEF RemoteType
<1>4. ASSUME NEW o \in Orders
      PROVE  Safe(o)' /\ Remembered(o)'
  <2>1. Untouched(o)
    BY <1>1 DEF Untouched, RequestsStay, Of, RemoteType
  <2> QED
    BY <1>1, <2>1, OthersSafe, OthersRemembered DEF RemoteAll, RemoteInv, Safe
<1>5. KeyFits'
  BY <1>1 DEF KeyFits, At, RemoteAll, RemoteInv
<1> QED
  BY <1>2, <1>3, <1>4, <1>5 DEF RemoteAll, RemoteInv, Safe

LEMMA CaKept ==
    ASSUME RemoteAll, Ca
    PROVE  RemoteAll'
<1>1. /\ UNCHANGED <<handler, row, order, call, lost, excused, keyFile, raced>>
      /\ RemoteType /\ RevocationAnswered
  BY DEF Ca, Decide, dbVars, RemoteAll, RemoteInv
<1>2. /\ RequestsStay /\ \A p \in Orders : Of(p)' = Of(p)
      /\ rev' = rev /\ revoked \subseteq revoked'
      /\ revoked' \subseteq Nat /\ jobs' \subseteq Nat
  <2>1. CASE \E i \in DOMAIN received : Decide(i) /\ UNCHANGED revVars
    <3>1. PICK i \in DOMAIN received : Decide(i) /\ UNCHANGED revVars
      BY <2>1
    <3>2. PICK state \in {"issued", "rejected"} : received' = [received EXCEPT ![i].state = state]
      BY <3>1 DEF Decide
    <3>3. RequestsStay /\ \A p \in Orders : Of(p)' = Of(p)
      BY <1>1, <3>1, <3>2, OneDecided DEF Decide
    <3> QED
      BY <1>1, <3>1, <3>3 DEF Decide, revVars, RemoteType
  <2>2. CASE (\E c \in jobs : RunJob(c)) /\ UNCHANGED received
    <3>1. RequestsStay /\ \A p \in Orders : Of(p)' = Of(p)
      BY <1>1, <2>2 DEF RequestsStay, Of, RemoteType
    <3> QED
      BY <1>1, <2>2, <3>1 DEF RunJob, RemoteType
  <2> QED
    BY <2>1, <2>2 DEF Ca
<1>3. RemoteType'
  BY <1>1, <1>2 DEF RemoteType, RequestsStay
<1>4. ASSUME NEW o \in Orders
      PROVE  Safe(o)' /\ Remembered(o)'
  <2>1. Untouched(o)
    BY <1>1, <1>2 DEF Untouched
  <2> QED
    BY <1>1, <2>1, OthersSafe, OthersRemembered DEF RemoteAll, RemoteInv, Safe
<1>5. KeyFits'
  BY <1>1 DEF KeyFits, At, RemoteAll, RemoteInv
<1>6. (\A r \in RevokeCalls : RevokeFits(r)') /\ RevocationAnswered'
  BY <1>1, <1>2 DEF RevokeFits, RevocationAnswered, RemoteAll, RemoteInv
<1> QED
  BY <1>3, <1>4, <1>5, <1>6 DEF RemoteAll, RemoteInv, Safe

LEMMA RemoteStep ==
    ASSUME RemoteAll, ExchangeAssumption, [RemoteNext]_remoteVars
    PROVE  RemoteAll'
<1>1. CASE \E o \in Orders : EnrollRemote(o)
  BY <1>1, EnrollRemoteKept
<1>2. CASE \E o \in Orders : Poll(o)
  BY <1>2, LaterStep
<1>3. CASE \E i \in DOMAIN received : Trigger(i)
  <2>1. PICK i \in DOMAIN received : Trigger(i)
    BY <1>3
  <2>2. received[i].order \in Orders
    BY RequestTypes DEF RemoteAll, RemoteInv
  <2> QED
    BY <2>1, <2>2, LaterStep
<1>4. CASE \E r \in RevokeCalls : RevokeRemote(r)
  BY <1>4, RevokeStep
<1>5. CASE Ca
  BY <1>5, CaKept
<1>6. CASE UNCHANGED remoteVars
  <2>1. /\ UNCHANGED <<handler, received, revoked, row, order, call, lost, excused>>
        /\ UNCHANGED <<keyFile, raced, rev, jobs>>
    BY <1>6 DEF remoteVars, enrollVars, dbVars, caVars, revVars
  <2>2. RemoteType' /\ KeyFits' /\ RevocationAnswered'
    BY <2>1 DEF RemoteAll, RemoteInv, RemoteType, KeyFits, RevocationAnswered, At
  <2>3. \A r \in RevokeCalls : RevokeFits(r)'
    BY <2>1 DEF RemoteAll, RemoteInv, RevokeFits
  <2>4. ASSUME NEW o \in Orders
        PROVE  Safe(o)' /\ Remembered(o)'
    <3>1. Untouched(o)
      BY <2>1 DEF Untouched, RequestsStay, Of, RemoteAll, RemoteInv, RemoteType
    <3> QED
      BY <3>1, OthersSafe, OthersRemembered DEF RemoteAll, RemoteInv, Safe
  <2> QED
    BY <2>2, <2>3, <2>4 DEF RemoteAll, RemoteInv, Safe
<1> QED
  BY <1>1, <1>2, <1>3, <1>4, <1>5, <1>6 DEF RemoteNext

-----------------------------------------------------------------------------

LEMMA RemoteAllHolds == RemoteSpec => []RemoteAll
<1>1. RemoteInit => RemoteAll
  BY RemoteInitFits, ExchangeAssumption
<1>2. RemoteAll /\ [RemoteNext]_remoteVars => RemoteAll'
  BY RemoteStep, ExchangeAssumption
<1> QED
  BY <1>1, <1>2, PTL DEF RemoteSpec

\* The invariant of the handlers that forward to a remote CA holds in every
\* state: what each handler is about to return describes the request it
\* follows (enroll of the CA handlers), and what certificate.py has stored
\* belongs to a request of its own order.
THEOREM RemoteInvariant == RemoteSpec => []RemoteInv
<1>1. RemoteAll => RemoteInv
  BY DEF RemoteAll
<1> QED
  BY <1>1, RemoteAllHolds, PTL

\* However often request_operation repeats a submission, an order leaves one
\* request at the CA, and one more for each answer that was lost.
THEOREM RequestsBounded == RemoteSpec => []OneRequest
<1>1. RemoteInv => OneRequest
  <2>1. SUFFICES ASSUME RemoteInv, NEW o \in Orders
                 PROVE  Cardinality(Of(o)) <= 1 + lost[o]
    BY DEF OneRequest
  <2>2. /\ Cardinality(Of(o)) <= lost[o] + (IF call[o].id = 0 THEN 0 ELSE 1)
        /\ lost[o] \in Nat
    BY <2>1 DEF RemoteInv, RemoteType, CallFits
  <2>3. Cardinality(Of(o)) \in Nat
    BY <2>1, OfDomain, FS_CardinalityType DEF RemoteInv
  <2> QED
    BY <2>2, <2>3
<1> QED
  BY <1>1, RemoteInvariant, PTL

\* When enroll of a handler has returned and its answer is stored, a request
\* that the CA has not rejected is not forgotten: its certificate is in the
\* row, or its poll identifier is with the order in processing, unless the
\* call missed something the CA knows.
THEOREM RequestsRemembered == RemoteSpec => []NothingForgotten
<1>1. RemoteAll => NothingForgotten
  <2>1. SUFFICES ASSUME RemoteAll, NEW i \in DOMAIN received,
                        At(received[i].order, "ended"), received[i].state # "rejected"
                 PROVE  LET o == received[i].order IN
                        \/ row[o].cert = i
                        \/ row[o].poll = i /\ order[o] = "processing"
                        \/ o \in excused
    BY DEF NothingForgotten
  <2>2. received[i].order \in Orders /\ i \in Of(received[i].order) /\ ~Rejected(i)
    BY <2>1, RequestTypes DEF RemoteAll, RemoteInv, Of, Rejected
  <2> QED
    BY <2>1, <2>2 DEF RemoteAll, Remembered
<1> QED
  BY <1>1, RemoteAllHolds, PTL

\* The account that acme_ca_handler.py notes in the key file is the one of the
\* key in it, unless two calls created the key at once or it was not written.
THEOREM AccountOfKey == RemoteSpec => []AccountFitsKey
<1>1. RemoteInv => AccountFitsKey
  BY DEF RemoteInv, KeyFits, AccountFitsKey
<1> QED
  BY <1>1, RemoteInvariant, PTL

\* A revocation that a handler answers with 200 was carried out by the CA,
\* except one of certifier that got no answer.
THEOREM RevocationsCarriedOut == RemoteSpec => []RevocationAnswered
<1>1. RemoteAll => RevocationAnswered
  BY DEF RemoteAll
<1> QED
  BY <1>1, RemoteAllHolds, PTL
=============================================================================
