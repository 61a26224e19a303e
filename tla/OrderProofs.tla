---------------------------- MODULE OrderProofs ----------------------------
(***************************************************************************)
(* The inductive invariant OrderInv of module Order and what follows from  *)
(* it, for any orders, authorizations, requests, faults and options.       *)
(*                                                                         *)
(* The frame lemmas say what a step may do to one part of the state:       *)
(* ServeStep and RequestStep to the locals of a request, StatusStep to the *)
(* status of an order, RowStep to a certificate row and its thread. The    *)
(* lemmas on the parts of OrderInv rest on them, the theorems on OrderInv. *)
(***************************************************************************)
EXTENDS Order, TLAPS

\* what cname and curl may hold
Names == Requests \cup {NoName, TimeoutName}

\* The helpers the actions of a request are written with keep its locals typed.
LEMMA LocalType ==
    ASSUME TypeOK, NEW r \in Requests
    PROVE  /\ \A l \in RequestPc : Goto(r, l) => pc' \in [Requests -> RequestPc]
           /\ \A c \in Codes : Respond(r, c) => /\ pc' \in [Requests -> RequestPc]
                                               /\ code' \in [Requests -> Codes]
           /\ \A n \in Names : Succeed(r, n) => /\ pc' \in [Requests -> RequestPc]
                                               /\ code' \in [Requests -> Codes]
                                               /\ cname' \in [Requests -> Names]
           /\ AfterDetails(r) => /\ pc' \in [Requests -> RequestPc]
                                 /\ curl' \in [Requests -> Names]
<1>1. \A l \in RequestPc : Goto(r, l) => pc' \in [Requests -> RequestPc]
  BY DEF TypeOK, Goto
<1>2. {"done", "order", "dispatch"} \subseteq RequestPc /\ {"none", "ok"} \subseteq Codes
  BY DEF RequestPc, Codes
<1>3. \A c \in Codes : Respond(r, c) => /\ pc' \in [Requests -> RequestPc]
                                       /\ code' \in [Requests -> Codes]
  BY <1>1, <1>2 DEF TypeOK, Respond
<1>4. \A n \in Names : Succeed(r, n) => /\ pc' \in [Requests -> RequestPc]
                                       /\ code' \in [Requests -> Codes]
                                       /\ cname' \in [Requests -> Names]
  BY <1>1, <1>2 DEF TypeOK, Succeed, Names
<1>5. AfterDetails(r) => /\ pc' \in [Requests -> RequestPc]
                        /\ curl' \in [Requests -> Names]
  BY <1>1, <1>2 DEF TypeOK, AfterDetails, CertificateUrl, Names
<1> QED
  BY <1>1, <1>3, <1>4, <1>5

\* The same for order rows, enrollment threads and back channel.
LEMMA RowType ==
    ASSUME TypeOK, NEW r \in Requests
    PROVE  /\ \A o \in Orders, s \in OrderStatus :
                  SetStatus(o, s) => ostatus' \in [Orders -> OrderStatus]
           /\ \A l \in ThreadPc : ThreadGoto(r, l) => tpc' \in [Requests -> ThreadPc]
           /\ \A x \in Outcome : ThreadResult(r, x) => tres' \in [Requests -> Outcome]
           /\ ThreadEnd(r) => /\ tpc' \in [Requests -> ThreadPc]
                              /\ tres' \in [Requests -> Outcome]
           /\ \A l \in {"idle", "store", "order", "reject"} : BackGoto(r, l) =>
                  bpc' \in [Requests -> {"idle", "store", "order", "reject"}]
<1>1. \A o \in Orders, s \in OrderStatus :
          SetStatus(o, s) => ostatus' \in [Orders -> OrderStatus]
  BY DEF TypeOK, SetStatus
<1>2. \A l \in ThreadPc : ThreadGoto(r, l) => tpc' \in [Requests -> ThreadPc]
  BY DEF TypeOK, ThreadGoto
<1>3. \A x \in Outcome : ThreadResult(r, x) => tres' \in [Requests -> Outcome]
  BY DEF TypeOK, ThreadResult
<1>4. "done" \in ThreadPc /\ "error" \in Outcome
  BY DEF ThreadPc, Outcome
<1>5. ThreadEnd(r) => /\ tpc' \in [Requests -> ThreadPc]
                     /\ tres' \in [Requests -> Outcome]
  BY <1>2, <1>3, <1>4 DEF TypeOK, ThreadEnd
<1>6. \A l \in {"idle", "store", "order", "reject"} : BackGoto(r, l) =>
          bpc' \in [Requests -> {"idle", "store", "order", "reject"}]
  BY DEF TypeOK, BackGoto
<1> QED
  BY <1>1, <1>2, <1>3, <1>5, <1>6

\* Every step preserves the types of the variables.
LEMMA OrderType == TypeOK /\ [Next]_vars => TypeOK'
<1> SUFFICES ASSUME TypeOK, [Next]_vars PROVE TypeOK'
  OBVIOUS
<1> USE DEF TypeOK, orderVars, authzVars, localVars, threadVars, ghostVars,
            OrderStatus, AuthzStatus, RowState, RequestPc, ThreadPc, Outcome, Codes
<1>1. ASSUME NEW o \in Orders, NewOrder(o) PROVE TypeOK'
  BY <1>1, OrderAssumption DEF NewOrder, SetStatus, Expiry
<1>2. ASSUME NEW o \in Orders, Created(o) PROVE TypeOK'
  BY <1>2 DEF Created
<1>3. ASSUME NEW o \in Orders, NEW a \in Authzs, AddAuthorization(o, a) PROVE TypeOK'
  <2>1. astatus' \in [Authzs -> AuthzStatus]
    BY <1>3 DEF AddAuthorization
  <2>2. Expiry(AuthzValidity) \in Nat
    BY OrderAssumption DEF Expiry
  <2>3. aexpires' \in [Authzs -> Nat]
    BY <1>3, <2>2 DEF AddAuthorization
  <2>4. npc' \in [Orders -> {"idle", "authzs", "done"}]
    BY <1>3 DEF AddAuthorization
  <2> QED
    BY <1>3, <2>1, <2>3, <2>4 DEF AddAuthorization
<1>4. ASSUME NEW a \in Authzs, ChallengeResult(a) PROVE TypeOK'
  BY <1>4 DEF ChallengeResult, Remember
<1>5. ASSUME NEW a \in Authzs, ExpireAuthorization(a) PROVE TypeOK'
  BY <1>5 DEF ExpireAuthorization
<1>6. ASSUME NEW r \in Requests, Receive(r) PROVE TypeOK'
  BY <1>6, OrderAssumption, LocalType, RowType DEF Receive, Names
<1>7. ASSUME NEW r \in Requests, SearchExpired(r) PROVE TypeOK'
  BY <1>7, OrderAssumption, LocalType, RowType DEF SearchExpired, ExpiredOrders, Names
<1>8. ASSUME NEW r \in Requests, InvalidateExpired(r) PROVE TypeOK'
  BY <1>8, OrderAssumption, LocalType, RowType DEF InvalidateExpired, Names
<1>9. ASSUME NEW r \in Requests, CheckMessage(r) PROVE TypeOK'
  BY <1>9, OrderAssumption, LocalType, RowType DEF CheckMessage, Names
<1>10. ASSUME NEW r \in Requests, ReadOrder(r) PROVE TypeOK'
  <2>1. seen' \in [Requests -> OrderStatus]
    BY <1>10, OrderAssumption DEF ReadOrder
  <2>2. pc' \in [Requests -> RequestPc] /\ code' \in [Requests -> Codes]
    BY <1>10, LocalType DEF ReadOrder, Names
  <2> QED
    BY <1>10, OrderAssumption, <2>1, <2>2 DEF ReadOrder, Names
<1>11. ASSUME NEW r \in Requests, ReadAuthorizations(r) PROVE TypeOK'
  BY <1>11, OrderAssumption, LocalType, RowType DEF ReadAuthorizations, Names
<1>12. ASSUME NEW r \in Requests, MarkReady(r) PROVE TypeOK'
  BY <1>12, OrderAssumption, LocalType, RowType DEF MarkReady, NoteReopened, Names
<1>13. ASSUME NEW r \in Requests, DispatchOrder(r) PROVE TypeOK'
  BY <1>13, OrderAssumption, LocalType, RowType DEF DispatchOrder, LookupCertificate,
       Rows, Names
<1>14. ASSUME NEW r \in Requests, ClaimOrder(r) PROVE TypeOK'
  BY <1>14, OrderAssumption, LocalType, RowType DEF ClaimOrder, Claimable, Names
<1>15. ASSUME NEW r \in Requests, CheckAuthorizations(r) PROVE TypeOK'
  BY <1>15, OrderAssumption, LocalType, RowType DEF CheckAuthorizations, Names
<1>16. ASSUME NEW r \in Requests, RejectOrder(r) PROVE TypeOK'
  BY <1>16, OrderAssumption, LocalType, RowType DEF RejectOrder, Names
<1>17. ASSUME NEW r \in Requests, SubmitCsr(r) PROVE TypeOK'
  <2>1. cert' \in [Requests -> RowState]
    BY <1>17, OrderAssumption DEF SubmitCsr
  <2>2. tpc' \in [Requests -> ThreadPc]
    BY <1>17, OrderAssumption DEF SubmitCsr
  <2>3. /\ pc' \in [Requests -> RequestPc] /\ code' \in [Requests -> Codes]
          /\ cname' \in [Requests -> Names]
    BY <1>17, LocalType DEF SubmitCsr, Names
  <2> QED
    BY <1>17, OrderAssumption, <2>1, <2>2, <2>3 DEF SubmitCsr, Names
<1>18. ASSUME NEW r \in Requests, JoinResult(r) PROVE TypeOK'
  BY <1>18, OrderAssumption, LocalType, RowType DEF JoinResult, Names
<1>19. ASSUME NEW r \in Requests, JoinTimeout(r) PROVE TypeOK'
  BY <1>19, OrderAssumption, LocalType, RowType DEF JoinTimeout, Names
<1>20. ASSUME NEW r \in Requests, MarkValid(r) PROVE TypeOK'
  BY <1>20, OrderAssumption, LocalType, RowType DEF MarkValid, Names
<1>21. ASSUME NEW r \in Requests, ViewAuthorization(r) PROVE TypeOK'
  <2>1. aexpires' \in [Authzs -> Nat]
    BY <1>21, OrderAssumption DEF ViewAuthorization, Expiry
  <2>2. pc' \in [Requests -> RequestPc] /\ code' \in [Requests -> Codes]
    BY <1>21, LocalType DEF ViewAuthorization, Names
  <2> QED
    BY <1>21, OrderAssumption, <2>1, <2>2 DEF ViewAuthorization, Remember, Names
<1>22. ASSUME NEW r \in Requests, Prevalidate(r) PROVE TypeOK'
  BY <1>22, OrderAssumption, LocalType, RowType DEF Prevalidate, Names
<1>23. ASSUME NEW r \in Requests, PrevalidateAuthorization(r) PROVE TypeOK'
  BY <1>23, OrderAssumption, LocalType, RowType DEF PrevalidateAuthorization,
       Remember, Names
<1>24. ASSUME NEW r \in Requests, PrevalidateOrder(r) PROVE TypeOK'
  BY <1>24, OrderAssumption, LocalType, RowType DEF PrevalidateOrder, NoteReopened,
       Names
<1>25. ASSUME NEW r \in Requests, CaEnroll(r) PROVE TypeOK'
  BY <1>25, OrderAssumption, LocalType, RowType DEF CaEnroll, threadRest, Names
<1>26. ASSUME NEW r \in Requests, StoreCertificate(r) PROVE TypeOK'
  BY <1>26, OrderAssumption, LocalType, RowType DEF StoreCertificate, threadRest, Names
<1>27. ASSUME NEW r \in Requests, ThreadMarkValid(r) PROVE TypeOK'
  BY <1>27, OrderAssumption, LocalType, RowType DEF ThreadMarkValid, threadRest, Names
<1>28. ASSUME NEW r \in Requests, ThreadMarkInvalid(r) PROVE TypeOK'
  BY <1>28, OrderAssumption, LocalType, RowType DEF ThreadMarkInvalid, threadRest, Names
<1>29. ASSUME NEW r \in Requests, SaveError(r) PROVE TypeOK'
  <2>1. cert' \in [Requests -> RowState]
    BY <1>29, OrderAssumption DEF SaveError, ErrorRow
  <2>2. tpc' \in [Requests -> ThreadPc] /\ tres' \in [Requests -> Outcome]
    BY <1>29, RowType DEF SaveError
  <2> QED
    BY <1>29, OrderAssumption, <2>1, <2>2 DEF SaveError, threadRest, Names
<1>30. ASSUME NEW r \in Requests, FindPending(r) PROVE TypeOK'
  BY <1>30, OrderAssumption, LocalType, RowType DEF FindPending, backRest, Names
<1>31. ASSUME NEW r \in Requests, BackStore(r) PROVE TypeOK'
  BY <1>31, OrderAssumption, LocalType, RowType DEF BackStore, backRest, Names
<1>32. ASSUME NEW r \in Requests, BackMark(r) PROVE TypeOK'
  BY <1>32, OrderAssumption, LocalType, RowType DEF BackMark, backRest, Names
<1>33. ASSUME NEW r \in Requests, Crash(r) PROVE TypeOK'
  BY <1>33 DEF Crash, Goto
<1>34. CASE Tick
  BY <1>34 DEF Tick
<1>35. CASE UNCHANGED vars
  BY <1>35 DEF vars
<1> QED
  BY <1>1, <1>2, <1>3, <1>4, <1>5, <1>6, <1>7, <1>8, <1>9, <1>10, <1>11, <1>12, <1>13,
       <1>14, <1>15, <1>16, <1>17, <1>18, <1>19, <1>20, <1>21, <1>22, <1>23, <1>24,
       <1>25, <1>26, <1>27, <1>28, <1>29, <1>30, <1>31, <1>32, <1>33, <1>34, <1>35
     DEF Next, Serve, Enroll, BackChannel

\* A step of the worker of r moves r from one label to a later one and leaves
\* the other requests, the clock and the creation of orders alone.
LEMMA ServeStep ==
    ASSUME TypeOK, NEW r \in Requests, Serve(r)
    PROVE  /\ pc[r] \notin {"idle", "done"}
           /\ \E l \in RequestPc \ {"idle", "search"} : pc' = [pc EXCEPT ![r] = l]
           /\ UNCHANGED <<now, oexpires, npc, known, arrived>>
           /\ \A q \in Requests \ {r} :
                  /\ todo'[q] = todo[q] /\ code'[q] = code[q] /\ seen'[q] = seen[q]
                  /\ cname'[q] = cname[q] /\ curl'[q] = curl[q]
<1> USE DEF TypeOK, RequestPc, orderVars, localVars
<1>1. CASE SearchExpired(r)
  BY <1>1 DEF SearchExpired, Goto
<1>2. CASE InvalidateExpired(r)
  BY <1>2 DEF InvalidateExpired, Goto
<1>3. CASE CheckMessage(r)
  BY <1>3 DEF CheckMessage, Goto, Respond
<1>4. CASE ReadOrder(r)
  BY <1>4 DEF ReadOrder, Goto, Respond
<1>5. CASE ReadAuthorizations(r)
  BY <1>5 DEF ReadAuthorizations, Goto, AfterDetails
<1>6. CASE MarkReady(r)
  BY <1>6 DEF MarkReady, Goto, Respond, AfterDetails
<1>7. CASE DispatchOrder(r)
  BY <1>7 DEF DispatchOrder, Goto, Respond, LookupCertificate, Succeed
<1>8. CASE ClaimOrder(r)
  BY <1>8 DEF ClaimOrder, Goto, Respond
<1>9. CASE CheckAuthorizations(r)
  BY <1>9 DEF CheckAuthorizations, Goto
<1>10. CASE RejectOrder(r)
  BY <1>10 DEF RejectOrder, Goto, Respond
<1>11. CASE SubmitCsr(r)
  BY <1>11 DEF SubmitCsr, Goto, Respond, Succeed
<1>12. CASE JoinResult(r)
  BY <1>12 DEF JoinResult, Goto, Respond, Succeed
<1>13. CASE JoinTimeout(r)
  BY <1>13 DEF JoinTimeout, Goto, Succeed
<1>14. CASE MarkValid(r)
  BY <1>14 DEF MarkValid, Goto, Respond, Succeed
<1>15. CASE ViewAuthorization(r)
  BY <1>15 DEF ViewAuthorization, Goto, Respond
<1>16. CASE Prevalidate(r)
  BY <1>16 DEF Prevalidate, Goto, Respond
<1>17. CASE PrevalidateAuthorization(r)
  BY <1>17 DEF PrevalidateAuthorization, Goto, Respond
<1>18. CASE PrevalidateOrder(r)
  BY <1>18 DEF PrevalidateOrder, Goto, Respond
<1> QED
  BY <1>1, <1>2, <1>3, <1>4, <1>5, <1>6, <1>7, <1>8, <1>9, <1>10, <1>11, <1>12, <1>13,
       <1>14, <1>15, <1>16, <1>17, <1>18 DEF Serve

\* the status stays, or the order is claimed, ended, or set to ready, which is
\* noted unless it was still open
StatusChange(o) ==
    \/ ostatus'[o] = ostatus[o]
    \/ ostatus'[o] \in {"processing", "valid", "invalid"}
    \/ /\ ostatus'[o] = "ready"
       /\ ostatus[o] \in {"pending", "ready"} \/ o \in reopened'

\* What a step may do to the status of an order that clients know.
LEMMA StatusStep ==
    ASSUME OrderInv, [Next]_vars
    PROVE  /\ \A o \in known : StatusChange(o) /\ oexpires'[o] = oexpires[o]
           /\ known \subseteq known' /\ reopened \subseteq reopened' /\ lost \subseteq lost'
           /\ everOK \subseteq everOK' /\ now <= now'
<1> DEFINE Grows == /\ known \subseteq known' /\ reopened \subseteq reopened'
                    /\ lost \subseteq lost' /\ everOK \subseteq everOK'
                    /\ now <= now'
           Changes == \A o \in known : StatusChange(o) /\ oexpires'[o] = oexpires[o]
           Frame == /\ UNCHANGED <<ostatus, oexpires, reopened, lost>>
                    /\ known \subseteq known' /\ everOK \subseteq everOK'
                    /\ now <= now'
<1> USE DEF OrderInv, TypeOK, StatusChange
<1>1. ASSUME NEW o \in Orders, NewOrder(o) PROVE Grows /\ Changes
  BY <1>1 DEF NewOrder, SetStatus, RequestsKnown, ghostVars
<1>2. ASSUME NEW r \in Requests, InvalidateExpired(r) PROVE Grows /\ Changes
  BY <1>2 DEF InvalidateExpired, SetStatus, ghostVars
<1>3. ASSUME NEW r \in Requests, MarkReady(r) PROVE Grows /\ Changes
  BY <1>3 DEF MarkReady, SetStatus, NoteReopened, ghostVars
<1>4. ASSUME NEW r \in Requests, ClaimOrder(r) PROVE Grows /\ Changes
  BY <1>4 DEF ClaimOrder, SetStatus, ghostVars
<1>5. ASSUME NEW r \in Requests, RejectOrder(r) PROVE Grows /\ Changes
  BY <1>5 DEF RejectOrder, SetStatus, ghostVars
<1>6. ASSUME NEW r \in Requests, MarkValid(r) PROVE Grows /\ Changes
  BY <1>6 DEF MarkValid, SetStatus, ghostVars
<1>7. ASSUME NEW r \in Requests, ThreadMarkValid(r) PROVE Grows /\ Changes
  BY <1>7 DEF ThreadMarkValid, SetStatus, threadRest, ghostVars
<1>8. ASSUME NEW r \in Requests, ThreadMarkInvalid(r) PROVE Grows /\ Changes
  BY <1>8 DEF ThreadMarkInvalid, SetStatus, threadRest, ghostVars
<1>9. ASSUME NEW r \in Requests, BackMark(r) PROVE Grows /\ Changes
  BY <1>9 DEF BackMark, SetStatus, backRest, ghostVars
<1>10. ASSUME NEW r \in Requests, PrevalidateOrder(r) PROVE Grows /\ Changes
  BY <1>10 DEF PrevalidateOrder, SetStatus, NoteReopened, ghostVars
<1>11. ASSUME NEW o \in Orders, Created(o)
       PROVE  Frame
  BY <1>11 DEF Created, orderVars, ghostVars
<1>12. ASSUME NEW o \in Orders, NEW a \in Authzs, AddAuthorization(o, a)
       PROVE  Frame
  BY <1>12 DEF AddAuthorization, orderVars, ghostVars
<1>13. ASSUME NEW a \in Authzs, ChallengeResult(a) \/ ExpireAuthorization(a)
       PROVE  Frame
  BY <1>13 DEF ChallengeResult, Remember, ExpireAuthorization, orderVars, ghostVars
<1>14. ASSUME NEW r \in Requests,
              Receive(r) \/ CheckMessage(r) \/ ReadOrder(r) \/ ReadAuthorizations(r)
       PROVE  Frame
  BY <1>14 DEF Receive, CheckMessage, ReadOrder, ReadAuthorizations, orderVars,
       ghostVars
<1>15. ASSUME NEW r \in Requests,
              DispatchOrder(r) \/ CheckAuthorizations(r) \/ SubmitCsr(r)
              \/ JoinResult(r) \/ JoinTimeout(r)
       PROVE  Frame
  BY <1>15 DEF DispatchOrder, CheckAuthorizations, SubmitCsr, JoinResult, JoinTimeout,
       orderVars, ghostVars
<1>16. ASSUME NEW r \in Requests,
              ViewAuthorization(r) \/ Prevalidate(r) \/ PrevalidateAuthorization(r)
              \/ Crash(r)
       PROVE  Frame
  BY <1>16 DEF ViewAuthorization, Remember, Prevalidate, PrevalidateAuthorization,
       Crash, orderVars, ghostVars
<1>17. ASSUME NEW r \in Requests,
              SearchExpired(r) \/ CaEnroll(r) \/ StoreCertificate(r) \/ SaveError(r)
              \/ FindPending(r) \/ BackStore(r)
       PROVE  Grows /\ Changes
  BY <1>17 DEF SearchExpired, CaEnroll, StoreCertificate, SaveError, FindPending,
       BackStore, threadRest, backRest, orderVars, ghostVars
<1>18. ASSUME Tick \/ UNCHANGED vars PROVE Frame
  BY <1>18 DEF Tick, vars, orderVars, ghostVars
<1>19. ASSUME Frame PROVE Grows /\ Changes
  BY <1>19
<1> HIDE DEF OrderInv, TypeOK, StatusChange, Grows, Changes, Frame
<1>20. Grows /\ Changes
  BY <1>1, <1>2, <1>3, <1>4, <1>5, <1>6, <1>7, <1>8, <1>9, <1>10, <1>11, <1>12, <1>13,
       <1>14, <1>15, <1>16, <1>17, <1>18, <1>19
     DEF Next, Serve, Enroll, BackChannel
<1> QED
  BY <1>20 DEF Grows, Changes

\* the locals of q stay as they are, except that a crash ends it
Undisturbed(q) ==
    /\ arrived'[q] = arrived[q] /\ todo'[q] = todo[q] /\ code'[q] = code[q]
    /\ seen'[q] = seen[q] /\ cname'[q] = cname[q] /\ curl'[q] = curl[q]
    /\ pc'[q] = pc[q] \/ (pc[q] # "idle" /\ pc'[q] = "done")

\* A step serves q, receives it or leaves it alone.
LEMMA RequestStep ==
    ASSUME OrderInv, [Next]_vars, NEW q \in Requests
    PROVE  Serve(q) \/ Receive(q) \/ Undisturbed(q)
<1> USE DEF OrderInv, TypeOK, Undisturbed
<1>1. ASSUME NEW r \in Requests, Serve(r), r # q PROVE Undisturbed(q)
  BY <1>1, ServeStep
<1>2. ASSUME NEW r \in Requests, Receive(r), r # q PROVE Undisturbed(q)
  BY <1>2 DEF Receive, Goto
<1>3. ASSUME NEW r \in Requests, Crash(r) PROVE Undisturbed(q)
  BY <1>3 DEF Crash, Goto, localVars, RowsOfSubmitted, BeforeCsr
<1>4. ASSUME UNCHANGED <<pc, localVars>> PROVE Undisturbed(q)
  BY <1>4 DEF localVars
<1> HIDE DEF OrderInv, TypeOK, Undisturbed
<1>5. ASSUME NEW r \in Requests, Enroll(r) \/ BackChannel(r)
      PROVE  UNCHANGED <<pc, localVars>>
  BY <1>5 DEF Enroll, BackChannel, CaEnroll, StoreCertificate, ThreadMarkValid,
              ThreadMarkInvalid, SaveError, FindPending, BackStore, BackMark,
              threadRest, backRest
<1>6. ASSUME NEW o \in Orders, NewOrder(o) \/ Created(o)
      PROVE  UNCHANGED <<pc, localVars>>
  BY <1>6 DEF NewOrder, Created
<1>7. ASSUME NEW o \in Orders, NEW a \in Authzs, AddAuthorization(o, a)
      PROVE  UNCHANGED <<pc, localVars>>
  BY <1>7 DEF AddAuthorization
<1>8. ASSUME NEW a \in Authzs, ChallengeResult(a) \/ ExpireAuthorization(a)
      PROVE  UNCHANGED <<pc, localVars>>
  BY <1>8 DEF ChallengeResult, ExpireAuthorization
<1>9. ASSUME Tick \/ UNCHANGED vars PROVE UNCHANGED <<pc, localVars>>
  BY <1>9 DEF Tick, vars
<1> QED
  BY <1>1, <1>2, <1>3, <1>4, <1>5, <1>6, <1>7, <1>8, <1>9 DEF Next

\* An order that clients know stays completely created.
LEMMA KnownStep ==
    ASSUME OrderInv, [Next]_vars
    PROVE  \A o \in known' : npc'[o] = "done" /\ (StoredAuthz(o))' = AuthzOf(o)
<1> DEFINE Complete(o) == npc'[o] = "done" /\ \A a \in AuthzOf(o) : astatus'[a] # "none"
<1> SUFFICES ASSUME NEW o \in known' PROVE Complete(o)
  BY DEF StoredAuthz, AuthzOf
<1>1. o \in known => npc[o] = "done" /\ \A a \in AuthzOf(o) : astatus[a] # "none"
  BY DEF OrderInv, RequestsKnown, StoredAuthz
<1> USE DEF OrderInv, TypeOK
<1>2. ASSUME NEW p \in Orders, NewOrder(p) PROVE Complete(o)
  BY <1>1, <1>2 DEF NewOrder, authzVars
<1>3. ASSUME NEW p \in Orders, Created(p) PROVE Complete(o)
  <2>1. o = p => \A a \in AuthzOf(o) : astatus[a] # "none"
    BY <1>3 DEF Created, StoredAuthz
  <2> QED
    BY <1>1, <1>3, <2>1 DEF Created, authzVars
<1>4. ASSUME NEW p \in Orders, NEW a \in Authzs, AddAuthorization(p, a)
      PROVE  Complete(o)
  <2>1. o \in known /\ \A b \in Authzs : astatus[b] # "none" => astatus'[b] # "none"
    BY <1>4 DEF AddAuthorization
  <2>2. npc[o] = "done" => npc'[o] = "done"
    BY <1>4 DEF AddAuthorization
  <2> QED
    BY <1>1, <2>1, <2>2 DEF AuthzOf
<1>5. ASSUME NEW a \in Authzs, ChallengeResult(a) PROVE Complete(o)
  BY <1>1, <1>5 DEF ChallengeResult, orderVars
<1>6. ASSUME NEW a \in Authzs, ExpireAuthorization(a) PROVE Complete(o)
  BY <1>1, <1>6 DEF ExpireAuthorization, orderVars
<1>7. ASSUME NEW r \in Requests, PrevalidateAuthorization(r) PROVE Complete(o)
  <2>1. UNCHANGED <<known, npc>>
    BY <1>7 DEF PrevalidateAuthorization, orderVars
  <2>2. \A b \in Authzs : astatus[b] # "none" => astatus'[b] # "none"
    BY <1>7 DEF PrevalidateAuthorization
  <2> QED
    BY <1>1, <2>1, <2>2 DEF AuthzOf
<1>8. ASSUME UNCHANGED <<known, npc, astatus>> PROVE Complete(o)
  BY <1>1, <1>8
<1> HIDE DEF OrderInv, TypeOK, Complete
<1>9. ASSUME NEW r \in Requests, Serve(r) PROVE PrevalidateAuthorization(r) \/ Complete(o)
  <2>1. UNCHANGED <<known, npc>>
    BY <1>9, ServeStep DEF OrderInv
  <2>2. PrevalidateAuthorization(r) \/ UNCHANGED astatus
    BY <1>9 DEF Serve, SearchExpired, InvalidateExpired, CheckMessage, ReadOrder,
         ReadAuthorizations, MarkReady, DispatchOrder, ClaimOrder,
         CheckAuthorizations, RejectOrder, SubmitCsr, JoinResult, JoinTimeout,
         MarkValid, ViewAuthorization, Prevalidate, PrevalidateOrder, authzVars
  <2> QED
    BY <1>8, <2>1, <2>2
<1>10. ASSUME NEW r \in Requests,
              Receive(r) \/ Enroll(r) \/ BackChannel(r) \/ Crash(r)
       PROVE  UNCHANGED <<known, npc, astatus>>
  BY <1>10 DEF Receive, Enroll, BackChannel, Crash, CaEnroll, StoreCertificate,
       ThreadMarkValid, ThreadMarkInvalid, SaveError, FindPending, BackStore, BackMark,
       threadRest, backRest, orderVars, authzVars
<1>11. ASSUME Tick \/ UNCHANGED vars PROVE UNCHANGED <<known, npc, astatus>>
  BY <1>11 DEF Tick, vars, orderVars, authzVars
<1> QED
  BY <1>2, <1>3, <1>4, <1>5, <1>6, <1>7, <1>8, <1>9, <1>10, <1>11 DEF Next

\* Requests serve known orders, and an authorization request never gets to the
\* steps of an order request.
LEMMA RequestsKnownStep == OrderInv /\ [Next]_vars => RequestsKnown'
<1> SUFFICES ASSUME OrderInv, [Next]_vars PROVE RequestsKnown'
  OBVIOUS
<1>1. known \subseteq known' /\ now <= now' /\ now \in Nat /\ now' \in Nat
  BY StatusStep, OrderType DEF OrderInv, TypeOK
<1>2. ASSUME NEW q \in Requests
      PROVE  /\ pc'[q] # "idle" => Target[q] \in known'
             /\ arrived'[q] <= now'
             /\ Kind[q] = "authz" => /\ pc'[q] \in AuthzPc
                                     /\ \/ pc'[q] = "idle"
                                        \/ OrderOf[AuthzTarget[q]] = Target[q]
  <2> USE <1>1 DEF OrderInv, TypeOK, RequestsKnown
  <2>1. CASE Serve(q)
    <3>1. pc[q] # "idle" /\ pc'[q] # "idle" /\ arrived'[q] = arrived[q]
      BY <2>1, ServeStep
    <3>2. Kind[q] = "authz" => pc'[q] \in AuthzPc
      BY <2>1 DEF Serve, SearchExpired, InvalidateExpired, CheckMessage, ReadOrder,
           ReadAuthorizations, MarkReady, DispatchOrder, ClaimOrder,
           CheckAuthorizations, RejectOrder, SubmitCsr, JoinResult, JoinTimeout,
           MarkValid, ViewAuthorization, Prevalidate, PrevalidateAuthorization,
           PrevalidateOrder, Goto, Respond, AuthzPc
    <3> QED
      BY <3>1, <3>2
  <2>2. CASE Receive(q)
    BY <2>2 DEF Receive, Goto, AuthzPc
  <2>3. CASE Undisturbed(q)
    BY <2>3 DEF Undisturbed, AuthzPc
  <2> QED
    BY <2>1, <2>2, <2>3, RequestStep
<1>3. \A o \in known' : npc'[o] = "done" /\ (StoredAuthz(o))' = AuthzOf(o)
  BY KnownStep
<1> QED
  BY <1>2, <1>3 DEF RequestsKnown, AuthzOf

\* Only ClaimOrder claims.
LEMMA ClaimedByClaim ==
    ASSUME [Next]_vars
    PROVE  UNCHANGED claimed \/ \E r \in Requests : ClaimOrder(r)
BY DEF Next, Serve, Enroll, BackChannel, vars, ghostVars, threadRest, backRest,
       NewOrder, Created, AddAuthorization, ChallengeResult, ExpireAuthorization, Receive,
       SearchExpired, InvalidateExpired, CheckMessage, ReadOrder, ReadAuthorizations,
       MarkReady, DispatchOrder, CheckAuthorizations, RejectOrder, SubmitCsr,
       JoinResult, JoinTimeout, MarkValid, ViewAuthorization, Prevalidate,
       PrevalidateAuthorization, PrevalidateOrder, CaEnroll, StoreCertificate,
       ThreadMarkValid, ThreadMarkInvalid, SaveError, Crash, FindPending, BackStore,
       BackMark, Tick

\* Only the enrollment thread asks the CA.
LEMMA AskedByThread ==
    ASSUME OrderInv, [Next]_vars, NEW q \in asked'
    PROVE  q \in asked \/ (q \in Requests /\ tpc[q] = "enroll")
<1>1. UNCHANGED asked \/ \E r \in Requests : CaEnroll(r)
  BY DEF Next, Serve, Enroll, BackChannel, vars, ghostVars, threadRest, backRest,
       NewOrder, Created, AddAuthorization, ChallengeResult, ExpireAuthorization, Receive,
       SearchExpired, InvalidateExpired, CheckMessage, ReadOrder, ReadAuthorizations,
       MarkReady, DispatchOrder, ClaimOrder, CheckAuthorizations, RejectOrder, SubmitCsr,
       JoinResult, JoinTimeout, MarkValid, ViewAuthorization, Prevalidate,
       PrevalidateAuthorization, PrevalidateOrder, StoreCertificate,
       ThreadMarkValid, ThreadMarkInvalid, SaveError, Crash, FindPending, BackStore,
       BackMark, Tick
<1> QED
  BY <1>1 DEF CaEnroll

\* A claimed order stays out of pending and ready unless it was reopened.
LEMMA ClaimsKeptStep == OrderInv /\ [Next]_vars => ClaimsKept'
<1> SUFFICES ASSUME OrderInv, [Next]_vars, NEW q \in claimed'
             PROVE  /\ pc'[q] # "idle"
                    /\ \/ Target[q] \in reopened'
                       \/ ostatus'[Target[q]] \notin {"none", "pending", "ready"}
  BY DEF ClaimsKept
<1>1. q \in Requests
  BY OrderType DEF OrderInv, TypeOK
<1>2. CASE q \in claimed
  <2>1. pc[q] # "idle" /\ Target[q] \in known
    BY <1>1, <1>2 DEF OrderInv, ClaimsKept, RequestsKnown
  <2>2. pc'[q] # "idle"
    BY <1>1, <2>1, RequestStep, ServeStep DEF OrderInv, TypeOK, Receive, Undisturbed
  <2>3. StatusChange(Target[q]) /\ reopened \subseteq reopened'
    BY <2>1, StatusStep
  <2> QED
    BY <1>2, <2>2, <2>3 DEF OrderInv, ClaimsKept, StatusChange
<1>3. CASE q \notin claimed
  <2>1. ClaimOrder(q)
    <3>1. PICK r \in Requests : ClaimOrder(r)
      BY <1>3, ClaimedByClaim
    <3> QED
      BY <1>3, <3>1 DEF ClaimOrder
  <2>2. ostatus'[Target[q]] = "processing" /\ pc'[q] = "authorize"
    BY <1>1, <1>3, <2>1, OrderAssumption DEF OrderInv, TypeOK, ClaimOrder, SetStatus,
         Goto
  <2> QED
    BY <2>2
<1> QED
  BY <1>2, <1>3

\* An order that request q may not claim does not become claimable for q.
LEMMA UnclaimableStep ==
    ASSUME OrderInv, [Next]_vars, NEW q \in Requests, Target[q] \in known,
           Unclaimable(q), arrived'[q] = arrived[q]
    PROVE  Unclaimable(q)'
<1>1. /\ StatusChange(Target[q]) /\ oexpires'[Target[q]] = oexpires[Target[q]]
      /\ reopened \subseteq reopened' /\ lost \subseteq lost'
  BY StatusStep
<1> QED
  BY <1>1 DEF Unclaimable, StatusChange

\* A request is past the expiry check only with an order it may not claim or
\* one that has not expired.
LEMMA ExpirySeenStep == OrderInv /\ [Next]_vars => ExpirySeen'
<1> SUFFICES ASSUME OrderInv, [Next]_vars, ~ExpiryCheckDisable, NEW q \in Requests,
                    Kind[q] # "authz", pc'[q] \notin {"idle", "search", "done"}
             PROVE  Unclaimable(q)' \/ (pc'[q] = "expire" /\ Target[q] \in todo'[q])
  BY DEF ExpirySeen, Unclaimable
<1> USE DEF OrderInv, TypeOK
<1>1. CASE Receive(q)
  BY <1>1 DEF Receive, Goto
<1>2. ASSUME pc[q] # "idle" PROVE Target[q] \in known /\ Target[q] \in Orders
  BY <1>2, OrderAssumption DEF RequestsKnown
<1>3. CASE Undisturbed(q)
  <2>1. pc'[q] = pc[q] /\ arrived'[q] = arrived[q] /\ todo'[q] = todo[q]
    BY <1>3 DEF Undisturbed
  <2>2. Unclaimable(q) \/ (pc[q] = "expire" /\ Target[q] \in todo[q])
    BY <2>1 DEF ExpirySeen
  <2> QED
    BY <1>2, <2>1, <2>2, UnclaimableStep
<1>4. CASE Serve(q)
  <2>1. pc[q] \notin {"idle", "done"} /\ arrived'[q] = arrived[q] /\ arrived[q] <= now
    BY <1>4, ServeStep DEF RequestsKnown
  <2>2. CASE SearchExpired(q)
    <3>1. \/ Target[q] \notin ExpiredOrders
          \/ pc'[q] = "expire" /\ Target[q] \in todo'[q]
          \/ Unclaimable(q)'
      BY <2>2 DEF SearchExpired, Goto, Unclaimable
    <3>2. Target[q] \notin ExpiredOrders => Unclaimable(q)
      BY <1>2, <2>1 DEF ExpiredOrders, Unclaimable
    <3> QED
      BY <1>2, <2>1, <3>1, <3>2, UnclaimableStep
  <2>3. CASE InvalidateExpired(q)
    <3>1. CASE Unclaimable(q)
      BY <1>2, <2>1, <3>1, UnclaimableStep
    <3>2. CASE Target[q] \in todo[q]
      <4>1. PICK o \in todo[q] :
              /\ todo'[q] = todo[q] \ {o}
              /\ \/ ostatus' = [ostatus EXCEPT ![o] = "invalid"]
                 \/ lost' = lost \cup {o}
              /\ pc'[q] = IF todo[q] = {o} THEN "check" ELSE "expire"
        BY <2>3 DEF InvalidateExpired, SetStatus, Goto
      <4>2. CASE o = Target[q]
        BY <1>2, <2>1, <4>1, <4>2 DEF Unclaimable
      <4>3. CASE o # Target[q]
        BY <3>2, <4>1, <4>3
      <4> QED
        BY <4>2, <4>3
    <3> QED
      BY <2>3, <3>1, <3>2 DEF InvalidateExpired, ExpirySeen
  <2>4. CASE ~SearchExpired(q) /\ ~InvalidateExpired(q)
    <3>1. pc[q] \notin {"search", "expire"}
      BY <1>4, <2>4 DEF Serve, CheckMessage, ReadOrder, ReadAuthorizations, MarkReady,
           DispatchOrder, ClaimOrder, CheckAuthorizations, RejectOrder, SubmitCsr,
           JoinResult, JoinTimeout, MarkValid, ViewAuthorization, Prevalidate,
           PrevalidateAuthorization, PrevalidateOrder
    <3>2. Unclaimable(q)
      BY <2>1, <3>1 DEF ExpirySeen
    <3> QED
      BY <1>2, <2>1, <3>2, UnclaimableStep
  <2> QED
    BY <2>2, <2>3, <2>4
<1> QED
  BY <1>1, <1>3, <1>4, RequestStep

\* Every order that becomes fully authorized is noted in everOK.
LEMMA AuthorizedNoted ==
    ASSUME OrderInv, [Next]_vars, NEW o \in Orders, Authorized(o)'
    PROVE  o \in everOK'
<1> USE DEF OrderInv, TypeOK
<1>1. CASE Remember
  BY <1>1 DEF Remember
<1>2. ASSUME Authorized(o) PROVE o \in everOK'
  BY <1>2, StatusStep DEF EnrollAuthorized
<1>3. CASE UNCHANGED <<now, astatus, aexpires>>
  BY <1>2, <1>3 DEF Authorized, AuthzOf, Unexpired
<1>4. ASSUME NEW p \in Orders, NEW a \in Authzs, AddAuthorization(p, a)
      PROVE  o \in everOK'
  <2>1. \A b \in Authzs : astatus'[b] = "valid" =>
            astatus[b] = "valid" /\ aexpires'[b] = aexpires[b] /\ now' = now
    BY <1>4 DEF AddAuthorization
  <2> QED
    BY <1>2, <2>1 DEF Authorized, AuthzOf, Unexpired
<1>5. ASSUME NEW a \in Authzs, ExpireAuthorization(a) PROVE o \in everOK'
  <2>1. \A b \in Authzs : astatus'[b] = "valid" =>
            astatus[b] = "valid" /\ aexpires'[b] = aexpires[b] /\ now' = now
    BY <1>5 DEF ExpireAuthorization
  <2> QED
    BY <1>2, <2>1 DEF Authorized, AuthzOf, Unexpired
<1>6. CASE Tick
  <2>1. UNCHANGED <<astatus, aexpires>> /\ now' = now + 1
    BY <1>6 DEF Tick, authzVars
  <2> QED
    BY <1>2, <2>1 DEF Authorized, AuthzOf, Unexpired
<1> HIDE DEF OrderInv, TypeOK
<1>7. ASSUME NEW r \in Requests, Serve(r)
      PROVE  Remember \/ UNCHANGED <<now, astatus, aexpires>>
  BY <1>7 DEF Serve, SearchExpired, InvalidateExpired, CheckMessage, ReadOrder,
       ReadAuthorizations, MarkReady, DispatchOrder, ClaimOrder, CheckAuthorizations,
       RejectOrder, SubmitCsr, JoinResult, JoinTimeout, MarkValid, ViewAuthorization,
       Prevalidate, PrevalidateAuthorization, PrevalidateOrder, authzVars
<1>8. ASSUME NEW r \in Requests, Receive(r) \/ Enroll(r) \/ BackChannel(r) \/ Crash(r)
      PROVE  UNCHANGED <<now, astatus, aexpires>>
  BY <1>8 DEF Receive, Enroll, BackChannel, Crash, CaEnroll, StoreCertificate,
       ThreadMarkValid, ThreadMarkInvalid, SaveError, FindPending, BackStore, BackMark,
       threadRest, backRest, authzVars
<1>9. ASSUME NEW p \in Orders, NewOrder(p) \/ Created(p)
      PROVE  UNCHANGED <<now, astatus, aexpires>>
  BY <1>9 DEF NewOrder, Created, authzVars
<1>10. ASSUME NEW a \in Authzs, ChallengeResult(a) PROVE Remember
  BY <1>10 DEF ChallengeResult
<1>11. CASE UNCHANGED vars
  BY <1>3, <1>11 DEF vars, authzVars
<1> QED
  BY <1>1, <1>3, <1>4, <1>5, <1>6, <1>7, <1>8, <1>9, <1>10, <1>11 DEF Next

\* row, thread and back channel of q stay as they are, except for a crash
Alone(q) ==
    /\ cert'[q] = cert[q] /\ bpc'[q] = bpc[q] /\ tres'[q] = tres[q]
    /\ tpc'[q] = tpc[q] \/ (tpc[q] # "idle" /\ tpc'[q] = "dead")

\* A step that changes the certificate row of q submits its CSR or belongs to its
\* enrollment thread or its back channel.
LEMMA RowStep ==
    ASSUME OrderInv, [Next]_vars, NEW q \in Requests
    PROVE  SubmitCsr(q) \/ Enroll(q) \/ BackChannel(q) \/ Alone(q)
<1> USE DEF OrderInv, TypeOK, Alone
<1>1. ASSUME NEW r \in Requests, SubmitCsr(r), r # q PROVE Alone(q)
  BY <1>1 DEF SubmitCsr
<1>2. ASSUME NEW r \in Requests, Enroll(r), r # q PROVE Alone(q)
  BY <1>2 DEF Enroll, CaEnroll, StoreCertificate, ThreadMarkValid, ThreadMarkInvalid,
       SaveError, ThreadGoto, ThreadEnd, ThreadResult, threadRest
<1>3. ASSUME NEW r \in Requests, BackChannel(r), r # q PROVE Alone(q)
  BY <1>3 DEF BackChannel, FindPending, BackStore, BackMark, BackGoto, backRest,
       threadVars
<1>4. ASSUME NEW r \in Requests, Crash(r) PROVE Alone(q)
  BY <1>4 DEF Crash
<1>5. CASE UNCHANGED <<cert, tpc, tres, bpc>>
  BY <1>5
<1> HIDE DEF OrderInv, TypeOK, Alone
<1>6. ASSUME NEW r \in Requests, Serve(r) PROVE SubmitCsr(r) \/ UNCHANGED <<cert, tpc, tres, bpc>>
  BY <1>6 DEF Serve, SearchExpired, InvalidateExpired, CheckMessage, ReadOrder,
       ReadAuthorizations, MarkReady, DispatchOrder, ClaimOrder, CheckAuthorizations,
       RejectOrder, JoinResult, JoinTimeout, MarkValid, ViewAuthorization,
       Prevalidate, PrevalidateAuthorization, PrevalidateOrder, threadVars
<1>7. ASSUME NEW r \in Requests, Receive(r) PROVE UNCHANGED <<cert, tpc, tres, bpc>>
  BY <1>7 DEF Receive, threadVars
<1>8. ASSUME NEW o \in Orders, NewOrder(o) \/ Created(o) PROVE UNCHANGED <<cert, tpc, tres, bpc>>
  BY <1>8 DEF NewOrder, Created, threadVars
<1>9. ASSUME NEW o \in Orders, NEW a \in Authzs, AddAuthorization(o, a)
      PROVE  UNCHANGED <<cert, tpc, tres, bpc>>
  BY <1>9 DEF AddAuthorization, threadVars
<1>10. ASSUME NEW a \in Authzs, ChallengeResult(a) \/ ExpireAuthorization(a)
       PROVE  UNCHANGED <<cert, tpc, tres, bpc>>
  BY <1>10 DEF ChallengeResult, ExpireAuthorization, threadVars
<1>11. ASSUME Tick \/ UNCHANGED vars PROVE UNCHANGED <<cert, tpc, tres, bpc>>
  BY <1>11 DEF Tick, vars, threadVars
<1> QED
  BY <1>1, <1>2, <1>3, <1>4, <1>5, <1>6, <1>7, <1>8, <1>9, <1>10, <1>11 DEF Next

\* Enrollment starts after the check of the authorizations, and the order of a
\* request has all its authorizations.
LEMMA EnrollAuthorizedStep == OrderInv /\ [Next]_vars => EnrollAuthorized'
<1> SUFFICES ASSUME OrderInv, [Next]_vars PROVE EnrollAuthorized'
  OBVIOUS
<1>1. everOK \subseteq everOK'
  BY StatusStep
<1>2. ASSUME NEW q \in Requests, pc'[q] = "csr" PROVE Target[q] \in everOK'
  <2>1. CASE CheckAuthorizations(q)
    <3>1. AuthorizationsValid(Target[q]) /\ pc[q] = "authorize"
      BY <1>2, <2>1 DEF CheckAuthorizations, Goto, OrderInv, TypeOK
    <3>2. StoredAuthz(Target[q]) = AuthzOf(Target[q]) /\ Target[q] \in Orders
      BY <3>1, OrderAssumption DEF OrderInv, RequestsKnown
    <3>3. Authorized(Target[q])
      BY <3>1, <3>2 DEF AuthorizationsValid, Authorized
    <3> QED
      BY <1>1, <3>2, <3>3 DEF OrderInv, EnrollAuthorized
  <2>2. CASE Serve(q) /\ ~CheckAuthorizations(q)
    BY <1>2, <2>2 DEF OrderInv, TypeOK, Serve, SearchExpired, InvalidateExpired,
       CheckMessage, ReadOrder, ReadAuthorizations, MarkReady, DispatchOrder,
       ClaimOrder, RejectOrder, SubmitCsr, JoinResult, JoinTimeout, MarkValid,
       ViewAuthorization, Prevalidate, PrevalidateAuthorization, PrevalidateOrder,
       Goto, Respond, Succeed, AfterDetails, LookupCertificate
  <2>3. CASE Receive(q)
    BY <1>2, <2>3 DEF Receive, Goto, OrderInv, TypeOK
  <2>4. CASE Undisturbed(q)
    BY <1>1, <1>2, <2>4 DEF Undisturbed, OrderInv, EnrollAuthorized
  <2> QED
    BY <2>1, <2>2, <2>3, <2>4, RequestStep
<1>3. ASSUME NEW q \in Requests, tpc'[q] = "enroll" PROVE Target[q] \in everOK'
  <2>1. SubmitCsr(q) \/ tpc[q] = "enroll"
    <3>1. CASE Enroll(q)
      BY <1>3, <3>1 DEF OrderInv, TypeOK, Enroll, CaEnroll, StoreCertificate,
         ThreadMarkValid, ThreadMarkInvalid, SaveError, ThreadGoto, ThreadEnd
    <3>2. CASE BackChannel(q)
      BY <1>3, <3>2 DEF BackChannel, FindPending, BackStore, BackMark, backRest,
         threadVars
    <3>3. CASE Alone(q)
      BY <1>3, <3>3 DEF Alone
    <3> QED
      BY <3>1, <3>2, <3>3, RowStep
  <2> QED
    BY <1>1, <2>1 DEF SubmitCsr, OrderInv, EnrollAuthorized
<1> QED
  BY <1>2, <1>3, AuthorizedNoted DEF EnrollAuthorized

\* A request that has not submitted its CSR is known from its label and code, and
\* no step leads back to it.
LEMMA BeforeCsrStep ==
    ASSUME OrderInv, [Next]_vars, NEW q \in Requests
    PROVE  /\ BeforeCsr(q)' => BeforeCsr(q) /\ code'[q] = "none" /\ ~SubmitCsr(q)
           /\ code'[q] = "problem" => pc'[q] = "done"
<1> USE DEF OrderInv, TypeOK, RowsOfSubmitted, BeforeCsr
<1>1. CASE Serve(q)
  <2> DEFINE P == /\ BeforeCsr(q)' => BeforeCsr(q) /\ code'[q] = "none" /\ ~SubmitCsr(q)
                  /\ code'[q] = "problem" => pc'[q] = "done"
  <2>1. pc[q] # "done" /\ code[q] # "problem"
    BY <1>1, ServeStep
  <2>2. CASE SearchExpired(q) \/ InvalidateExpired(q) \/ CheckMessage(q)
    BY <2>1, <2>2 DEF SearchExpired, InvalidateExpired, CheckMessage, SubmitCsr, Goto,
         Respond
  <2>3. CASE ReadOrder(q)
    BY <2>1, <2>3 DEF ReadOrder, SubmitCsr, Goto, Respond
  <2>4. CASE ReadAuthorizations(q)
    BY <2>1, <2>4 DEF ReadAuthorizations, SubmitCsr, Goto, AfterDetails, Codes
  <2>5. CASE MarkReady(q)
    BY <2>1, <2>5 DEF MarkReady, SubmitCsr, Goto, Respond, AfterDetails, Codes
  <2>6. CASE DispatchOrder(q)
    BY <2>1, <2>6 DEF DispatchOrder, SubmitCsr, Goto, Respond, Succeed,
         LookupCertificate
  <2>7. CASE ClaimOrder(q) \/ CheckAuthorizations(q) \/ RejectOrder(q)
    BY <2>1, <2>7 DEF ClaimOrder, CheckAuthorizations, RejectOrder, SubmitCsr, Goto,
       Respond, localVars
  <2>8. CASE SubmitCsr(q)
    BY <2>1, <2>8 DEF SubmitCsr, Goto, Respond, Succeed
  <2>9. CASE JoinResult(q) \/ JoinTimeout(q) \/ MarkValid(q)
    BY <2>1, <2>9 DEF JoinResult, JoinTimeout, MarkValid, SubmitCsr, Goto, Respond,
         Succeed
  <2>10. CASE ViewAuthorization(q) \/ Prevalidate(q) \/ PrevalidateAuthorization(q)
              \/ PrevalidateOrder(q)
    BY <2>1, <2>10 DEF ViewAuthorization, Prevalidate, PrevalidateAuthorization,
       PrevalidateOrder, SubmitCsr, Goto, Respond
  <2> QED
    BY <1>1, <2>2, <2>3, <2>4, <2>5, <2>6, <2>7, <2>8, <2>9, <2>10 DEF Serve
<1>2. CASE Receive(q)
  BY <1>2 DEF Receive, SubmitCsr, Goto
<1>3. CASE Undisturbed(q) /\ ~SubmitCsr(q)
  BY <1>3 DEF Undisturbed
<1> QED
  BY <1>1, <1>2, <1>3, RequestStep DEF Serve

\* The certificate row and the thread of a request appear with its CSR.
LEMMA RowsOfSubmittedStep == OrderInv /\ [Next]_vars => RowsOfSubmitted'
<1> SUFFICES ASSUME OrderInv, [Next]_vars, NEW q \in Requests
             PROVE  /\ BeforeCsr(q)' => cert'[q] = "none" /\ tpc'[q] = "idle" /\ code'[q] = "none"
                    /\ cert'[q] = "none" => bpc'[q] = "idle"
                    /\ code'[q] = "problem" => pc'[q] = "done"
  BY DEF RowsOfSubmitted, BeforeCsr
<1>1. /\ BeforeCsr(q) => cert[q] = "none" /\ tpc[q] = "idle"
      /\ cert[q] = "none" => bpc[q] = "idle"
  BY DEF OrderInv, RowsOfSubmitted
<1>2. CASE SubmitCsr(q)
  <2>1. cert'[q] \in {cert[q], "csr"} /\ bpc'[q] = bpc[q]
    BY <1>2 DEF SubmitCsr, OrderInv, TypeOK
  <2> QED
    BY <1>1, <1>2, <2>1, BeforeCsrStep
<1>3. CASE Enroll(q)
  <2>1. tpc[q] # "idle" /\ bpc'[q] = bpc[q]
    BY <1>3 DEF Enroll, CaEnroll, StoreCertificate, ThreadMarkValid,
       ThreadMarkInvalid, SaveError, threadRest
  <2>2. cert[q] # "none" => cert'[q] # "none"
    BY <1>3 DEF Enroll, CaEnroll, StoreCertificate, ThreadMarkValid,
       ThreadMarkInvalid, SaveError, ErrorRow, OrderInv, TypeOK
  <2> QED
    BY <1>1, <2>1, <2>2, BeforeCsrStep
<1>4. CASE BackChannel(q)
  <2>1. cert[q] # "none" /\ cert'[q] # "none"
    BY <1>1, <1>4 DEF BackChannel, FindPending, BackStore, BackMark, OrderInv, TypeOK
  <2> QED
    BY <1>1, <2>1, BeforeCsrStep
<1>5. CASE Alone(q)
  BY <1>1, <1>5, BeforeCsrStep DEF Alone
<1> QED
  BY <1>2, <1>3, <1>4, <1>5, RowStep

\* A certificate row is never removed, and a stored certificate stays.
LEMMA RowStays ==
    ASSUME OrderInv, [Next]_vars, NEW q \in Requests
    PROVE  /\ cert[q] = "cert" => cert'[q] = "cert"
           /\ cert[q] # "none" => cert'[q] # "none"
<1> USE DEF OrderInv, TypeOK
<1>1. CASE SubmitCsr(q)
  BY <1>1 DEF SubmitCsr, RowsOfSubmitted, BeforeCsr
<1>2. CASE Enroll(q)
  BY <1>2 DEF Enroll, CaEnroll, StoreCertificate, ThreadMarkValid, ThreadMarkInvalid,
     SaveError, ErrorRow
<1>3. CASE BackChannel(q)
  BY <1>3 DEF BackChannel, FindPending, BackStore, BackMark
<1>4. CASE Alone(q)
  BY <1>4 DEF Alone
<1> QED
  BY <1>1, <1>2, <1>3, <1>4, RowStep

\* What was stored, or lost to the database, remains so.
LEMMA StoredStays ==
    ASSUME OrderInv, [Next]_vars, NEW q \in Requests, Stored(q)
    PROVE  Stored(q)'
BY RowStays, StatusStep DEF Stored

\* A request reaches "markvalid" by joining a thread that issued.
LEMMA MarkValidByJoin ==
    ASSUME OrderInv, [Next]_vars, NEW q \in Requests, pc'[q] = "markvalid"
    PROVE  \/ pc[q] = "markvalid"
           \/ pc[q] = "join" /\ tpc[q] = "done" /\ tres[q] = "ok"
<1> USE DEF OrderInv, TypeOK
<1>1. CASE JoinResult(q)
  BY <1>1 DEF JoinResult, Issued, Goto, Respond, Succeed
<1>2. CASE Serve(q) /\ ~JoinResult(q)
  BY <1>2 DEF Serve, SearchExpired, InvalidateExpired, CheckMessage, ReadOrder,
     ReadAuthorizations, MarkReady, DispatchOrder, ClaimOrder, CheckAuthorizations,
     RejectOrder, SubmitCsr, JoinTimeout, MarkValid, ViewAuthorization, Prevalidate,
     PrevalidateAuthorization, PrevalidateOrder, Goto, Respond, Succeed, AfterDetails,
     LookupCertificate
<1>3. CASE Receive(q)
  BY <1>3 DEF Receive, Goto
<1>4. CASE Undisturbed(q)
  BY <1>4 DEF Undisturbed
<1> QED
  BY <1>1, <1>2, <1>3, <1>4, RequestStep

\* Whoever may set an order to valid next has stored the certificate or lost it.
LEMMA StoredBeforeValidStep == OrderInv /\ [Next]_vars => StoredBeforeValid'
<1> DEFINE T(q) == /\ tpc[q] = "store" => tres[q] = "ok"
                   /\ tpc[q] \in {"failed", "saveerror"} => tres[q] # "ok"
                   /\ tpc[q] = "order" \/ bpc[q] = "order" => Stored(q)
                   /\ tpc[q] = "done" /\ tres[q] = "ok" => Stored(q)
<1> SUFFICES ASSUME OrderInv, [Next]_vars, NEW q \in Requests
             PROVE  T(q)' /\ (pc'[q] = "markvalid" => Stored(q)')
  BY DEF StoredBeforeValid, Issuer, Stored
<1>1. T(q) /\ (pc[q] = "markvalid" => Stored(q))
  BY DEF OrderInv, StoredBeforeValid, Issuer
<1>2. pc'[q] = "markvalid" => Stored(q)'
  BY <1>1, MarkValidByJoin, StoredStays
<1>3. CASE SubmitCsr(q)
  <2>1. tpc[q] = "idle" /\ bpc[q] = "idle"
    BY <1>3 DEF SubmitCsr, OrderInv, RowsOfSubmitted, BeforeCsr
  <2>2. tpc'[q] \in {"idle", "enroll"} /\ bpc'[q] = "idle"
    BY <1>3, <2>1 DEF SubmitCsr, OrderInv, TypeOK
  <2> QED
    BY <1>2, <2>2
<1>4. CASE Enroll(q)
  <2>1. bpc'[q] = bpc[q]
    BY <1>4 DEF Enroll, CaEnroll, StoreCertificate, ThreadMarkValid,
       ThreadMarkInvalid, SaveError, threadRest
  <2> USE DEF OrderInv, TypeOK, ThreadGoto, ThreadResult, ThreadEnd
  <2>2. CASE CaEnroll(q)
    BY <1>1, <1>2, <2>1, <2>2, StoredStays DEF CaEnroll
  <2>3. CASE StoreCertificate(q)
    <3>1. \/ tpc'[q] = "order" /\ cert'[q] = "cert"
          \/ tpc'[q] = "done" /\ lost' = lost \cup {Target[q]}
          \/ tpc'[q] = "done" /\ tres'[q] = "error"
      BY <2>3 DEF StoreCertificate
    <3>2. tpc'[q] \in {"order", "done"} /\ (tpc'[q] = "done" /\ tres'[q] = "ok" => Stored(q)')
          /\ (tpc'[q] = "order" => Stored(q)')
      BY <3>1 DEF Stored
    <3> QED
      BY <1>1, <1>2, <2>1, <3>2, StoredStays
  <2>4. CASE ThreadMarkValid(q)
    BY <1>1, <1>2, <2>1, <2>4, StoredStays DEF ThreadMarkValid
  <2>5. CASE ThreadMarkInvalid(q)
    BY <1>1, <1>2, <2>1, <2>5, StoredStays DEF ThreadMarkInvalid
  <2>6. CASE SaveError(q)
    BY <1>1, <1>2, <2>1, <2>6, StoredStays DEF SaveError
  <2> QED
    BY <1>4, <2>2, <2>3, <2>4, <2>5, <2>6 DEF Enroll
<1>5. CASE BackChannel(q)
  <2>1. tpc'[q] = tpc[q] /\ tres'[q] = tres[q]
    BY <1>5 DEF BackChannel, FindPending, BackStore, BackMark, backRest, threadVars
  <2>2. bpc'[q] = "order" => Stored(q)'
    BY <1>1, <1>5, StoredStays DEF BackChannel, FindPending, BackStore, BackMark,
       BackGoto, Stored, OrderInv, TypeOK
  <2> QED
    BY <1>1, <1>2, <2>1, <2>2, StoredStays
<1>6. CASE Alone(q)
  BY <1>1, <1>2, <1>6, StoredStays DEF Alone
<1> QED
  BY <1>3, <1>4, <1>5, <1>6, RowStep

\* Rows of an order belong to requests that claimed it, and the row a request
\* names is one of them.
LEMMA RowsOfClaimedStep == OrderInv /\ [Next]_vars => RowsOfClaimed'
<1> SUFFICES ASSUME OrderInv, [Next]_vars, NEW q \in Requests
             PROVE  /\ pc'[q] \in {"authorize", "csr"} \/ tpc'[q] # "idle"
                          \/ cert'[q] # "none" => q \in claimed'
                    /\ pc'[q] \in {"join", "markvalid"} \/ cname'[q] = TimeoutName
                          => cert'[q] # "none"
                    /\ cname'[q] \in Requests => cname'[q] \in Rows(Target[q])'
  BY DEF RowsOfClaimed
<1>1. /\ pc[q] \in {"authorize", "csr"} \/ tpc[q] # "idle" \/ cert[q] # "none"
            => q \in claimed
      /\ pc[q] \in {"join", "markvalid"} \/ cname[q] = TimeoutName => cert[q] # "none"
      /\ cname[q] \in Requests => cname[q] \in Rows(Target[q])
  BY DEF OrderInv, RowsOfClaimed
<1>2. claimed \subseteq claimed'
  BY ClaimedByClaim DEF ClaimOrder
<1>3. tpc'[q] # "idle" \/ cert'[q] # "none" => q \in claimed'
  <2>1. CASE SubmitCsr(q)
    BY <1>1, <1>2, <2>1 DEF SubmitCsr
  <2>2. CASE Enroll(q)
    BY <1>1, <1>2, <2>2 DEF Enroll, CaEnroll, StoreCertificate, ThreadMarkValid,
       ThreadMarkInvalid, SaveError
  <2>3. CASE BackChannel(q)
    BY <1>1, <1>2, <2>3 DEF BackChannel, FindPending, BackStore, BackMark, OrderInv,
       RowsOfSubmitted, backRest, threadVars
  <2>4. CASE Alone(q)
    BY <1>1, <1>2, <2>4 DEF Alone
  <2> QED
    BY <2>1, <2>2, <2>3, <2>4, RowStep
<1> DEFINE Labels == /\ pc'[q] \in {"authorize", "csr"} => q \in claimed'
                     /\ pc'[q] \in {"join", "markvalid"} => cert'[q] # "none"
           Named == cname'[q] = cname[q]
                    \/ /\ cname'[q] \in Requests => cname'[q] \in Rows(Target[q])'
                       /\ cname'[q] = TimeoutName => cert'[q] # "none"
<1> USE DEF OrderInv, TypeOK
<1>4. ASSUME Undisturbed(q) \/ Receive(q) PROVE Labels /\ Named
  <2>1. Labels
    BY <1>1, <1>2, <1>4, RowStays DEF Undisturbed, Receive, Goto
  <2>2. Named
    BY <1>4 DEF Undisturbed, Receive
  <2> QED
    BY <2>1, <2>2
<1>5. ASSUME NEW l \in Requests, l \in Rows(Target[q]) PROVE l \in Rows(Target[q])'
  BY <1>5, RowStays DEF Rows
<1>6. ASSUME SearchExpired(q) \/ InvalidateExpired(q) \/ CheckMessage(q) \/ ReadOrder(q)
           \/ ReadAuthorizations(q) \/ MarkReady(q) \/ ViewAuthorization(q)
           \/ Prevalidate(q) \/ PrevalidateAuthorization(q) \/ PrevalidateOrder(q)
      PROVE  Labels /\ Named
  BY <1>6 DEF SearchExpired, InvalidateExpired, CheckMessage, ReadOrder,
     ReadAuthorizations, MarkReady, ViewAuthorization, Prevalidate,
     PrevalidateAuthorization, PrevalidateOrder, Goto, Respond, AfterDetails
<1>7. ASSUME DispatchOrder(q)
      PROVE  Labels /\ Named
  <2>1. Labels
    BY <1>7 DEF DispatchOrder, LookupCertificate, Goto, Respond, Succeed
  <2>2. cname'[q] \in {cname[q], NoName} \cup Rows(Target[q])
    BY <1>7 DEF DispatchOrder, LookupCertificate, Succeed, Rows
  <2> QED
    BY <1>5, <2>1, <2>2, OrderAssumption DEF Rows
<1>8. ASSUME ClaimOrder(q) \/ CheckAuthorizations(q) \/ RejectOrder(q)
      PROVE  Labels /\ Named
  BY <1>1, <1>2, <1>8 DEF ClaimOrder, CheckAuthorizations, RejectOrder, Goto, Respond,
     localVars
<1>9. ASSUME SubmitCsr(q)
      PROVE  Labels /\ Named
  <2>1. Labels
    BY <1>9 DEF SubmitCsr, Goto, Respond, Succeed
  <2>2. cname'[q] = cname[q] \/ (cname'[q] = q /\ cert'[q] = "csr")
    BY <1>9 DEF SubmitCsr, Succeed
  <2> QED
    BY <2>1, <2>2 DEF Rows
<1>10. ASSUME JoinResult(q) \/ JoinTimeout(q) \/ MarkValid(q)
      PROVE  Labels /\ Named
  <2>1. pc[q] \in {"join", "markvalid"}
    BY <1>10 DEF JoinResult, JoinTimeout, MarkValid
  <2>2. cert'[q] # "none"
    BY <1>1, <2>1, RowStays
  <2>3. cname'[q] \in {cname[q], q, TimeoutName} /\ pc'[q] \notin {"authorize", "csr"}
    BY <1>10 DEF JoinResult, JoinTimeout, MarkValid, Goto, Respond, Succeed
  <2> QED
    BY <2>2, <2>3, OrderAssumption DEF Rows
<1> HIDE DEF OrderInv, TypeOK
<1>11. Labels /\ Named
  BY <1>4, <1>6, <1>7, <1>8, <1>9, <1>10, RequestStep DEF Serve
<1>12. /\ cname'[q] \in Requests => cname'[q] \in Rows(Target[q])'
       /\ cname'[q] = TimeoutName => cert'[q] # "none"
  BY <1>1, <1>5, <1>11, RowStays
<1> QED
  BY <1>3, <1>11, <1>12

\* An order becomes valid by an issuer, who has stored its certificate.
LEMMA ValidByIssuer ==
    ASSUME OrderInv, [Next]_vars, NEW o \in Orders, ostatus'[o] = "valid"
    PROVE  \/ ostatus[o] = "valid"
           \/ \E r \in Requests : Target[r] = o /\ Stored(r)
<1> DEFINE ByIssuer == \/ ostatus[o] = "valid"
                       \/ \E r \in Requests : Target[r] = o /\ Issuer(r)
<1> USE DEF OrderInv, TypeOK, SetStatus
<1>1. ASSUME NEW r \in Requests, MarkValid(r) \/ ThreadMarkValid(r) \/ BackMark(r)
      PROVE  ByIssuer
  BY <1>1, OrderAssumption DEF MarkValid, ThreadMarkValid, BackMark, Issuer
<1>2. ASSUME NEW r \in Requests,
             InvalidateExpired(r) \/ MarkReady(r) \/ ClaimOrder(r) \/ RejectOrder(r)
             \/ ThreadMarkInvalid(r) \/ PrevalidateOrder(r)
      PROVE  ByIssuer
  BY <1>2 DEF InvalidateExpired, MarkReady, ClaimOrder, RejectOrder,
     ThreadMarkInvalid, PrevalidateOrder
<1>3. ASSUME NEW p \in Orders, NewOrder(p) PROVE ByIssuer
  BY <1>3 DEF NewOrder
<1>4. ASSUME UNCHANGED ostatus PROVE ByIssuer
  BY <1>4
<1> HIDE DEF OrderInv, TypeOK, SetStatus, ByIssuer
<1>5. ASSUME NEW r \in Requests,
             \/ Receive(r) \/ SearchExpired(r) \/ CheckMessage(r) \/ ReadOrder(r)
             \/ ReadAuthorizations(r) \/ DispatchOrder(r) \/ CheckAuthorizations(r)
             \/ SubmitCsr(r) \/ JoinResult(r) \/ JoinTimeout(r) \/ ViewAuthorization(r)
             \/ Prevalidate(r) \/ PrevalidateAuthorization(r) \/ CaEnroll(r)
             \/ StoreCertificate(r) \/ SaveError(r) \/ FindPending(r) \/ BackStore(r)
             \/ Crash(r)
      PROVE  UNCHANGED ostatus
  BY <1>5 DEF Receive, SearchExpired, CheckMessage, ReadOrder, ReadAuthorizations,
     DispatchOrder, CheckAuthorizations, SubmitCsr, JoinResult, JoinTimeout,
     ViewAuthorization, Prevalidate, PrevalidateAuthorization, CaEnroll,
     StoreCertificate, SaveError, FindPending, BackStore, Crash, orderVars
<1>6. ASSUME NEW p \in Orders, Created(p) PROVE UNCHANGED ostatus
  BY <1>6 DEF Created
<1>7. ASSUME NEW p \in Orders, NEW a \in Authzs, AddAuthorization(p, a)
      PROVE  UNCHANGED ostatus
  BY <1>7 DEF AddAuthorization
<1>8. ASSUME NEW a \in Authzs, ChallengeResult(a) \/ ExpireAuthorization(a)
      PROVE  UNCHANGED ostatus
  BY <1>8 DEF ChallengeResult, ExpireAuthorization, orderVars
<1>9. ASSUME Tick \/ UNCHANGED vars PROVE UNCHANGED ostatus
  BY <1>9 DEF Tick, vars, orderVars
<1>10. ByIssuer
  BY <1>1, <1>2, <1>3, <1>4, <1>5, <1>6, <1>7, <1>8, <1>9
     DEF Next, Serve, Enroll, BackChannel
<1> QED
  BY <1>10 DEF ByIssuer, OrderInv, StoredBeforeValid

-----------------------------------------------------------------------------
(* Theorems                                                                *)

\* OrderInv holds in every reachable state, whatever orders, requests, faults
\* and options there are.
THEOREM OrderInvariant == Spec => []OrderInv
<1>1. Init => OrderInv
  <2> SUFFICES ASSUME Init PROVE OrderInv
    OBVIOUS
  <2> USE OrderAssumption DEF Init
  <2>1. TypeOK
    BY DEF TypeOK, OrderStatus, AuthzStatus, RowState, RequestPc, ThreadPc, Outcome,
         Codes
  <2>2. RequestsKnown /\ ClaimsKept /\ ExpirySeen
    BY DEF RequestsKnown, ClaimsKept, ExpirySeen, AuthzPc
  <2>3. EnrollAuthorized
    BY DEF EnrollAuthorized, Authorized, AuthzOf
  <2>4. RowsOfSubmitted
    BY DEF RowsOfSubmitted
  <2>5. StoredBeforeValid /\ RowsOfClaimed
    BY DEF StoredBeforeValid, Issuer, RowsOfClaimed
  <2> QED
    BY <2>1, <2>2, <2>3, <2>4, <2>5 DEF OrderInv
<1>2. OrderInv /\ [Next]_vars => OrderInv'
  BY OrderType, RequestsKnownStep, ClaimsKeptStep, ExpirySeenStep,
     EnrollAuthorizedStep, RowsOfSubmittedStep, StoredBeforeValidStep,
     RowsOfClaimedStep DEF OrderInv
<1> QED
  BY <1>1, <1>2, PTL DEF Spec

\* At most one finalize request claims an order, unless a stale write reopened it.
THEOREM ClaimsExclusive == Spec => []ClaimExclusive
<1>1. Init => ClaimExclusive
  BY DEF Init, ClaimExclusive
<1>2. OrderInv /\ ClaimExclusive /\ [Next]_vars => ClaimExclusive'
  <2> SUFFICES ASSUME OrderInv, ClaimExclusive, [Next]_vars,
                      NEW r1 \in claimed', NEW r2 \in claimed', r1 # r2,
                      Target[r1] = Target[r2]
               PROVE  Target[r1] \in reopened'
    BY DEF ClaimExclusive
  <2>1. reopened \subseteq reopened'
    BY StatusStep
  <2>2. CASE UNCHANGED claimed
    BY <2>1, <2>2 DEF ClaimExclusive
  <2>3. ASSUME NEW r \in Requests, ClaimOrder(r) PROVE Target[r1] \in reopened'
    <3>1. CASE UNCHANGED claimed
      BY <2>2, <3>1
    <3>2. CASE claimed' = claimed \cup {r} /\ ostatus[Target[r]] = "ready"
      <4>1. \A q \in claimed : Target[q] = Target[r] => Target[q] \in reopened
        BY <3>2 DEF OrderInv, ClaimsKept
      <4> QED
        BY <2>1, <3>2, <4>1 DEF ClaimExclusive
    <3> QED
      BY <2>3, <3>1, <3>2 DEF ClaimOrder, Claimable
  <2> QED
    BY <2>2, <2>3, ClaimedByClaim
<1> QED
  BY <1>1, <1>2, OrderInvariant, PTL DEF Spec

\* No finalize request claims an order that had expired when it arrived, unless
\* a stale write or a failed invalidation lets it.
THEOREM NoExpiredClaim == Spec => []NoClaimOfExpired
<1> DEFINE InTime(r) == \/ oexpires[Target[r]] > arrived[r]
                        \/ Target[r] \in reopened \cup lost
<1>1. Init => NoClaimOfExpired
  BY DEF Init, NoClaimOfExpired
<1>2. OrderInv /\ NoClaimOfExpired /\ [Next]_vars => NoClaimOfExpired'
  <2> SUFFICES ASSUME OrderInv, NoClaimOfExpired, [Next]_vars, ~ExpiryCheckDisable,
                      NEW r \in claimed'
               PROVE  InTime(r)'
    BY DEF NoClaimOfExpired
  <2>1. r \in Requests
    BY OrderType DEF OrderInv, TypeOK
  <2>2. CASE r \in claimed
    <3>1. pc[r] # "idle" /\ Target[r] \in known
      BY <2>1, <2>2 DEF OrderInv, ClaimsKept, RequestsKnown
    <3>2. /\ oexpires'[Target[r]] = oexpires[Target[r]]
          /\ reopened \subseteq reopened' /\ lost \subseteq lost'
      BY <3>1, StatusStep
    <3>3. arrived'[r] = arrived[r]
      BY <2>1, <3>1, RequestStep, ServeStep DEF OrderInv, Receive, Undisturbed
    <3> QED
      BY <2>2, <3>2, <3>3 DEF NoClaimOfExpired
  <2>3. CASE r \notin claimed
    <3>1. PICK q \in Requests : ClaimOrder(q) /\ q = r
      BY <2>3, ClaimedByClaim DEF ClaimOrder
    <3>2. pc[r] = "claim" /\ ostatus[Target[r]] = "ready"
      BY <2>3, <3>1 DEF ClaimOrder, Claimable
    <3>3. Kind[r] # "authz"
      BY <2>1, <3>2 DEF OrderInv, RequestsKnown, AuthzPc
    <3>4. InTime(r)
      BY <2>1, <3>2, <3>3 DEF OrderInv, ExpirySeen, Unclaimable
    <3>5. UNCHANGED <<oexpires, arrived, reopened, lost>>
      BY <3>1 DEF ClaimOrder
    <3> QED
      BY <3>4, <3>5
  <2> QED
    BY <2>2, <2>3
<1> QED
  BY <1>1, <1>2, OrderInvariant, PTL DEF Spec

\* A CSR reaches the CA only for an order that was fully authorized.
THEOREM OnlyAuthorizedIssue == Spec => []IssuedAuthorized
<1>1. Init => IssuedAuthorized
  BY DEF Init, IssuedAuthorized
<1>2. OrderInv /\ IssuedAuthorized /\ [Next]_vars => IssuedAuthorized'
  <2> SUFFICES ASSUME OrderInv, IssuedAuthorized, [Next]_vars, NEW q \in asked'
               PROVE  Target[q] \in everOK'
    BY DEF IssuedAuthorized
  <2>1. q \in asked \/ (q \in Requests /\ tpc[q] = "enroll")
    BY AskedByThread
  <2>2. everOK \subseteq everOK'
    BY StatusStep
  <2> QED
    BY <2>1, <2>2 DEF IssuedAuthorized, OrderInv, EnrollAuthorized
<1> QED
  BY <1>1, <1>2, OrderInvariant, PTL DEF Spec

\* A stored certificate is never overwritten by something else.
THEOREM CertificatesKept == Spec => CertificateKept
<1>1. OrderInv /\ [Next]_vars =>
        [\A r \in Requests : cert[r] = "cert" => cert'[r] = "cert"]_vars
  BY RowStays
<1> QED
  BY <1>1, OrderInvariant, PTL DEF Spec, CertificateKept

\* A valid order has a stored certificate unless the database lost its store,
\* whoever set it to valid and in whatever order they ran.
THEOREM ValidCertificates == Spec => []ValidHasCertificate
<1>1. Init => ValidHasCertificate
  BY DEF Init, ValidHasCertificate
<1>2. OrderInv /\ ValidHasCertificate /\ [Next]_vars => ValidHasCertificate'
  <2> SUFFICES ASSUME OrderInv, ValidHasCertificate, [Next]_vars,
                      NEW o \in Orders, ostatus'[o] = "valid"
               PROVE  o \in lost' \/ \E r \in Rows(o)' : cert'[r] = "cert"
    BY DEF ValidHasCertificate
  <2>1. o \in lost \/ \E r \in Requests : Target[r] = o /\ cert[r] = "cert"
    BY ValidByIssuer DEF ValidHasCertificate, Rows, Stored
  <2>2. CASE o \in lost
    BY <2>2, StatusStep
  <2>3. ASSUME NEW r \in Requests, Target[r] = o, cert[r] = "cert"
        PROVE  r \in Rows(o)' /\ cert'[r] = "cert"
    BY <2>3, RowStays DEF Rows
  <2> QED
    BY <2>1, <2>2, <2>3
<1> QED
  BY <1>1, <1>2, OrderInvariant, PTL DEF Spec

\* request r may name l in the certificate URL of a valid order
Served(r, l) == \/ l \in Rows(Target[r]) /\ cert[l] = "cert"
                \/ l = TimeoutName /\ r \in claimed /\ cert[r] = "cert"
                \/ Target[r] \in reopened \cup lost
\* An answer that has read the status "valid" will name a row with a certificate.
AnswerServed(r) ==
    /\ pc[r] = "authzs" /\ code[r] = "ok" /\ seen[r] = "valid"
           /\ cname[r] # NoName => Served(r, cname[r])
    /\ pc[r] = "markready" => seen[r] = "pending"
    /\ curl[r] # NoName => Served(r, curl[r])

\* A row that may be named may be named later.
LEMMA ServedStays ==
    ASSUME OrderInv, [Next]_vars, NEW r \in Requests, NEW l \in Names, Served(r, l)
    PROVE  Served(r, l)'
<1>1. claimed \subseteq claimed'
  BY ClaimedByClaim DEF ClaimOrder
<1>2. CASE l \in Rows(Target[r]) /\ cert[l] = "cert"
  BY <1>2, RowStays, OrderAssumption DEF Served, Rows
<1>3. CASE l = TimeoutName /\ r \in claimed /\ cert[r] = "cert"
  BY <1>1, <1>3, RowStays DEF Served
<1>4. CASE Target[r] \in reopened \cup lost
  BY <1>4, StatusStep, OrderAssumption DEF Served
<1> QED
  BY <1>2, <1>3, <1>4 DEF Served

\* The rows of a valid order that was not reopened are one row, the one with the
\* certificate; a request that gave up waiting has a row itself.
LEMMA ValidServed ==
    ASSUME OrderInv, ClaimExclusive, ValidHasCertificate, NEW r \in Requests,
           ostatus[Target[r]] = "valid", cname[r] # NoName
    PROVE  Served(r, cname[r])
<1> DEFINE named == IF cname[r] = TimeoutName THEN r ELSE cname[r]
<1>1. named \in Rows(Target[r])
  BY DEF OrderInv, RowsOfClaimed, TypeOK, Rows
<1>2. CASE Target[r] \in reopened \cup lost
  BY <1>2 DEF Served
<1>3. CASE Target[r] \notin reopened \cup lost
  <2>1. PICK l \in Rows(Target[r]) : cert[l] = "cert"
    BY <1>3, OrderAssumption DEF ValidHasCertificate
  <2>2. l \in claimed /\ named \in claimed /\ Target[l] = Target[r]
        /\ Target[named] = Target[r]
    BY <1>1, <2>1 DEF OrderInv, RowsOfClaimed, Rows
  <2>3. cert[named] = "cert"
    BY <1>3, <2>1, <2>2 DEF ClaimExclusive
  <2> QED
    BY <1>1, <2>2, <2>3 DEF Served
<1> QED
  BY <1>2, <1>3

\* A certificate URL leads to a certificate of its order, although the status and
\* the row it is made from were read in separate steps; the URL ".../cert/timeout" is
\* given only to a request whose own certificate is stored by then.
THEOREM UrlsServe == Spec => []UrlServesCertificate
<1> DEFINE Answers == \A r \in Requests : AnswerServed(r)
<1>1. Init => Answers
  BY OrderAssumption DEF Init, AnswerServed
<1>2. Answers => UrlServesCertificate
  BY DEF AnswerServed, Served, UrlServesCertificate
<1>3. OrderInv /\ ClaimExclusive /\ ValidHasCertificate /\ Answers /\ [Next]_vars
        => Answers'
  <2> SUFFICES ASSUME OrderInv, ClaimExclusive, ValidHasCertificate, Answers,
                      [Next]_vars, NEW r \in Requests
               PROVE  AnswerServed(r)'
    OBVIOUS
  <2>0. cname[r] \in Names /\ curl[r] \in Names
    BY DEF OrderInv, TypeOK, Names
  <2>1. AnswerServed(r) /\ \A l \in Names : Served(r, l) => Served(r, l)'
    BY ServedStays
  <2> DEFINE Kept == /\ cname'[r] = cname[r] /\ curl'[r] = curl[r]
                     /\ code'[r] = code[r] /\ seen'[r] = seen[r]
                     /\ pc'[r] = pc[r] \/ pc'[r] \notin {"authzs", "markready"}
             Elsewhere == /\ curl'[r] = curl[r]
                          /\ pc'[r] \notin {"authzs", "markready"}
  <2>2. ASSUME Kept \/ Elsewhere PROVE AnswerServed(r)'
    BY <2>0, <2>1, <2>2 DEF AnswerServed
  <2> USE DEF OrderInv, TypeOK
  <2>3. CASE ReadOrder(r)
    <3>1. /\ curl'[r] = curl[r] /\ cname'[r] = cname[r] /\ pc'[r] # "markready"
          /\ pc'[r] = "authzs" => seen'[r] = ostatus[Target[r]]
      BY <2>3 DEF ReadOrder, Goto, Respond
    <3> QED
      BY <2>0, <2>1, <3>1, ValidServed DEF AnswerServed
  <2>4. CASE ReadAuthorizations(r) \/ MarkReady(r)
    <3>1. \/ curl'[r] = curl[r]
          \/ code[r] = "ok" /\ curl'[r] = CertificateUrl(r)
      BY <2>4 DEF ReadAuthorizations, MarkReady, AfterDetails
    <3>2. /\ pc'[r] # "authzs" /\ seen'[r] = seen[r]
          /\ pc'[r] = "markready" => seen[r] = "pending"
      BY <2>4 DEF ReadAuthorizations, MarkReady, AfterDetails, Goto, Respond
    <3>3. pc[r] \in {"authzs", "markready"}
      BY <2>4 DEF ReadAuthorizations, MarkReady
    <3>4. curl'[r] \in Names
      BY <2>0, <3>1 DEF CertificateUrl, Names
    <3>5. curl'[r] # NoName => Served(r, curl'[r])
      BY <2>0, <2>1, <3>1, <3>3, OrderAssumption DEF AnswerServed, CertificateUrl
    <3> QED
      BY <2>1, <3>2, <3>4, <3>5 DEF AnswerServed
  <2>5. ASSUME \/ SearchExpired(r) \/ InvalidateExpired(r) \/ CheckMessage(r)
               \/ DispatchOrder(r) \/ ClaimOrder(r) \/ CheckAuthorizations(r)
               \/ RejectOrder(r) \/ SubmitCsr(r) \/ JoinResult(r) \/ JoinTimeout(r)
               \/ MarkValid(r) \/ ViewAuthorization(r) \/ Prevalidate(r)
               \/ PrevalidateAuthorization(r) \/ PrevalidateOrder(r)
        PROVE  Elsewhere
    BY <2>5 DEF SearchExpired, InvalidateExpired, CheckMessage, DispatchOrder,
       LookupCertificate, ClaimOrder, CheckAuthorizations, RejectOrder, SubmitCsr,
       JoinResult, JoinTimeout, MarkValid, ViewAuthorization, Prevalidate,
       PrevalidateAuthorization, PrevalidateOrder, Goto, Respond, Succeed, localVars
  <2>6. CASE Receive(r)
    BY <2>2, <2>6 DEF Receive, Goto
  <2>7. CASE Undisturbed(r)
    BY <2>2, <2>7 DEF Undisturbed
  <2> HIDE DEF OrderInv, TypeOK
  <2> QED
    BY <2>2, <2>3, <2>4, <2>5, <2>6, <2>7, RequestStep DEF Serve
<1> QED
  BY <1>1, <1>2, <1>3, OrderInvariant, ClaimsExclusive, ValidCertificates, PTL DEF Spec
=============================================================================
