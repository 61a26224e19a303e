-------------------------- MODULE ChallengeProofs --------------------------
(***************************************************************************)
(* The inductive invariant ChallengeInv of module Challenge, for any       *)
(* number of authorizations, requests and threads: an authorization is     *)
(* valid only after its holder's validation succeeded, a challenge in      *)
(* processing is worked on, and an authorization agrees with its           *)
(* challenges once its threads have ended.                                 *)
(***************************************************************************)
EXTENDS Challenge, TLAPS

\* The types an identifier is offered are challenge types.
LEMMA TypesOffered == ASSUME NEW sort PROVE ChallengeTypes(sort) \subseteq ChallengeType
BY DEF ChallengeTypes, StandardTypes, ChallengeType

\* A row consists of a view and a type.
LEMMA RowParts ==
    ASSUME NEW c \in Rows
    PROVE  c[1] \in Views /\ AuthzOf(c) \in Authzs /\ TypeOf(c) \in ChallengeType
BY ChallengeAssumption DEF Rows, AuthzOf, TypeOf

\* The invariant holds initially.
LEMMA ChallengeInit == Init => ChallengeInv
<1> SUFFICES ASSUME Init PROVE ChallengeInv
  OBVIOUS
<1>1. TypeOK /\ ThreadInv /\ SeenWasShown /\ ValidWasShown /\ ProcessingIsWorkedOn
  BY ChallengeAssumption
     DEF Init, TypeOK, ThreadInv, SeenWasShown, ValidWasShown, ProcessingIsWorkedOn,
         AuthzStatus, Status, ViewPc, PostPc, ThreadPc, Rows, ChallengeType
<1>2. RowsKept
  BY ChallengeAssumption DEF Init, RowsKept, Rows
<1>3. CalmUndisturbed
  BY DEF Init, CalmUndisturbed, Calm, Undisturbed, Agrees, Stored, ActiveFor, Active
<1> QED
  BY <1>1, <1>2, <1>3 DEF ChallengeInv

-----------------------------------------------------------------------------
(* Types                                                                   *)

\* The steps of an authorization request keep the types.
LEMMA ViewType ==
    ASSUME TypeOK, NEW v \in Views, View(v) PROVE TypeOK'
<1> USE ChallengeAssumption
    DEF TypeOK, AuthzStatus, Status, ViewPc, authzVars, viewVars, postVars,
        threadVars, ghostVars, ViewGoto, AuthzFor
<1>0. About[v] \in Authzs
  OBVIOUS
<1>1. CASE ReadAuthorization(v)
  BY <1>1 DEF ReadAuthorization
<1>2. CASE LookupForToken(v)
  BY <1>0, <1>2 DEF LookupForToken
<1>3. CASE StoreToken(v)
  BY <1>0, <1>3 DEF StoreToken
<1>4. CASE FindChallenges(v)
  BY <1>4, TypesOffered DEF FindChallenges, Stored
<1>5. CASE CreateChallenge(v)
  <2>1. vtodo[v] \subseteq ChallengeType
    OBVIOUS
  <2>2. \A t \in vtodo[v] : <<v, t>> \in Rows
    BY <2>1 DEF Rows
  <2>3. cstatus' \in [Rows -> Status]
    BY <1>5, <2>2, ZenonT(40) DEF CreateChallenge
  <2>4. vtodo' \in [Views -> SUBSET ChallengeType]
    <3>1. CASE UNCHANGED vtodo
      BY <3>1
    <3>2. ASSUME NEW t \in vtodo[v], vtodo' = [vtodo EXCEPT ![v] = @ \ {t}]
          PROVE  vtodo' \in [Views -> SUBSET ChallengeType]
      <4>1. vtodo[v] \ {t} \in SUBSET ChallengeType
        BY <2>1
      <4> QED
        BY <3>2, <4>1
    <3> QED
      BY <1>5, <3>1, <3>2 DEF CreateChallenge
  <2>5. offered' \subseteq Rows /\ vpc' \in [Views -> ViewPc]
    BY <1>5 DEF CreateChallenge, Stored
  <2>6. UNCHANGED <<authzVars, vseen, postVars, threadVars, ghostVars>>
    BY <1>5 DEF CreateChallenge
  <2> QED
    BY <2>3, <2>4, <2>5, <2>6
<1> QED
  BY <1>1, <1>2, <1>3, <1>4, <1>5 DEF View

\* The steps of a challenge request keep the types.
LEMMA PostType ==
    ASSUME TypeOK, NEW p \in Posts, Post(p) PROVE TypeOK'
<1> USE ChallengeAssumption
    DEF TypeOK, Status, PostPc, ThreadPc, authzVars, viewVars, postVars,
        threadVars, ghostVars, Goto, Respond, AuthzFor
<1>1. CASE Receive(p)
  BY <1>1 DEF Receive
<1>2. CASE ReadChallenge(p)
  BY <1>2 DEF ReadChallenge
<1>3. CASE HandleRequest(p)
  <2>1. tgt[p] \in Rows /\ AuthzOf(tgt[p]) \in Authzs
    BY <1>3, RowParts DEF HandleRequest
  <2> QED
    BY <1>3, <2>1 DEF HandleRequest, StartValidation, ThreadGoto
<1>4. CASE Join(p)
  BY <1>4 DEF Join
<1>5. CASE Answer(p)
  BY <1>5 DEF Answer
<1> QED
  BY <1>1, <1>2, <1>3, <1>4, <1>5 DEF Post

\* The steps of a validation thread keep the types, and so does a crash.
LEMMA ThreadType ==
    ASSUME TypeOK, NEW p \in Posts, Thread(p) \/ Crash(p) PROVE TypeOK'
<1> USE ChallengeAssumption
    DEF TypeOK, AuthzStatus, Status, ThreadPc, ThreadRest, authzVars, viewVars,
        postVars, threadVars, ghostVars, ThreadGoto, Fails, Lose, AuthzFor
<1>0. tpc[p] # "idle" => tgt[p] \in Rows /\ AuthzOf(tgt[p]) \in Authzs
  BY RowParts
<1>1. CASE MarkProcessing(p)
  BY <1>0, <1>1 DEF MarkProcessing
<1>2. CASE ReadProfile(p)
  BY <1>2 DEF ReadProfile
<1>3. CASE CheckSourceAddress(p)
  BY <1>0, <1>3 DEF CheckSourceAddress, Decide
<1>4. CASE Attempt(p)
  BY <1>0, <1>4 DEF Attempt, Decide
<1>5. CASE WriteChallenge(p)
  BY <1>0, <1>5 DEF WriteChallenge
<1>6. CASE WriteAuthorization(p)
  BY <1>0, <1>6 DEF WriteAuthorization
<1>7. CASE FailChallenge(p)
  BY <1>0, <1>7 DEF FailChallenge
<1>8. CASE FailAuthorization(p)
  BY <1>0, <1>8 DEF FailAuthorization
<1>9. CASE Crash(p)
  BY <1>0, <1>9 DEF Crash, Active, Goto, Respond, PostPc
<1> QED
  BY <1>1, <1>2, <1>3, <1>4, <1>5, <1>6, <1>7, <1>8, <1>9 DEF Thread

\* Every step keeps the types.
LEMMA TypeStep == TypeOK /\ [Next]_vars => TypeOK'
<1> SUFFICES ASSUME TypeOK, [Next]_vars PROVE TypeOK'
  OBVIOUS
<1>1. CASE UNCHANGED vars
  BY <1>1 DEF vars, TypeOK, authzVars, viewVars, postVars, threadVars, ghostVars,
         AuthzFor
<1> QED
  BY <1>1, ViewType, PostType, ThreadType DEF Next

-----------------------------------------------------------------------------
(* Threads                                                                 *)

\* Every step keeps ThreadInv.
LEMMA ThreadInvStep == TypeOK /\ ThreadInv /\ [Next]_vars => ThreadInv'
<1> SUFFICES ASSUME TypeOK, ThreadInv, [Next]_vars PROVE ThreadInv'
  OBVIOUS
<1> USE ChallengeAssumption
    DEF TypeOK, ThreadInv, postVars, threadVars, ghostVars, AuthzFor
<1>1. ASSUME NEW v \in Views, View(v) PROVE ThreadInv'
  <2>1. UNCHANGED <<postVars, threadVars, passed>>
    BY <1>1 DEF View, ReadAuthorization, LookupForToken, StoreToken, FindChallenges,
       CreateChallenge
  <2> QED
    BY <2>1
<1>2. ASSUME NEW p \in Posts, Post(p) PROVE ThreadInv'
  <2>1. CASE Receive(p)
    BY <2>1 DEF Receive, Goto, Respond
  <2>2. CASE ReadChallenge(p)
    BY <2>2 DEF ReadChallenge, Goto, Respond
  <2>3. CASE HandleRequest(p)
    BY <2>3 DEF HandleRequest, StartValidation, ThreadGoto, Goto, Respond
  <2>4. CASE Join(p)
    BY <2>4 DEF Join, Goto
  <2>5. CASE Answer(p)
    BY <2>5 DEF Answer, Respond, Goto
  <2> QED
    BY <1>2, <2>1, <2>2, <2>3, <2>4, <2>5 DEF Post
<1>3. ASSUME NEW p \in Posts, Thread(p) PROVE ThreadInv'
  <2> USE DEF ThreadRest, ThreadGoto, Fails
  <2>1. CASE MarkProcessing(p)
    BY <2>1 DEF MarkProcessing
  <2>2. CASE ReadProfile(p)
    BY <2>2 DEF ReadProfile
  <2>3. CASE CheckSourceAddress(p)
    BY <2>3 DEF CheckSourceAddress, Decide
  <2>4. CASE Attempt(p)
    BY <2>4 DEF Attempt, Decide
  <2>5. CASE WriteChallenge(p)
    BY <2>5 DEF WriteChallenge
  <2>6. CASE WriteAuthorization(p)
    BY <2>6 DEF WriteAuthorization
  <2>7. CASE FailChallenge(p)
    BY <2>7 DEF FailChallenge
  <2>8. CASE FailAuthorization(p)
    BY <2>8 DEF FailAuthorization
  <2> QED
    BY <1>3, <2>1, <2>2, <2>3, <2>4, <2>5, <2>6, <2>7, <2>8 DEF Thread
<1>4. ASSUME NEW p \in Posts, Crash(p) PROVE ThreadInv'
  BY <1>4 DEF Crash, Active, ThreadGoto, Goto, Respond
<1>5. CASE UNCHANGED vars
  BY <1>5 DEF vars
<1> QED
  BY <1>1, <1>2, <1>3, <1>4, <1>5 DEF Next

\* A request whose thread was started keeps its target, and a success stays one.
LEMMA Steady ==
    ASSUME TypeOK, ThreadInv, [Next]_vars
    PROVE  /\ passed \subseteq passed'
           /\ \A p \in Posts : tpc[p] # "idle" => tgt'[p] = tgt[p]
<1> USE DEF TypeOK, ThreadInv, postVars, threadVars, ghostVars
<1>1. ASSUME NEW v \in Views, View(v) PROVE UNCHANGED <<tgt, passed>>
  BY <1>1 DEF View, ReadAuthorization, LookupForToken, StoreToken, FindChallenges,
     CreateChallenge
<1>2. ASSUME NEW p \in Posts, Receive(p)
      PROVE  UNCHANGED passed /\ \A q \in Posts : tpc[q] # "idle" => tgt'[q] = tgt[q]
  BY <1>2 DEF Receive
<1>3. ASSUME NEW p \in Posts, Post(p), ~Receive(p) PROVE UNCHANGED <<tgt, passed>>
  BY <1>3 DEF Post, ReadChallenge, HandleRequest, Join, Answer
<1>4. ASSUME NEW p \in Posts, Thread(p) \/ Crash(p)
      PROVE  passed \subseteq passed' /\ UNCHANGED tgt
  BY <1>4 DEF Thread, Crash, ThreadRest, MarkProcessing, ReadProfile,
     CheckSourceAddress, Attempt, Decide, WriteChallenge, WriteAuthorization,
     FailChallenge, FailAuthorization
<1>5. CASE UNCHANGED vars
  BY <1>5 DEF vars
<1> QED
  BY <1>1, <1>2, <1>3, <1>4, <1>5 DEF Next

\* What was shown remains shown.
LEMMA ShownStays ==
    ASSUME TypeOK, ThreadInv, [Next]_vars, NEW a, Shown(a) PROVE Shown(a)'
<1>1. PICK p \in passed : tgt[p] \in Rows /\ AuthzFor(p) = a /\ Sender[p] = Holder[a]
  BY DEF Shown
<1>2. p \in Posts /\ p \in passed' /\ tgt'[p] = tgt[p]
  BY Steady DEF TypeOK, ThreadInv
<1> QED
  BY <1>1, <1>2 DEF Shown, AuthzFor

\* A challenge that was validated for its holder remains so.
LEMMA PassedStays ==
    ASSUME TypeOK, ThreadInv, [Next]_vars, NEW c \in Rows,
           \E p \in passed : tgt[p] = c /\ Sender[p] = Holder[AuthzOf(c)]
    PROVE  \E p \in passed' : tgt'[p] = c /\ Sender[p] = Holder[AuthzOf(c)]
<1>1. PICK p \in passed : tgt[p] = c /\ Sender[p] = Holder[AuthzOf(c)]
  OBVIOUS
<1>2. p \in passed' /\ tgt'[p] = tgt[p]
  BY Steady DEF TypeOK, ThreadInv
<1> QED
  BY <1>1, <1>2

-----------------------------------------------------------------------------
(* Valid authorizations and challenges                                     *)

\* A status that becomes valid does so in the second write of a thread whose own
\* validation succeeded, or is a status read before that was founded.
LEMMA AuthzChange ==
    ASSUME TypeOK, ThreadInv, SeenWasShown, ValidWasShown, [Next]_vars,
           NEW a \in Authzs, astatus'[a] = "valid"
    PROVE  Shown(a)
<1> USE DEF TypeOK, ThreadInv
<1>0. CASE astatus[a] = "valid"
  BY <1>0 DEF ValidWasShown
<1>1. CASE astatus[a] # "valid"
  <2>1. ASSUME NEW v \in Views, StoreToken(v) PROVE Shown(a)
    <3>1. a = About[v] /\ vseen[v] = "valid"
      BY <1>1, <2>1, ChallengeAssumption DEF StoreToken, authzVars
    <3> QED
      BY <3>1 DEF SeenWasShown
  <2>2. ASSUME NEW p \in Posts, WriteAuthorization(p) PROVE Shown(a)
    <3>1. tgt[p] \in Rows /\ AuthzFor(p) = a /\ verdict[p] = "valid"
      BY <1>1, <2>2, RowParts DEF WriteAuthorization, AuthzFor
    <3>2. p \in passed /\ Sender[p] = Holder[AuthzFor(p)]
      BY <2>2, <3>1 DEF WriteAuthorization
    <3> QED
      BY <3>1, <3>2 DEF Shown
  <2>3. ASSUME NEW p \in Posts, FailAuthorization(p) PROVE FALSE
    BY <1>1, <2>3, RowParts DEF FailAuthorization, AuthzFor
  <2>4. ASSUME NEW v \in Views, View(v), ~StoreToken(v) PROVE UNCHANGED astatus
    BY <2>4 DEF View, ReadAuthorization, LookupForToken, FindChallenges,
       CreateChallenge, authzVars
  <2>5. ASSUME NEW p \in Posts, Post(p) \/ Crash(p) PROVE UNCHANGED astatus
    BY <2>5 DEF Post, Crash, Receive, ReadChallenge, HandleRequest, Join, Answer,
       authzVars
  <2>6. ASSUME NEW p \in Posts, Thread(p), ~WriteAuthorization(p),
               ~FailAuthorization(p)
        PROVE  UNCHANGED astatus
    BY <2>6 DEF Thread, MarkProcessing, ReadProfile, CheckSourceAddress, Attempt,
       WriteChallenge, FailChallenge
  <2>7. CASE UNCHANGED vars
    BY <1>1, <2>7 DEF vars, authzVars
  <2> QED
    BY <1>1, <2>1, <2>2, <2>3, <2>4, <2>5, <2>6, <2>7 DEF Next
<1> QED
  BY <1>0, <1>1

\* Which steps write a challenge, and what they write.
LEMMA ChallengeChange ==
    ASSUME TypeOK, [Next]_vars, NEW c \in Rows, cstatus'[c] # cstatus[c]
    PROVE  \/ cstatus'[c] = "pending"
           \/ cstatus'[c] = "valid" /\ TypeOf(c) = "sectigo-email-01"
           \/ \E p \in Posts : tgt[p] = c /\ MarkProcessing(p)
                                 /\ cstatus'[c] = "processing" /\ tpc'[p] = "profile"
           \/ \E p \in Posts : tgt[p] = c /\ WriteChallenge(p)
                                 /\ cstatus'[c] = verdict[p]
           \/ cstatus'[c] = "invalid"
<1> USE DEF TypeOK
<1>1. ASSUME NEW v \in Views, CreateChallenge(v)
      PROVE  \/ cstatus'[c] = "pending"
             \/ cstatus'[c] = "valid" /\ TypeOf(c) = "sectigo-email-01"
  <2>1. PICK t \in vtodo[v] :
           cstatus' = [cstatus EXCEPT ![<<v, t>>] =
                         IF t = "sectigo-email-01" THEN "valid" ELSE "pending"]
    BY <1>1 DEF CreateChallenge
  <2>2. c = <<v, t>>
    BY <2>1
  <2>3. TypeOf(c) = t
    BY <2>2 DEF TypeOf
  <2> QED
    BY <2>1, <2>2, <2>3
<1>2. ASSUME NEW v \in Views, View(v), ~CreateChallenge(v) PROVE UNCHANGED cstatus
  BY <1>2 DEF View, ReadAuthorization, LookupForToken, StoreToken, FindChallenges
<1>3. ASSUME NEW p \in Posts, Post(p) \/ Crash(p) PROVE UNCHANGED cstatus
  BY <1>3 DEF Post, Crash, Receive, ReadChallenge, HandleRequest, Join, Answer
<1>4. ASSUME NEW p \in Posts, MarkProcessing(p)
      PROVE  tgt[p] = c /\ cstatus'[c] = "processing" /\ tpc'[p] = "profile"
  BY <1>4 DEF MarkProcessing, ThreadGoto
<1>5. ASSUME NEW p \in Posts, WriteChallenge(p)
      PROVE  tgt[p] = c /\ cstatus'[c] = verdict[p]
  BY <1>5 DEF WriteChallenge
<1>6. ASSUME NEW p \in Posts, FailChallenge(p) PROVE cstatus'[c] = "invalid"
  BY <1>6 DEF FailChallenge
<1>7. ASSUME NEW p \in Posts, Thread(p), ~MarkProcessing(p), ~WriteChallenge(p),
             ~FailChallenge(p)
      PROVE  UNCHANGED cstatus
  BY <1>7 DEF Thread, ReadProfile, CheckSourceAddress, Attempt, WriteAuthorization,
     FailAuthorization
<1>8. CASE UNCHANGED vars
  BY <1>8 DEF vars
<1> QED
  BY <1>1, <1>2, <1>3, <1>4, <1>5, <1>6, <1>7, <1>8 DEF Next
\* Valid authorizations and challenges were validated for their holder.
LEMMA ValidStep ==
    TypeOK /\ ThreadInv /\ SeenWasShown /\ ValidWasShown /\ [Next]_vars
        => ValidWasShown'
<1> SUFFICES ASSUME TypeOK, ThreadInv, SeenWasShown, ValidWasShown, [Next]_vars
             PROVE  ValidWasShown'
  OBVIOUS
<1>1. ASSUME NEW a \in Authzs, astatus'[a] = "valid" PROVE Shown(a)'
  BY <1>1, AuthzChange, ShownStays
<1>2. ASSUME NEW c \in Rows, cstatus'[c] = "valid", TypeOf(c) # "sectigo-email-01"
      PROVE  \E p \in passed' : tgt'[p] = c /\ Sender[p] = Holder[AuthzOf(c)]
  <2>1. CASE cstatus[c] = "valid"
    BY <1>2, <2>1, PassedStays DEF ValidWasShown
  <2>2. CASE cstatus[c] # "valid"
    <3>1. PICK p \in Posts : tgt[p] = c /\ WriteChallenge(p) /\ verdict[p] = "valid"
      BY <1>2, <2>2, ChallengeChange
    <3>2. p \in passed /\ Sender[p] = Holder[AuthzOf(c)]
      BY <3>1 DEF WriteChallenge, ThreadInv, AuthzFor
    <3> QED
      BY <3>1, <3>2, PassedStays
  <2> QED
    BY <2>1, <2>2
<1> QED
  BY <1>1, <1>2 DEF ValidWasShown

\* A status read before the token is stored is founded.
LEMMA SeenStep ==
    TypeOK /\ ThreadInv /\ SeenWasShown /\ ValidWasShown /\ [Next]_vars
        => SeenWasShown'
<1> SUFFICES ASSUME TypeOK, ThreadInv, SeenWasShown, ValidWasShown, [Next]_vars,
                    NEW v \in Views, vseen'[v] = "valid"
             PROVE  Shown(About[v])'
  BY DEF SeenWasShown
<1>1. CASE vseen[v] = "valid"
  BY <1>1, ShownStays DEF SeenWasShown
<1>2. CASE vseen[v] # "valid"
  <2>1. ASSUME NEW w \in Views, LookupForToken(w)
        PROVE  w = v /\ astatus[About[v]] = "valid"
    BY <1>2, <2>1 DEF LookupForToken, TypeOK
  <2>2. ASSUME NEW w \in Views, View(w), ~LookupForToken(w) PROVE UNCHANGED vseen
    BY <2>2 DEF View, ReadAuthorization, StoreToken, FindChallenges, CreateChallenge
  <2>3. ASSUME NEW p \in Posts, Post(p) \/ Thread(p) \/ Crash(p) PROVE UNCHANGED vseen
    BY <2>3 DEF Post, Thread, Crash, Receive, ReadChallenge, HandleRequest, Join,
       Answer, ThreadRest, MarkProcessing, ReadProfile, CheckSourceAddress, Attempt,
       WriteChallenge, WriteAuthorization, FailChallenge, FailAuthorization, viewVars
  <2>4. ASSUME UNCHANGED vars PROVE FALSE
    BY <1>2, <2>4 DEF vars, viewVars
  <2>5. astatus[About[v]] = "valid"
    BY <1>2, <2>1, <2>2, <2>3, <2>4 DEF Next
  <2> QED
    BY <2>5, ShownStays, ChallengeAssumption DEF ValidWasShown
<1> QED
  BY <1>1, <1>2

-----------------------------------------------------------------------------
(* Challenges in processing                                                *)

\* A thread that works on a challenge writes it before it stops working, unless
\* an error concerns its authorization.
LEMMA WorkStep ==
    ASSUME TypeOK, ThreadInv, [Next]_vars, NEW q \in Posts, tpc[q] \in Working,
           tpc'[q] \notin Working
    PROVE  \/ tgt[q] \in Rows /\ AuthzFor(q) \in lost'
           \/ cstatus'[tgt[q]] \in {"valid", "invalid"}
<1> USE DEF TypeOK, ThreadInv, Working, ThreadGoto
<1>0. tgt[q] \in Rows
  OBVIOUS
<1>1. ASSUME NEW v \in Views, View(v) PROVE UNCHANGED tpc
  BY <1>1 DEF View, ReadAuthorization, LookupForToken, StoreToken, FindChallenges,
     CreateChallenge, threadVars
<1>2. ASSUME NEW p \in Posts, Post(p) PROVE tpc'[q] = tpc[q]
  BY <1>2 DEF Post, Receive, ReadChallenge, HandleRequest, StartValidation, Join,
     Answer, threadVars
<1>3. ASSUME NEW p \in Posts, Thread(p) \/ Crash(p), p # q PROVE tpc'[q] = tpc[q]
  BY <1>3 DEF Thread, Crash, MarkProcessing, ReadProfile, CheckSourceAddress, Attempt,
     Decide, Fails, WriteChallenge, WriteAuthorization, FailChallenge,
     FailAuthorization
<1>4. CASE WriteChallenge(q)
  BY <1>0, <1>4 DEF WriteChallenge, Fails
<1>5. CASE FailChallenge(q)
  BY <1>0, <1>5 DEF FailChallenge, Fails, Lose
<1>6. CASE Crash(q)
  BY <1>0, <1>6 DEF Crash, Lose
<1>7. CASE MarkProcessing(q) \/ ReadProfile(q) \/ CheckSourceAddress(q) \/ Attempt(q)
  BY <1>7 DEF MarkProcessing, ReadProfile, CheckSourceAddress, Attempt, Decide, Fails
<1>8. CASE WriteAuthorization(q) \/ FailAuthorization(q)
  BY <1>8 DEF WriteAuthorization, FailAuthorization
<1>9. CASE UNCHANGED vars
  BY <1>9 DEF vars, threadVars
<1> QED
  BY <1>1, <1>2, <1>3, <1>4, <1>5, <1>6, <1>7, <1>8, <1>9 DEF Next, Thread

\* What a fault concerned stays known.
LEMMA LostStays == [Next]_vars => lost \subseteq lost'
BY DEF Next, View, Post, Thread, Crash, ReadAuthorization, LookupForToken, StoreToken,
   FindChallenges, CreateChallenge, Receive, ReadChallenge, HandleRequest, Join,
   Answer, MarkProcessing, ReadProfile, CheckSourceAddress, Attempt, WriteChallenge,
   WriteAuthorization, FailChallenge, FailAuthorization, Fails, Lose, ghostVars, vars

\* A challenge in processing is worked on.
LEMMA ProcessingStep ==
    TypeOK /\ ThreadInv /\ ProcessingIsWorkedOn /\ [Next]_vars
        => ProcessingIsWorkedOn'
<1> SUFFICES ASSUME TypeOK, ThreadInv, ProcessingIsWorkedOn, [Next]_vars,
                    NEW c \in Rows, cstatus'[c] = "processing"
             PROVE  \/ AuthzOf(c) \in lost'
                    \/ \E p \in Posts : tgt'[p] = c /\ tpc'[p] \in Working
  BY DEF ProcessingIsWorkedOn
<1>1. CASE cstatus[c] = "processing"
  <2>1. CASE AuthzOf(c) \in lost
    BY <2>1, LostStays
  <2>2. ASSUME NEW q \in Posts, tgt[q] = c, tpc[q] \in Working
        PROVE  \/ AuthzOf(c) \in lost'
               \/ \E p \in Posts : tgt'[p] = c /\ tpc'[p] \in Working
    <3>1. tgt'[q] = c
      BY <2>2, Steady DEF Working
    <3>2. tpc'[q] \in Working \/ AuthzFor(q) \in lost'
      BY <2>2, WorkStep
    <3> QED
      BY <2>2, <3>1, <3>2 DEF AuthzFor
  <2> QED
    BY <1>1, <2>1, <2>2 DEF ProcessingIsWorkedOn
<1>2. CASE cstatus[c] # "processing"
  <2>1. \A p \in Posts : WriteChallenge(p) => verdict[p] # "processing"
    BY DEF WriteChallenge, TypeOK
  <2>2. PICK p \in Posts : tgt[p] = c /\ MarkProcessing(p) /\ tpc'[p] = "profile"
    BY <1>2, <2>1, ChallengeChange
  <2>3. tgt'[p] = c
    BY <2>2, Steady DEF MarkProcessing
  <2> QED
    BY <2>2, <2>3 DEF Working
<1> QED
  BY <1>1, <1>2

-----------------------------------------------------------------------------
(* Settled authorizations                                                  *)

\* A row appears when its authorization request creates it.
LEMMA RowCreated ==
    ASSUME TypeOK, RowsKept, [Next]_vars,
           NEW c \in Rows, cstatus[c] = "none", cstatus'[c] # "none"
    PROVE  \E v \in Views : \E t \in vtodo[v] :
              /\ vpc[v] = "create" /\ c = <<v, t>> /\ cstatus' = [cstatus EXCEPT ![c] =
                     IF t = "sectigo-email-01" THEN "valid" ELSE "pending"]
              /\ UNCHANGED <<vpc, tgt, offered>>
              /\ vtodo' = [vtodo EXCEPT ![v] = @ \ {t}]
<1>1. ASSUME NEW v \in Views, View(v), ~CreateChallenge(v) PROVE UNCHANGED cstatus
  BY <1>1 DEF View, ReadAuthorization, LookupForToken, StoreToken, FindChallenges
<1>2. ASSUME NEW p \in Posts, Post(p) \/ Crash(p) PROVE UNCHANGED cstatus
  BY <1>2 DEF Post, Crash, Receive, ReadChallenge, HandleRequest, Join, Answer
<1>3. ASSUME NEW p \in Posts, Thread(p) PROVE cstatus'[c] = "none"
  <2>1. cstatus'[c] = cstatus[c] \/ (tgt[p] = c /\ tpc[p] # "idle")
    BY <1>3 DEF Thread, MarkProcessing, ReadProfile, CheckSourceAddress, Attempt,
       WriteChallenge, WriteAuthorization, FailChallenge, FailAuthorization, TypeOK
  <2> QED
    BY <2>1 DEF RowsKept
<1>4. ASSUME UNCHANGED vars PROVE UNCHANGED cstatus
  BY <1>4 DEF vars
<1>5. PICK v \in Views : CreateChallenge(v)
  BY <1>1, <1>2, <1>3, <1>4 DEF Next
<1>6. PICK t \in vtodo[v] :
         /\ cstatus' = [cstatus EXCEPT ![<<v, t>>] =
                          IF t = "sectigo-email-01" THEN "valid" ELSE "pending"]
         /\ vtodo' = [vtodo EXCEPT ![v] = @ \ {t}]
         /\ UNCHANGED <<vpc, offered>>
  BY <1>5 DEF CreateChallenge
<1>7. c = <<v, t>>
  BY <1>6 DEF TypeOK
<1> QED
  BY <1>5, <1>6, <1>7 DEF CreateChallenge, postVars

\* A row that is there stays.
LEMMA RowStays ==
    ASSUME TypeOK, ThreadInv, [Next]_vars, NEW c \in Rows, cstatus[c] # "none"
    PROVE  cstatus'[c] # "none"
<1>1. \A p \in Posts : WriteChallenge(p) => verdict[p] # "none"
  BY DEF WriteChallenge, TypeOK
<1> QED
  BY <1>1, ChallengeChange

\* Every step keeps RowsKept.
LEMMA RowsKeptStep == TypeOK /\ ThreadInv /\ RowsKept /\ [Next]_vars => RowsKept'
<1> SUFFICES ASSUME TypeOK, ThreadInv, RowsKept, [Next]_vars PROVE RowsKept'
  OBVIOUS
<1>1. ASSUME NEW v \in Views, NEW t \in ChallengeType, cstatus'[<<v, t>>] # "none"
      PROVE  vpc'[v] \in {"create", "done"} /\ (vpc'[v] = "create" => t \notin vtodo'[v])
  <2>0. <<v, t>> \in Rows
    BY DEF Rows
  <2>1. CASE cstatus[<<v, t>>] # "none"
    <3>1. vpc[v] \in {"create", "done"} /\ (vpc[v] = "create" => t \notin vtodo[v])
      BY <2>1 DEF RowsKept
    <3> USE DEF TypeOK, ViewGoto
    <3>2. ASSUME NEW w \in Views, View(w)
          PROVE  /\ vpc'[v] \in {"create", "done"}
                 /\ vpc'[v] = "create" => vpc[v] = "create" /\ vtodo'[v] \subseteq vtodo[v]
      <4>1. CASE w # v \/ CreateChallenge(w)
        BY <3>1, <3>2, <4>1, ZenonT(40) DEF View, ReadAuthorization, LookupForToken, StoreToken,
           FindChallenges, CreateChallenge
      <4>2. CASE w = v /\ ~CreateChallenge(w)
        BY <3>1, <3>2, <4>2 DEF View, ReadAuthorization, LookupForToken, StoreToken,
           FindChallenges
      <4> QED
        BY <4>1, <4>2
    <3>3. ASSUME NEW p \in Posts, Post(p) \/ Thread(p) \/ Crash(p)
          PROVE  UNCHANGED <<vpc, vtodo>>
      BY <3>3 DEF Post, Thread, Crash, Receive, ReadChallenge, HandleRequest, Join,
         Answer, ThreadRest, MarkProcessing, ReadProfile, CheckSourceAddress, Attempt,
         WriteChallenge, WriteAuthorization, FailChallenge, FailAuthorization, viewVars
    <3>4. CASE UNCHANGED vars
      BY <3>1, <3>4 DEF vars, viewVars
    <3> HIDE DEF TypeOK, ViewGoto
    <3> QED
      BY <3>1, <3>2, <3>3, <3>4 DEF Next
  <2>2. CASE cstatus[<<v, t>>] = "none"
    <3>1. PICK w \in Views : \E s \in vtodo[w] :
             /\ vpc[w] = "create" /\ <<v, t>> = <<w, s>>
             /\ UNCHANGED vpc
             /\ vtodo' = [vtodo EXCEPT ![w] = @ \ {s}]
      BY <1>1, <2>0, <2>2, RowCreated
    <3>2. w = v /\ vpc'[v] = "create" /\ vtodo' = [vtodo EXCEPT ![v] = @ \ {t}]
      BY <3>1
    <3> QED
      BY <3>2 DEF TypeOK
  <2> QED
    BY <2>1, <2>2
<1>2. ASSUME NEW c \in offered' PROVE cstatus'[c] # "none"
  <2>1. c \in Rows
    BY TypeStep DEF TypeOK
  <2>2. CASE c \in offered
    BY <2>1, <2>2, RowStays DEF RowsKept
  <2>3. ASSUME NEW v \in Views, View(v) PROVE c \in offered \/ cstatus[c] # "none"
    BY <2>3 DEF View, ReadAuthorization, LookupForToken, StoreToken, FindChallenges,
       CreateChallenge, Stored
  <2>4. ASSUME NEW p \in Posts, Post(p) \/ Thread(p) \/ Crash(p) PROVE UNCHANGED offered
    BY <2>4 DEF Post, Thread, Crash, Receive, ReadChallenge, HandleRequest, Join,
       Answer, ThreadRest, MarkProcessing, ReadProfile, CheckSourceAddress, Attempt,
       WriteChallenge, WriteAuthorization, FailChallenge, FailAuthorization
  <2>5. CASE UNCHANGED vars
    BY <2>2, <2>5 DEF vars
  <2> QED
    BY <2>1, <2>2, <2>3, <2>4, <2>5, RowStays DEF Next
<1>3. ASSUME NEW p \in Posts, tgt'[p] \in Rows PROVE cstatus'[tgt'[p]] # "none"
  <2>1. CASE tgt'[p] = tgt[p]
    BY <1>3, <2>1, RowStays DEF RowsKept
  <2>2. ASSUME NEW q \in Posts, Receive(q) PROVE tgt'[p] = tgt[p] \/ tgt'[p] \in offered
    BY <2>2 DEF Receive, TypeOK
  <2>3. ASSUME NEW q \in Posts, Post(q), ~Receive(q) PROVE UNCHANGED tgt
    BY <2>3 DEF Post, ReadChallenge, HandleRequest, Join, Answer
  <2>4. ASSUME NEW q \in Posts, Thread(q) \/ Crash(q) PROVE UNCHANGED tgt
    BY <2>4 DEF Thread, Crash, ThreadRest, MarkProcessing, ReadProfile,
       CheckSourceAddress, Attempt, WriteChallenge, WriteAuthorization, FailChallenge,
       FailAuthorization, postVars
  <2>5. ASSUME NEW v \in Views, View(v) PROVE UNCHANGED tgt
    BY <2>5 DEF View, ReadAuthorization, LookupForToken, StoreToken, FindChallenges,
       CreateChallenge, postVars
  <2>6. ASSUME UNCHANGED vars PROVE UNCHANGED tgt
    BY <2>6 DEF vars, postVars
  <2>7. tgt'[p] = tgt[p] \/ tgt'[p] \in offered
    BY <2>1, <2>2, <2>3, <2>4, <2>5, <2>6 DEF Next
  <2> QED
    BY <1>3, <2>1, <2>7, RowStays DEF RowsKept
<1> QED
  BY <1>1, <1>2, <1>3 DEF RowsKept

-----------------------------------------------------------------------------

\* A step of a thread concerns its own locals, its challenge and the authorization
\* of that challenge.
LEMMA ThreadFrame ==
    ASSUME TypeOK, NEW p \in Posts, Thread(p) \/ Crash(p)
    PROVE  /\ Active(p) /\ tgt[p] \in Rows
           /\ UNCHANGED <<tgt, overlapped, reverted>>
           /\ \A q \in Posts \ {p} : tpc'[q] = tpc[q] /\ verdict'[q] = verdict[q]
           /\ \A c \in Rows \ {tgt[p]} : cstatus'[c] = cstatus[c]
           /\ \A a \in Authzs \ {AuthzFor(p)} : astatus'[a] = astatus[a]
<1> USE DEF TypeOK, Active, ThreadRest, ThreadGoto, Fails, Decide, postVars, authzVars
<1>1. CASE MarkProcessing(p)
  BY <1>1 DEF MarkProcessing
<1>2. CASE ReadProfile(p)
  BY <1>2 DEF ReadProfile
<1>3. CASE CheckSourceAddress(p)
  BY <1>3 DEF CheckSourceAddress
<1>4. CASE Attempt(p)
  BY <1>4 DEF Attempt
<1>5. CASE WriteChallenge(p)
  BY <1>5 DEF WriteChallenge
<1>6. CASE WriteAuthorization(p)
  BY <1>6 DEF WriteAuthorization
<1>7. CASE FailChallenge(p)
  BY <1>7 DEF FailChallenge
<1>8. CASE FailAuthorization(p)
  BY <1>8 DEF FailAuthorization
<1>9. CASE Crash(p)
  BY <1>9 DEF Crash
<1> QED
  BY <1>1, <1>2, <1>3, <1>4, <1>5, <1>6, <1>7, <1>8, <1>9 DEF Thread

\* Agreement survives rows of other authorizations, new pending challenges and
\* challenges that are created valid.
LEMMA AgreesStays ==
    ASSUME TypeOK, NEW a \in Authzs, Agrees(a), astatus'[a] = astatus[a],
           \A c \in Rows : AuthzOf(c) = a =>
              \/ cstatus'[c] = cstatus[c]
              \/ /\ cstatus[c] = "none"
                 /\ cstatus'[c] = "pending" \/ TypeOf(c) = "sectigo-email-01"
    PROVE  Agrees(a)'
<1>1. astatus[a] # "none"
  BY DEF TypeOK, AuthzStatus
<1>2. CASE astatus[a] = "pending"
  BY <1>2 DEF Agrees, Stored
<1>3. CASE astatus[a] # "pending"
  <2>1. PICK c \in Stored(a) : cstatus[c] = astatus[a]
    BY <1>3 DEF Agrees
  <2>2. c \in Rows /\ AuthzOf(c) = a /\ cstatus'[c] = cstatus[c] /\ cstatus[c] # "none"
    BY <1>1, <2>1 DEF Stored
  <2> QED
    BY <1>3, <2>1, <2>2 DEF Agrees, Stored
<1> QED
  BY <1>2, <1>3

\* An authorization is calm after a step that leaves its threads, the challenges
\* they work on and its agreement alone.
LEMMA CalmFrame ==
    ASSUME NEW a \in Authzs, Calm(a), Agrees(a) => Agrees(a)',
           \A p \in Posts : tpc'[p] = tpc[p] /\ verdict'[p] = verdict[p],
           \A p \in Posts : tpc[p] # "idle" =>
              tgt'[p] = tgt[p] /\ cstatus'[tgt[p]] = cstatus[tgt[p]]
    PROVE  Calm(a)'
<1>1. \A p \in Posts : Active(p)' <=> Active(p)
  BY DEF Active
<1>2. \A p \in Posts : Active(p) => tgt'[p] = tgt[p] /\ cstatus'[tgt[p]] = cstatus[tgt[p]]
  BY DEF Active
<1>3. \A p \in Posts : ActiveFor(p, a)' <=> ActiveFor(p, a)
  BY <1>1, <1>2 DEF ActiveFor, AuthzFor
<1>4. \A p \in Posts : ActiveFor(p, a) => Active(p)
  BY DEF ActiveFor
<1> QED
  BY <1>2, <1>3, <1>4 DEF Calm

\* Every step of a thread leaves its authorization calm, unless it loses it, and
\* the other authorizations too.
LEMMA CalmThread ==
    ASSUME TypeOK, ThreadInv, RowsKept, NEW a \in Authzs, Calm(a), a \notin lost',
           NEW p \in Posts, Thread(p) \/ Crash(p)
    PROVE  Calm(a)'
<1>1. /\ Active(p) /\ tgt[p] \in Rows /\ AuthzFor(p) \in Authzs
      /\ UNCHANGED tgt
      /\ \A q \in Posts \ {p} : tpc'[q] = tpc[q] /\ verdict'[q] = verdict[q]
      /\ \A c \in Rows \ {tgt[p]} : cstatus'[c] = cstatus[c]
      /\ \A b \in Authzs \ {AuthzFor(p)} : astatus'[b] = astatus[b]
  BY ThreadFrame, RowParts DEF AuthzFor
<1>2. \A q \in Posts \ {p} : ActiveFor(q, a)' <=> ActiveFor(q, a)
  BY <1>1 DEF ActiveFor, Active, AuthzFor
<1>3. CASE AuthzFor(p) # a
  <2>1. ~ActiveFor(p, a) /\ ~ActiveFor(p, a)'
    BY <1>1, <1>3 DEF ActiveFor, AuthzFor
  <2>2. \A c \in Rows : AuthzOf(c) = a => cstatus'[c] = cstatus[c]
    BY <1>1, <1>3 DEF AuthzFor
  <2>3. Agrees(a) => Agrees(a)'
    BY <1>1, <1>3, <2>2, AgreesStays
  <2>4. \A q \in Posts : ActiveFor(q, a) =>
            /\ q # p /\ tgt[q] \in Rows /\ AuthzOf(tgt[q]) = a
            /\ tpc'[q] = tpc[q] /\ verdict'[q] = verdict[q]
    BY <1>1, <2>1 DEF ActiveFor, Active, AuthzFor, TypeOK
  <2>5. \A q \in Posts : ActiveFor(q, a)' <=> ActiveFor(q, a)
    BY <1>2, <2>1
  <2> QED
    BY <1>1, <2>2, <2>3, <2>4, <2>5 DEF Calm
<1>4. CASE AuthzFor(p) = a
  <2>1. ActiveFor(p, a)
    BY <1>1, <1>4 DEF ActiveFor
  <2>2. \A q \in Posts \ {p} : ~ActiveFor(q, a) /\ ~ActiveFor(q, a)'
    BY <1>2, <2>1 DEF Calm
  <2>3. /\ tpc[p] \notin {"failchallenge", "failauthz"}
        /\ tpc[p] = "authz" => cstatus[tgt[p]] = verdict[p]
    BY <2>1 DEF Calm
  <2> USE DEF TypeOK, ThreadGoto, Fails, Lose, ThreadRest
  <2>4. \/ tpc'[p] \in {"profile", "address", "attempt", "challenge"}
        \/ tpc'[p] = "authz" /\ cstatus'[tgt[p]] = verdict'[p]
        \/ /\ tpc'[p] = "done" /\ cstatus'[tgt[p]] = verdict[p]
           /\ astatus'[a] = verdict[p] /\ verdict[p] \in {"valid", "invalid"}
    <3>1. CASE MarkProcessing(p)
      BY <1>4, <3>1 DEF MarkProcessing
    <3>2. CASE ReadProfile(p)
      BY <3>2 DEF ReadProfile
    <3>3. CASE CheckSourceAddress(p)
      BY <1>4, <3>3 DEF CheckSourceAddress, Decide
    <3>4. CASE Attempt(p)
      BY <1>4, <3>4 DEF Attempt, Decide
    <3>5. CASE WriteChallenge(p)
      BY <1>1, <1>4, <3>5 DEF WriteChallenge
    <3>6. CASE WriteAuthorization(p)
      BY <1>1, <1>4, <2>3, <3>6 DEF WriteAuthorization
    <3>7. CASE FailChallenge(p) \/ FailAuthorization(p)
      BY <2>3, <3>7 DEF FailChallenge, FailAuthorization
    <3>8. CASE Crash(p)
      BY <1>4, <3>8 DEF Crash
    <3> QED
      BY <3>1, <3>2, <3>3, <3>4, <3>5, <3>6, <3>7, <3>8 DEF Thread
  <2> HIDE DEF TypeOK, ThreadGoto, Fails, Lose, ThreadRest
  <2>5. /\ \A q, r \in Posts : ActiveFor(q, a)' /\ ActiveFor(r, a)' => q = r
        /\ \A q \in Posts : ActiveFor(q, a)' =>
              /\ tpc'[q] \notin {"failchallenge", "failauthz"}
              /\ tpc'[q] = "authz" => cstatus'[tgt'[q]] = verdict'[q]
    <3>1. tpc'[p] \notin {"failchallenge", "failauthz"}
          /\ (tpc'[p] = "authz" => cstatus'[tgt'[p]] = verdict'[p])
      BY <1>1, <2>4
    <3> QED
      BY <2>2, <3>1
  <2>6. ASSUME \A q \in Posts : ActiveFor(q, a)' => tpc'[q] = "mark" PROVE Agrees(a)'
    <3>1. ActiveFor(p, a)' <=> tpc'[p] \notin {"idle", "done", "dead"}
      BY <1>1, <1>4 DEF ActiveFor, Active, AuthzFor
    <3>2. /\ cstatus'[tgt[p]] = astatus'[a] /\ astatus'[a] \in {"valid", "invalid"}
      BY <2>4, <2>6, <3>1
    <3>3. tgt[p] \in Stored(a)'
      BY <1>1, <1>4, <3>2 DEF Stored, AuthzFor
    <3> QED
      BY <3>2, <3>3 DEF Agrees
  <2> QED
    BY <2>5, <2>6 DEF Calm
<1> QED
  BY <1>3, <1>4

\* A challenge request leaves every authorization calm whose threads it does not
\* make overlap.
LEMMA CalmPost ==
    ASSUME TypeOK, ThreadInv, NEW a \in Authzs, Calm(a), a \notin overlapped',
           NEW p \in Posts, Post(p)
    PROVE  Calm(a)'
<1>1. UNCHANGED <<astatus, cstatus, verdict>>
  BY DEF Post, Receive, ReadChallenge, HandleRequest, Join, Answer, authzVars, threadVars
<1>2. Agrees(a) => Agrees(a)'
  BY <1>1 DEF Agrees, Stored
<1>3. CASE UNCHANGED tpc
  <2>1. \A q \in Posts : tpc[q] # "idle" => tgt'[q] = tgt[q]
    BY <1>3 DEF Post, Receive, ReadChallenge, HandleRequest, Join, Answer, TypeOK,
       ThreadInv
  <2> QED
    BY <1>1, <1>2, <1>3, <2>1, CalmFrame
<1>4. CASE HandleRequest(p) /\ StartValidation(p)
  <2>1. tpc[p] = "idle" /\ tpc' = [tpc EXCEPT ![p] = "mark"] /\ UNCHANGED tgt
    BY <1>4 DEF HandleRequest, StartValidation, ThreadGoto, ThreadInv
  <2>2. tpc'[p] = "mark" /\ \A q \in Posts \ {p} : tpc'[q] = tpc[q]
    BY <2>1 DEF TypeOK
  <2>3. ~ActiveFor(p, a)
    BY <2>1 DEF ActiveFor, Active
  <2>4. \A q \in Posts \ {p} : ActiveFor(q, a)' <=> ActiveFor(q, a)
    BY <2>1, <2>2 DEF ActiveFor, Active, AuthzFor
  <2>5. ActiveFor(p, a)' => \A q \in Posts \ {p} : ~ActiveFor(q, a)
    <3>1. ActiveFor(p, a)' => AuthzFor(p) = a
      BY <2>1 DEF ActiveFor, AuthzFor
    <3>2. AuthzFor(p) = a => OtherThreads(p) = {}
      BY <1>4 DEF StartValidation
    <3> QED
      BY <3>1, <3>2 DEF OtherThreads, ActiveFor
  <2>6. /\ \A q, r \in Posts : ActiveFor(q, a)' /\ ActiveFor(r, a)' => q = r
        /\ \A q \in Posts : ActiveFor(q, a)' =>
              /\ tpc'[q] \notin {"failchallenge", "failauthz"}
              /\ tpc'[q] = "authz" => cstatus'[tgt'[q]] = verdict'[q]
    BY <1>1, <2>1, <2>2, <2>4, <2>5 DEF Calm
  <2>7. ASSUME \A q \in Posts : ActiveFor(q, a)' => tpc'[q] = "mark" PROVE Agrees(a)'
    BY <1>2, <2>2, <2>3, <2>4, <2>7 DEF Calm
  <2> QED
    BY <2>6, <2>7 DEF Calm
<1> QED
  BY <1>3, <1>4 DEF Post, Receive, ReadChallenge, HandleRequest, Join, Answer, threadVars

\* An authorization request leaves every authorization calm whose status it does
\* not write back from an earlier time.
LEMMA CalmView ==
    ASSUME TypeOK, ThreadInv, RowsKept, [Next]_vars, NEW a \in Authzs, Calm(a),
           a \notin reverted', NEW v \in Views, View(v)
    PROVE  Calm(a)'
<1>1. UNCHANGED <<tgt, tpc, verdict>>
  BY DEF View, ReadAuthorization, LookupForToken, StoreToken, FindChallenges,
     CreateChallenge, postVars, threadVars
<1>2. astatus'[a] = astatus[a]
  <2>1. CASE StoreToken(v)
    BY <2>1 DEF StoreToken, TypeOK, authzVars
  <2>2. CASE View(v) /\ ~StoreToken(v)
    BY <2>2 DEF View, ReadAuthorization, LookupForToken, FindChallenges,
       CreateChallenge, authzVars
  <2> QED
    BY <2>1, <2>2
<1>3. ASSUME NEW c \in Rows
      PROVE  \/ cstatus'[c] = cstatus[c]
             \/ /\ cstatus[c] = "none"
                /\ cstatus'[c] = "pending" \/ TypeOf(c) = "sectigo-email-01"
  <2>1. CASE CreateChallenge(v)
    <3>1. CASE UNCHANGED cstatus
      BY <3>1
    <3>2. ASSUME NEW t \in vtodo[v],
                 cstatus' = [cstatus EXCEPT ![<<v, t>>] =
                               IF t = "sectigo-email-01" THEN "valid" ELSE "pending"]
          PROVE  \/ cstatus'[c] = cstatus[c]
                 \/ /\ cstatus[c] = "none"
                    /\ cstatus'[c] = "pending" \/ TypeOf(c) = "sectigo-email-01"
      <4>1. t \in ChallengeType /\ vpc[v] = "create"
        BY <2>1 DEF CreateChallenge, TypeOK
      <4>2. cstatus[<<v, t>>] = "none"
        BY <4>1 DEF RowsKept
      <4>3. CASE c = <<v, t>>
        <5>1. TypeOf(c) = t
          BY <4>3 DEF TypeOf
        <5> QED
          BY <3>2, <4>2, <4>3, <5>1 DEF TypeOK
      <4>4. CASE c # <<v, t>>
        BY <3>2, <4>4 DEF TypeOK
      <4> QED
        BY <4>3, <4>4
    <3> QED
      BY <2>1, <3>1, <3>2 DEF CreateChallenge
  <2>2. CASE ~CreateChallenge(v)
    BY <2>2 DEF View, ReadAuthorization, LookupForToken, StoreToken, FindChallenges
  <2> QED
    BY <2>1, <2>2
<1>4. Agrees(a) => Agrees(a)'
  BY <1>2, <1>3, AgreesStays
<1>5. \A p \in Posts : tpc[p] # "idle" => tgt[p] \in Rows /\ cstatus[tgt[p]] # "none"
  BY DEF TypeOK, RowsKept
<1>6. ASSUME NEW p \in Posts, tpc[p] # "idle" PROVE cstatus'[tgt[p]] = cstatus[tgt[p]]
  BY <1>3, <1>5, <1>6
<1> QED
  BY <1>1, <1>4, <1>6, CalmFrame

\* The histories only grow.
LEMMA HistoriesStay == [Next]_vars => overlapped \subseteq overlapped' /\ reverted \subseteq reverted'
BY DEF Next, View, Post, Thread, Crash, ReadAuthorization, LookupForToken, StoreToken,
   FindChallenges, CreateChallenge, Receive, ReadChallenge, HandleRequest,
   StartValidation, Join, Answer, ThreadRest, MarkProcessing, ReadProfile,
   CheckSourceAddress, Attempt, WriteChallenge, WriteAuthorization, FailChallenge,
   FailAuthorization, ghostVars, vars

\* Every step keeps the undisturbed authorizations calm.
LEMMA CalmStep ==
    TypeOK /\ ThreadInv /\ RowsKept /\ CalmUndisturbed /\ [Next]_vars
        => CalmUndisturbed'
<1> SUFFICES ASSUME TypeOK, ThreadInv, RowsKept, CalmUndisturbed, [Next]_vars,
                    NEW a \in Undisturbed'
             PROVE  Calm(a)'
  BY DEF CalmUndisturbed
<1>1. /\ a \in Authzs /\ a \notin overlapped' /\ a \notin reverted' /\ a \notin lost'
      /\ Calm(a)
  BY HistoriesStay, LostStays DEF CalmUndisturbed, Undisturbed
<1>2. ASSUME NEW v \in Views, View(v) PROVE Calm(a)'
  BY <1>1, <1>2, CalmView
<1>3. ASSUME NEW p \in Posts, Post(p) PROVE Calm(a)'
  BY <1>1, <1>3, CalmPost
<1>4. ASSUME NEW p \in Posts, Thread(p) \/ Crash(p) PROVE Calm(a)'
  BY <1>1, <1>4, CalmThread
<1>5. CASE UNCHANGED vars
  BY <1>1, <1>5 DEF vars, authzVars, postVars, threadVars, Calm, ActiveFor, Active,
     AuthzFor, Agrees, Stored
<1> QED
  BY <1>2, <1>3, <1>4, <1>5 DEF Next

-----------------------------------------------------------------------------

\* In every reachable state: types, and a thread runs for the holder of one
\* challenge, writes only what it found out, no challenge is forgotten in
\* processing unless a fault concerned it, and undisturbed authorizations are calm.
THEOREM ChallengeInvariant == Spec => []ChallengeInv
<1>1. ChallengeInv /\ [Next]_vars => ChallengeInv'
  BY TypeStep, ThreadInvStep, SeenStep, ValidStep, ProcessingStep, RowsKeptStep, CalmStep
     DEF ChallengeInv
<1> QED
  BY ChallengeInit, <1>1, PTL DEF Spec

\* An authorization becomes valid only by a validation its holder asked for.
THEOREM ValidShown == Spec => []ValidWasShown
<1>1. ChallengeInv => ValidWasShown
  BY DEF ChallengeInv
<1> QED
  BY <1>1, ChallengeInvariant, PTL

\* A challenge in processing has a thread that will write its result.
THEOREM ProcessingWorkedOn == Spec => []ProcessingIsWorkedOn
<1>1. ChallengeInv => ProcessingIsWorkedOn
  BY DEF ChallengeInv
<1> QED
  BY <1>1, ChallengeInvariant, PTL

\* An undisturbed authorization agrees with its challenges when its threads ended.
THEOREM SettledAgreement == Spec => []SettledAgrees
<1>1. ChallengeInv => SettledAgrees
  BY DEF ChallengeInv, CalmUndisturbed, Calm, SettledAgrees
<1> QED
  BY <1>1, ChallengeInvariant, PTL
=============================================================================
