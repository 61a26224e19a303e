---------------------------- MODULE NonceProofs ----------------------------
(***************************************************************************)
(* The inductive invariant NonceInv of module Nonce, that a nonce is used  *)
(* once, and that the nonces implement one-time tokens, for any number of  *)
(* processes, requests and nonces.                                         *)
(***************************************************************************)
EXTENDS Nonce, TLAPS

\* The invariant holds initially.
LEMMA NonceInit == Init => NonceInv
BY NonceAssumption DEF Init, NonceInv, TypeOK, AcceptedIsGone, Accepted, Pc, Codes

\* Every step preserves the types of the variables.
LEMMA NonceType == NonceInv /\ [Next]_vars => TypeOK'
<1> SUFFICES ASSUME NonceInv, [Next]_vars PROVE TypeOK'
  OBVIOUS
<1> USE NonceAssumption DEF NonceInv, TypeOK, Pc, Codes
<1>1. ASSUME NEW r \in Requests, Receive(r) PROVE TypeOK'
  BY <1>1 DEF Receive, Goto, AcceptedIsGone
<1>2. ASSUME NEW r \in Requests, Search(r) PROVE TypeOK'
  BY <1>2 DEF Search, Goto, AfterCleanup, Old
<1>3. ASSUME NEW r \in Requests, Delete(r) PROVE TypeOK'
  BY <1>3 DEF Delete, Goto, AfterCleanup
<1>4. ASSUME NEW r \in Requests, Consume(r) PROVE TypeOK'
  BY <1>4 DEF Consume, Goto
<1>5. ASSUME NEW r \in Requests, Respond(r) PROVE TypeOK'
  BY <1>5 DEF Respond, Goto
<1>6. ASSUME NEW p \in Processes, Restart(p) PROVE TypeOK'
  BY <1>6 DEF Restart
<1>7. CASE Tick
  BY <1>7 DEF Tick
<1>8. CASE UNCHANGED vars
  BY <1>8 DEF vars
<1> QED
  BY <1>1, <1>2, <1>3, <1>4, <1>5, <1>6, <1>7, <1>8 DEF Next

\* Every step keeps accepted nonces out of the table: only Respond adds a row,
\* and it adds one that was not drawn before.
LEMMA NonceGone == NonceInv /\ [Next]_vars => AcceptedIsGone'
<1> SUFFICES ASSUME NonceInv, [Next]_vars PROVE AcceptedIsGone'
  OBVIOUS
<1> USE NonceAssumption DEF NonceInv, TypeOK, AcceptedIsGone, Accepted
<1>1. ASSUME NEW r \in Requests, Receive(r) PROVE AcceptedIsGone'
  BY <1>1 DEF Receive, Goto
<1>2. ASSUME NEW r \in Requests, Search(r) PROVE AcceptedIsGone'
  BY <1>2 DEF Search, Goto, AfterCleanup
<1>3. ASSUME NEW r \in Requests, Delete(r) PROVE AcceptedIsGone'
  BY <1>3 DEF Delete, Goto, AfterCleanup
<1>4. ASSUME NEW r \in Requests, Consume(r) PROVE AcceptedIsGone'
  BY <1>4 DEF Consume, Goto
<1>5. ASSUME NEW r \in Requests, Respond(r) PROVE AcceptedIsGone'
  BY <1>5 DEF Respond, Goto
<1>6. ASSUME NEW p \in Processes, Restart(p) PROVE AcceptedIsGone'
  BY <1>6 DEF Restart
<1>7. CASE Tick
  BY <1>7 DEF Tick
<1>8. CASE UNCHANGED vars
  BY <1>8 DEF vars
<1> QED
  BY <1>1, <1>2, <1>3, <1>4, <1>5, <1>6, <1>7, <1>8 DEF Next

\* In every reachable state the variables have their types, and an accepted
\* nonce was drawn and is not in the table.
THEOREM NonceInvariant == Spec => []NonceInv
<1>1. Init => NonceInv
  BY NonceInit
<1>2. NonceInv /\ [Next]_vars => NonceInv'
  BY NonceType, NonceGone DEF NonceInv
<1> QED
  BY <1>1, <1>2, PTL DEF Spec

\* Only Consume accepts a nonce, and only one that is in the table, where no
\* accepted one is.
LEMMA UsedOnceStep ==
    NonceInv /\ NonceUsedOnce /\ [Next]_vars => NonceUsedOnce'
<1> SUFFICES ASSUME NonceInv, NonceUsedOnce, [Next]_vars PROVE NonceUsedOnce'
  OBVIOUS
<1> USE NonceAssumption DEF NonceInv, TypeOK, AcceptedIsGone, Accepted, NonceUsedOnce
<1>1. ASSUME NEW r \in Requests, Receive(r) PROVE NonceUsedOnce'
  BY <1>1 DEF Receive
<1>2. ASSUME NEW r \in Requests, Consume(r) PROVE NonceUsedOnce'
  BY <1>2 DEF Consume
<1>3. ASSUME UNCHANGED <<nonce, code>> PROVE NonceUsedOnce'
  BY <1>3
<1> QED
  BY <1>1, <1>2, <1>3
     DEF Next, vars, Search, Delete, Respond, Restart, Tick

\* _validate_and_consume_nonce accepts a nonce at most once, over all processes.
THEOREM UsedOnce == Spec => []NonceUsedOnce
<1>1. Init => NonceUsedOnce
  BY DEF Init, NonceUsedOnce, Accepted
<1>2. NonceInv /\ NonceUsedOnce /\ [Next]_vars => NonceUsedOnce'
  BY UsedOnceStep
<1> QED
  BY <1>1, <1>2, NonceInvariant, PTL DEF Spec

-----------------------------------------------------------------------------
(* Nonces are one-time tokens.                                             *)

\* A step that leaves who spent what alone and only removes rows drops tokens.
LEMMA DropStep ==
    ASSUME UNCHANGED <<drawn, nonce, code>>, table' \subseteq table
    PROVE  Token!Next
BY DEF Token!Next, Token!Drop, spenders, Accepted

\* Every step of Nonce is a step of OneTimeToken.
LEMMA TokenStep == NonceInv /\ [Next]_vars => [Token!Next]_(Token!tokenVars)
<1> SUFFICES ASSUME NonceInv, [Next]_vars
             PROVE  Token!Next \/ UNCHANGED Token!tokenVars
  OBVIOUS
<1> USE NonceAssumption DEF NonceInv, TypeOK, AcceptedIsGone, Accepted
<1>1. ASSUME NEW r \in Requests, Receive(r) PROVE UNCHANGED Token!tokenVars
  <2>1. code[r] # "accepted" /\ code'[r] # "accepted"
    BY <1>1 DEF Receive
  <2>2. UNCHANGED spenders
    BY <1>1, <2>1 DEF Receive, spenders
  <2> QED
    BY <1>1, <2>2 DEF Receive, Token!tokenVars
<1>2. ASSUME NEW r \in Requests, Search(r) PROVE Token!Next
  BY <1>2, DropStep DEF Search
<1>3. ASSUME NEW r \in Requests, Delete(r) PROVE Token!Next
  BY <1>3, DropStep DEF Delete
<1>4. ASSUME NEW r \in Requests, Consume(r) PROVE Token!Next \/ UNCHANGED Token!tokenVars
  <2>1. CASE code'[r] = "accepted"
    <3> DEFINE n == nonce[r]
    <3>1. n \in table /\ n \in Nonces /\ table' = table \ {n} /\ UNCHANGED <<drawn, nonce>>
      BY <1>4, <2>1 DEF Consume
    <3>2. spenders[n] = {}
      BY <3>1 DEF spenders
    <3>3. \A q \in Requests : code'[q] = IF q = r THEN "accepted" ELSE code[q]
      BY <1>4, <2>1 DEF Consume
    <3>4. spenders' = [spenders EXCEPT ![n] = {r}]
      <4>1. ASSUME NEW m \in Nonces, m # n PROVE spenders'[m] = spenders[m]
        BY <3>1, <3>3, <4>1 DEF spenders
      <4>2. spenders'[n] = {r}
        BY <3>1, <3>2, <3>3 DEF spenders
      <4> QED
        BY <4>1, <4>2 DEF spenders
    <3>5. Token!Spend(n, r)
      BY <3>1, <3>2, <3>4 DEF Token!Spend
    <3> QED
      BY <3>1, <3>5 DEF Token!Next
  <2>2. CASE code'[r] # "accepted"
    <3>1. table' = table /\ UNCHANGED <<drawn, nonce>>
      BY <1>4, <2>2 DEF Consume
    <3>2. \A q \in Requests : (code'[q] = "accepted") <=> (code[q] = "accepted")
      BY <1>4, <2>2 DEF Consume
    <3>3. UNCHANGED spenders
      BY <3>1, <3>2 DEF spenders
    <3> QED
      BY <3>1, <3>3 DEF Token!tokenVars
  <2> QED
    BY <2>1, <2>2
<1>5. ASSUME NEW r \in Requests, Respond(r) PROVE Token!Next
  <2>1. PICK n \in Nonces \ drawn :
           drawn' = drawn \cup {n} /\ table' \in {table, table \cup {n}}
    BY <1>5 DEF Respond
  <2>2. UNCHANGED spenders
    BY <1>5 DEF Respond, spenders
  <2> QED
    BY <2>1, <2>2 DEF Token!Next, Token!Draw
<1>6. ASSUME UNCHANGED <<drawn, table, nonce, code>> PROVE Token!Next
  BY <1>6, DropStep
<1> QED
  BY <1>1, <1>2, <1>3, <1>4, <1>5, <1>6 DEF Next, vars, Restart, Tick

\* Whatever processes, requests and faults there are, the nonce table behaves
\* like a set of tokens each of which is spent by at most one request.
THEOREM Refinement == Spec => ImplementsOneTimeToken
<1>1. Init => Token!Init
  BY DEF Init, Token!Init, spenders, Accepted
<1>2. NonceInv /\ [Next]_vars => [Token!Next]_(Token!tokenVars)
  BY TokenStep
<1> QED
  BY <1>1, <1>2, NonceInvariant, PTL DEF Spec, ImplementsOneTimeToken, Token!Spec
-----------------------------------------------------------------------------
(* A nonce is refused for a cause.                                         *)

\* What is behind a row that is gone: it was used, never stored, or old for the
\* cleanup of some process.
Aged(n) == \E v \in {Validity, IF Django THEN Validity ELSE DefaultValidity} :
              v > 0 /\ created[n] + v <= now
Spent(n) == \E q \in Requests : Accepted(q) /\ nonce[q] = n
Cause(n) == Spent(n) \/ n \in unstored \/ Aged(n)

\* RefusedForCause looks at a request long after its nonce disappeared, maybe by
\* the delete of a cleanup that had searched still earlier: rows that were found
\* are old, and rows that are gone have their cause.
GoneForCause ==
    /\ \A p \in Processes : boot[p] <= now
    /\ \A r \in Requests : \A n \in hits[r] : n \in drawn /\ Aged(n)
    /\ \A n \in drawn \ table : Cause(n)
    /\ \A r \in Requests : pc[r] = "idle" => nonce[r] = NoNonce /\ code[r] = "none"
    /\ \A r \in Requests : code[r] = "badNonce" /\ nonce[r] # NoNonce =>
          nonce[r] \in drawn /\ (r \in troubled \/ Cause(nonce[r]))

\* A cause does not go away: time passes on, and an accepted request is not
\* received again.
LEMMA CauseKept ==
    ASSUME TypeOK, NEW n \in drawn, Cause(n), now <= now', unstored \subseteq unstored',
           created'[n] = created[n], now' \in Nat,
           \A q \in Requests : Accepted(q) => code'[q] = code[q] /\ nonce'[q] = nonce[q]
    PROVE  Cause(n)'
<1>1. Aged(n) => Aged(n)'
  BY NonceAssumption DEF Aged, TypeOK
<1>2. Spent(n) => Spent(n)'
  BY DEF Spent, Accepted
<1> QED
  BY <1>1, <1>2 DEF Cause

LEMMA CauseStep == NonceInv /\ GoneForCause /\ [Next]_vars => GoneForCause'
<1> SUFFICES ASSUME NonceInv, GoneForCause, [Next]_vars PROVE GoneForCause'
  OBVIOUS
<1> USE NonceAssumption DEF NonceInv, TypeOK
<1>1. ASSUME NEW r \in Requests, Receive(r) PROVE GoneForCause'
  <2>1. \A q \in Requests : Accepted(q) => code'[q] = code[q] /\ nonce'[q] = nonce[q]
    BY <1>1 DEF Receive, GoneForCause, Accepted
  <2>2. \A n \in drawn : Cause(n) => Cause(n)'
    BY <1>1, <2>1, CauseKept DEF Receive
  <2>3. \A n : Aged(n)' = Aged(n)
    BY <1>1 DEF Receive, Aged
  <2> QED
    BY <1>1, <2>2, <2>3 DEF Receive, Goto, GoneForCause, AcceptedIsGone
<1>2. ASSUME NEW r \in Requests, Search(r) PROVE GoneForCause'
  <2>1. \A n : Cause(n)' = Cause(n) /\ Aged(n)' = Aged(n)
    BY <1>2 DEF Search, Cause, Spent, Aged, Accepted
  <2>2. \A n \in table : Old(n, Threshold(r)) /\ ValidityOf(r) # 0 => n \in drawn /\ Aged(n)
    BY DEF Old, Threshold, ValidityOf, Aged, GoneForCause, AcceptedIsGone
  <2>3. \A q \in Requests : \A n \in hits'[q] : n \in drawn /\ Aged(n)
    BY <1>2, <2>2 DEF Search, GoneForCause
  <2> QED
    BY <1>2, <2>1, <2>3 DEF Search, Goto, AfterCleanup, GoneForCause
<1>3. ASSUME NEW r \in Requests, Delete(r) PROVE GoneForCause'
  <2>1. \A n : Cause(n)' = Cause(n) /\ Aged(n)' = Aged(n)
    BY <1>3 DEF Delete, Cause, Spent, Aged, Accepted
  <2>2. \A n \in drawn \ table' : Cause(n)
    BY <1>3 DEF Delete, GoneForCause, Cause
  <2> QED
    BY <1>3, <2>1, <2>2 DEF Delete, Goto, AfterCleanup, GoneForCause
<1>4. ASSUME NEW r \in Requests, Consume(r) PROVE GoneForCause'
  <2>1. \A q \in Requests : Accepted(q) => code'[q] = code[q] /\ nonce'[q] = nonce[q]
    BY <1>4 DEF Consume, Accepted, AcceptedIsGone
  <2>2. \A n \in drawn : Cause(n) => Cause(n)'
    BY <1>4, <2>1, CauseKept DEF Consume
  <2>3. \A n : Aged(n)' = Aged(n)
    BY <1>4 DEF Consume, Aged
  <2>4. nonce[r] \in drawn
    BY <1>4 DEF Consume, AcceptedIsGone
  <2>5. \A n \in drawn \ table' : Cause(n)'
    <3>1. nonce[r] \notin table' /\ nonce[r] \in table => Cause(nonce[r])'
      BY <1>4 DEF Consume, Cause, Spent, Accepted
    <3> QED
      BY <1>4, <2>2, <3>1 DEF Consume, GoneForCause
  <2>6. code'[r] = "badNonce" => r \in troubled' \/ Cause(nonce[r])'
    BY <1>4, <2>2, <2>4 DEF Consume, GoneForCause
  <2> QED
    BY <1>4, <2>2, <2>3, <2>4, <2>5, <2>6 DEF Consume, Goto, GoneForCause
<1>5. ASSUME NEW r \in Requests, Respond(r) PROVE GoneForCause'
  <2>1. \A n \in drawn : created'[n] = created[n]
    BY <1>5 DEF Respond
  <2>2. \A n \in drawn : Cause(n) => Cause(n)'
    BY <1>5, <2>1, CauseKept DEF Respond
  <2>3. \A n \in drawn : Aged(n)' = Aged(n)
    BY <1>5, <2>1 DEF Respond, Aged
  <2>4. \A n \in drawn' \ table' : Cause(n)'
    <3>1. \A n \in drawn' \ drawn : n \in table' \/ n \in unstored'
      BY <1>5 DEF Respond
    <3>2. table \subseteq table'
      BY <1>5 DEF Respond
    <3> QED
      BY <2>2, <3>1, <3>2 DEF GoneForCause, Cause
  <2> QED
    BY <1>5, <2>2, <2>3, <2>4 DEF Respond, Goto, GoneForCause
<1>6. ASSUME NEW p \in Processes, Restart(p) PROVE GoneForCause'
  <2>1. \A n : Cause(n)' = Cause(n) /\ Aged(n)' = Aged(n)
    BY <1>6 DEF Restart, Cause, Spent, Aged, Accepted
  <2> QED
    BY <1>6, <2>1 DEF Restart, GoneForCause
<1>7. CASE Tick
  <2>1. \A n \in drawn : Cause(n) => Cause(n)'
    BY <1>7, CauseKept DEF Tick
  <2>2. \A n \in Nonces : Aged(n) => Aged(n)'
    BY <1>7 DEF Tick, Aged
  <2> QED
    BY <1>7, <2>1, <2>2 DEF Tick, GoneForCause
<1>8. CASE UNCHANGED vars
  BY <1>8 DEF vars, GoneForCause, Cause, Spent, Aged, Accepted
<1> QED
  BY <1>1, <1>2, <1>3, <1>4, <1>5, <1>6, <1>7, <1>8 DEF Next

\* _validate_and_consume_nonce refuses a nonce only because it was used, its
\* insert had failed, this request met a database error, or a cleanup, which
\* takes the time of the import of its process, may have removed it.
THEOREM Refusals == Spec => []RefusedForCause
<1>1. Init => GoneForCause
  BY NonceAssumption DEF Init, GoneForCause
<1>2. NonceInv /\ GoneForCause /\ [Next]_vars => GoneForCause'
  BY CauseStep
<1>3. GoneForCause => RefusedForCause
  BY DEF GoneForCause, RefusedForCause, Cause, Spent, Aged
<1> QED
  BY <1>1, <1>2, <1>3, NonceInvariant, PTL DEF Spec
=============================================================================
