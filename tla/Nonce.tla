------------------------------- MODULE Nonce -------------------------------
(***************************************************************************)
(* Replay protection: the nonce table shared by the server processes, the  *)
(* newnonce request, the consumption of a nonce by a signed request, the   *)
(* new nonce every response carries, and the cleanup of old nonces that a  *)
(* process runs when it starts and with every newnonce request.            *)
(*                                                                         *)
(* Each database statement is one step; requests of all processes          *)
(* interleave between them.                                                *)
(***************************************************************************)
EXTENDS Integers, FiniteSets

CONSTANTS
    Nonces,            \* the values uuid4 may return, never twice the same
    Processes,
    Requests,
    Kind,              \* "newnonce", "post" or "cleanup" (at process start)
    ProcessOf,
    Validity,          \* [Nonce] validity of the configuration, 0: no cleanup
    DefaultValidity,   \* what a Nonce object has that loaded no configuration
    Django,            \* TRUE: django views and handler, FALSE: wsgi
    Faults,            \* subset of {"db", "crash"}
    MaxTime,
    NoNonce

ASSUME NonceAssumption ==
    /\ Kind \in [Requests -> {"newnonce", "post", "cleanup"}]
    /\ ProcessOf \in [Requests -> Processes]
    /\ Validity \in Nat /\ DefaultValidity \in Nat \ {0} /\ MaxTime \in Nat
    /\ Django \in BOOLEAN /\ Faults \subseteq {"db", "crash"}
    /\ NoNonce \notin Nonces

VARIABLES
    now,
    table, created,     \* rows of the nonce table and their created_at
    drawn,              \* values generated so far
    issued,             \* values that a response carried to a client
    boot,               \* when a process imported nonce.py
    pc, hits, nonce, code,   \* locals of a request
    \* history, never read by the program:
    unstored,           \* values handed out although the insert failed
    troubled            \* requests that met a database error

vars == <<now, table, created, drawn, issued, boot, pc, hits, nonce, code,
          unstored, troubled>>

Pc    == {"idle", "search", "delete", "consume", "respond", "done"}
Codes == {"none", "accepted", "badNonce", "malformed"}

\* the import of the server module runs the cleanup before it serves requests
Init ==
    /\ now = 0
    /\ table = {} /\ drawn = {} /\ issued = {}
    /\ created = [n \in Nonces |-> 0]
    /\ boot = [p \in Processes |-> 0]
    /\ pc = [r \in Requests |-> IF Kind[r] = "cleanup" THEN "search" ELSE "idle"]
    /\ hits = [r \in Requests |-> {}]
    /\ nonce = [r \in Requests |-> NoNonce]
    /\ code = [r \in Requests |-> "none"]
    /\ unstored = {} /\ troubled = {}

-----------------------------------------------------------------------------
Goto(r, label) == pc' = [pc EXCEPT ![r] = label]

\* nothing is served while the process still runs its start-up code
Serving(p) == \A r \in Requests :
    Kind[r] = "cleanup" /\ ProcessOf[r] = p => pc[r] = "done"

\* wsgi newnonce uses a Nonce object that did not load its configuration
ValidityOf(r) == IF Kind[r] = "newnonce" /\ ~Django THEN DefaultValidity
                 ELSE Validity

\* The default argument of expire_nonces is evaluated when the module is
\* imported. Variant with a bug: the validity is not subtracted.
ThresholdNoValidity(r) == boot[ProcessOf[r]]
Threshold(r) == boot[ProcessOf[r]] - ValidityOf(r)

\* the django query includes the threshold, the wsgi one does not
Old(n, t) == IF Django THEN created[n] <= t ELSE created[n] < t

AfterCleanup(r) == IF Kind[r] = "cleanup" THEN "done" ELSE "respond"

-----------------------------------------------------------------------------
(* Requests                                                                *)

Receive(r) ==
    /\ pc[r] = "idle" /\ Serving(ProcessOf[r])
    /\ \/ /\ Kind[r] = "newnonce"
          /\ Goto(r, "search")
          /\ UNCHANGED <<nonce, code>>
       \* a POST brings a nonce some response carried, used or not ...
       \/ /\ Kind[r] = "post"
          /\ \E n \in issued : nonce' = [nonce EXCEPT ![r] = n]
          /\ Goto(r, "consume")
          /\ UNCHANGED code
       \* ... or none, or cannot be decoded
       \/ /\ Kind[r] = "post"
          /\ \E c \in {"badNonce", "malformed"} : code' = [code EXCEPT ![r] = c]
          /\ Goto(r, "respond")
          /\ UNCHANGED nonce
    /\ UNCHANGED <<now, table, created, drawn, issued, boot, hits, unstored,
                   troubled>>

\* expire_nonces: search, then one delete of all rows found
Search(r) ==
    /\ pc[r] = "search"
    /\ IF ValidityOf(r) = 0 THEN Goto(r, AfterCleanup(r)) /\ UNCHANGED hits
       ELSE \/ /\ hits' = [hits EXCEPT ![r] = {n \in table : Old(n, Threshold(r))}]
               /\ Goto(r, IF hits'[r] = {} THEN AfterCleanup(r) ELSE "delete")
            \/ "db" \in Faults /\ Goto(r, AfterCleanup(r)) /\ UNCHANGED hits
    /\ UNCHANGED <<now, table, created, drawn, issued, boot, nonce, code,
                   unstored, troubled>>

Delete(r) ==
    /\ pc[r] = "delete"
    /\ \/ table' = table \ hits[r]
       \/ "db" \in Faults /\ UNCHANGED table
    /\ Goto(r, AfterCleanup(r))
    /\ UNCHANGED <<now, created, drawn, issued, boot, hits, nonce, code,
                   unstored, troubled>>

\* variant with a bug: look first, delete later
CheckOnly(r) ==
    /\ pc[r] = "consume"
    /\ code' = [code EXCEPT ![r] =
                   IF nonce[r] \in table THEN "accepted" ELSE "badNonce"]
    /\ Goto(r, "respond")
    /\ UNCHANGED <<now, table, created, drawn, issued, boot, hits, nonce,
                   unstored, troubled>>

\* one DELETE statement, the number of deleted rows decides; what is checked
\* after the nonce (account, signature, the request itself) does not give it back
Consume(r) ==
    /\ pc[r] = "consume"
    /\ \/ /\ nonce[r] \in table
          /\ table' = table \ {nonce[r]}
          /\ code' = [code EXCEPT ![r] = "accepted"]
          /\ UNCHANGED troubled
       \/ /\ nonce[r] \notin table
          /\ code' = [code EXCEPT ![r] = "badNonce"]
          /\ UNCHANGED <<table, troubled>>
       \/ /\ "db" \in Faults
          /\ code' = [code EXCEPT ![r] = "badNonce"]
          /\ troubled' = troubled \cup {r}
          /\ UNCHANGED table
    /\ Goto(r, "respond")
    /\ UNCHANGED <<now, created, drawn, issued, boot, hits, nonce, unstored>>

\* generate_and_add: the response carries the value even if it was not stored
Respond(r) ==
    /\ pc[r] = "respond"
    /\ \E n \in Nonces \ drawn :
          /\ drawn' = drawn \cup {n}
          /\ \/ issued' = issued \cup {n}
             \/ "crash" \in Faults /\ UNCHANGED issued   \* the response is lost
          /\ created' = [created EXCEPT ![n] = now]
          /\ \/ table' = table \cup {n} /\ UNCHANGED unstored
             \/ /\ "db" \in Faults
                /\ unstored' = unstored \cup {n}
                /\ UNCHANGED table
    /\ Goto(r, "done")
    /\ UNCHANGED <<now, boot, hits, nonce, code, troubled>>

-----------------------------------------------------------------------------
(* Environment                                                             *)

\* the requests of the process are lost, nonce.py is imported anew and the
\* start-up cleanup runs again
Restart(p) ==
    /\ "crash" \in Faults
    /\ boot' = [boot EXCEPT ![p] = now]
    /\ pc' = [r \in Requests |->
                 IF ProcessOf[r] # p THEN pc[r]
                 ELSE IF Kind[r] = "cleanup" THEN "search"
                 ELSE IF pc[r] = "idle" THEN "idle" ELSE "done"]
    /\ UNCHANGED <<now, table, created, drawn, issued, hits, nonce, code,
                   unstored, troubled>>

Tick ==
    /\ now < MaxTime
    /\ now' = now + 1
    /\ UNCHANGED <<table, created, drawn, issued, boot, pc, hits, nonce, code,
                   unstored, troubled>>

Next ==
    \/ \E r \in Requests :
          Receive(r) \/ Search(r) \/ Delete(r) \/ Consume(r) \/ Respond(r)
    \/ \E p \in Processes : Restart(p)
    \/ Tick

Spec == Init /\ [][Next]_vars

-----------------------------------------------------------------------------
(* Properties                                                              *)

\* The values the table and the locals of a request can take.
TypeOK ==
    /\ now \in Nat
    /\ table \subseteq Nonces /\ created \in [Nonces -> Nat]
    /\ drawn \subseteq Nonces /\ issued \subseteq Nonces /\ unstored \subseteq Nonces
    /\ boot \in [Processes -> Nat]
    /\ pc \in [Requests -> Pc] /\ code \in [Requests -> Codes]
    /\ hits \in [Requests -> SUBSET Nonces]
    /\ nonce \in [Requests -> Nonces \cup {NoNonce}]
    /\ troubled \subseteq Requests

Accepted(r) == code[r] = "accepted"

\* _validate_and_consume_nonce: a nonce is accepted once, in whatever processes
\* the requests that carry it are served and however their steps interleave.
NonceUsedOnce ==
    \A r1, r2 \in Requests :
        Accepted(r1) /\ Accepted(r2) /\ nonce[r1] = nonce[r2] => r1 = r2

\* A request that brings a nonce is refused only for a reason: the nonce was
\* used before, its insert had failed, a database error met this request, or the
\* cleanup of this or another process may have taken it for old.
RefusedForCause ==
    \A r \in Requests : code[r] = "badNonce" /\ nonce[r] # NoNonce =>
        \/ \E q \in Requests : Accepted(q) /\ nonce[q] = nonce[r]
        \/ nonce[r] \in unstored
        \/ r \in troubled
        \/ \E v \in {Validity, IF Django THEN Validity ELSE DefaultValidity} :
              v > 0 /\ created[nonce[r]] + v <= now

\* What makes NonceUsedOnce inductive: an accepted nonce was drawn and is gone.
AcceptedIsGone ==
    /\ table \cup issued \subseteq drawn
    /\ \A r \in Requests :
          /\ pc[r] = "consume" => nonce[r] \in drawn /\ Kind[r] = "post"
          /\ Accepted(r) => /\ nonce[r] \in drawn \ table /\ Kind[r] = "post"
                            /\ pc[r] \in {"respond", "done"}

\* TypeOK and AcceptedIsGone together are inductive.
NonceInv == TypeOK /\ AcceptedIsGone

\* The nonces are one-time tokens: whatever the requests of all processes do is
\* a step of OneTimeToken or leaves its state alone.
spenders == [n \in Nonces |-> {r \in Requests : Accepted(r) /\ nonce[r] = n}]
Token == INSTANCE OneTimeToken
             WITH Tokens <- Nonces, Users <- Requests, live <- table,
                  spender <- spenders
ImplementsOneTimeToken == Token!Spec
=============================================================================
