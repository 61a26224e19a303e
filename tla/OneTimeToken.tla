---------------------------- MODULE OneTimeToken ----------------------------
(***************************************************************************)
(* What the nonces of acme2certifier promise: a token is drawn once, and   *)
(* at most one request ever spends it. A token that was drawn may never    *)
(* become live (its insert failed), and a live token may be dropped.       *)
(***************************************************************************)
CONSTANTS Tokens, Users

VARIABLES
    drawn,     \* tokens drawn so far
    live,      \* tokens that can be spent
    spender    \* for each token the users that spent it

tokenVars == <<drawn, live, spender>>

Init ==
    /\ drawn = {} /\ live = {}
    /\ spender = [t \in Tokens |-> {}]

Draw(t) ==
    /\ t \notin drawn
    /\ drawn' = drawn \cup {t}
    /\ live' \in {live, live \cup {t}}
    /\ UNCHANGED spender

Spend(t, u) ==
    /\ t \in live /\ spender[t] = {}
    /\ live' = live \ {t}
    /\ spender' = [spender EXCEPT ![t] = {u}]
    /\ UNCHANGED drawn

Drop ==
    /\ live' \subseteq live
    /\ UNCHANGED <<drawn, spender>>

Next ==
    \/ \E t \in Tokens : Draw(t) \/ \E u \in Users : Spend(t, u)
    \/ Drop

Spec == Init /\ [][Next]_tokenVars
=============================================================================
