--------------------------- MODULE ProcessProofs ---------------------------
(***************************************************************************)
(* Theorems about ProcessState, for any number of calls, any kinds and any *)
(* settings: what is left in the process and on disk, and who answered.    *)
(***************************************************************************)
EXTENDS ProcessState, TLAPS

WebLabels == {"connect", "dial", "answer"}

\* the place of a call says of what kind it is, and how far it came
PlaceFits ==
  \A c \in Calls :
    /\ pc[c] \in {"save", "patch", "restore"} => kind[c] = "fetch"
    /\ pc[c] \in {"keep", "narrow", "widen"} => kind[c] = "get"
    /\ pc[c] \in {"enter", "set", "unset"} => kind[c] = "certsrv"
    /\ pc[c] \in WebLabels => kind[c] \in {"fetch", "get", "certsrv"}
    /\ pc[c] \in {"prepare", "acquire", "kinit", "creds", "checks", "clean"}
         => kind[c] \in {"certsrv", "icpr"}
    /\ pc[c] = "rpc" => kind[c] = "icpr"
    /\ pc[c] \in {"narrow", "widen"} => c \in again
    /\ pc[c] = "keep" => c \notin again
    /\ Scoped(c) => saved[c] \in IF kind[c] = "get" THEN {"any", "v4"}
                                                  ELSE {"inherited", "config"}
    /\ pc[c] = "idle" => c \notin again \cup tickets /\ result[c] = "none"

\* without a crossing one download at a time has the function in its hands
ConnInv ==
  ~crossed =>
    /\ orig = System
    /\ \A c, d \in Calls : Patching(c) /\ Patching(d) => c = d
    /\ \A c \in Calls : Patching(c) => create = IF pc[c] = "patch" THEN System ELSE c
    /\ (\A c \in Calls : ~Patching(c)) => create = System

\* the same for the address family and for the environment
ScopeInv ==
  ~mixed =>
    /\ \A c, d \in Calls : Scoped(c) /\ Scoped(d) /\ kind[c] = kind[d] => c = d
    /\ \A c \in Calls : Scoped(c) =>
         saved[c] = IF kind[c] = "get" THEN "any" ELSE "inherited"
    /\ (\A c \in Calls : Scoped(c) => kind[c] # "get") => gai = "any"
    /\ (\A c \in Calls : Scoped(c) => kind[c] # "certsrv") => env = "inherited"
    /\ \A c \in Calls : kind[c] = "certsrv" /\ pc[c] \in WebLabels
         /\ config.krb5 = "file" => env = "config"

\* a running enrollment knows its ticket file
TicketInv ==
  \A c \in tickets :
    /\ kind[c] \in {"certsrv", "icpr"} /\ ~config.shared
    /\ Running(c) => c \in stuck \/ ccache[c] = "temporary"
    /\ Running(c) \/ c \in stuck \/ result[c] \in {"raised", "lost"}

\* a connection that nobody disturbed is opened to the address of its call
OwnInv ==
  \A c \in Calls \ shaken :
    /\ pc[c] \in {"dial", "answer"} => addr[c] = Own(c)
    /\ result[c] = "ok" /\ kind[c] # "icpr" => peer[c] = Own(c)

Inv == TypeOK /\ PlaceFits /\ ConnInv /\ ScopeInv /\ TicketInv /\ OwnInv

USE DEF Goto, End, Note, WebLabels, Labels

-----------------------------------------------------------------------------
LEMMA InitInv == Init => Inv
<1> SUFFICES ASSUME Init PROVE Inv
  OBVIOUS
<1> USE ProcessAssumption DEF Init
<1>1. TypeOK
  <2>1. config \in Configs
    OBVIOUS
  <2>2. create \in Calls \cup {System} /\ orig \in Calls \cup {System}
    OBVIOUS
  <2>3. gai \in {"any", "v4"} /\ env \in {"inherited", "config"}
    OBVIOUS
  <2>4. kind \in [Calls -> Kinds \cup {"none"}]
    OBVIOUS
  <2>5. pc \in [Calls -> Labels]
    OBVIOUS
  <2>6. again \subseteq Calls /\ left \in [Calls -> Int]
    OBVIOUS
  <2>7. /\ saved \in [Calls -> {"none", "any", "v4", "inherited", "config"}]
        /\ addr \in [Calls -> Calls \cup {System}]
        /\ peer \in [Calls -> Calls \cup {System}]
        /\ result \in [Calls -> {"none", "ok", "error", "raised", "lost"}]
        /\ ccache \in [Calls -> {"none", "temporary", "given"}]
    OBVIOUS
  <2>8. /\ tickets \subseteq Calls /\ stuck \subseteq Calls
        /\ crossed \in BOOLEAN /\ mixed \in BOOLEAN /\ shaken \subseteq Calls
    OBVIOUS
  <2> QED
    BY <2>1, <2>2, <2>3, <2>4, <2>5, <2>6, <2>7, <2>8 DEF TypeOK
<1>2. PlaceFits
  BY DEF PlaceFits, Scoped, Running
<1>3. ConnInv
  BY DEF ConnInv, Patching
<1>4. ScopeInv
  BY DEF ScopeInv, Scoped, Running
<1>5. TicketInv /\ OwnInv
  BY DEF TicketInv, OwnInv
<1> QED
  BY <1>1, <1>2, <1>3, <1>4, <1>5 DEF Inv

(* Each step keeps each part of the invariant.                              *)

LEMMA TypeStep ==
  ASSUME TypeOK, PlaceFits, NEW c \in Calls, Step(c)
  PROVE  TypeOK'
<1> USE DEF TypeOK
<1>1. CASE Start(c)
  BY <1>1, ProcessAssumption DEF Start, FirstStep, Addresses, callVars, shared, conn,
      ghosts, ticketVars
<1>2. CASE Connect(c)
  BY <1>2 DEF Connect, Disturbed, callVars, shared, conn, ghosts, ticketVars
<1>3. CASE DialOriginal(c)
  BY <1>3 DEF DialOriginal, Disturbed, callVars, shared, conn, ghosts, ticketVars
<1>4. CASE Recursion(c)
  BY <1>4 DEF Recursion, AfterRequest, AfterFetch, AfterGet, AfterWebRequests,
      Disturbed, callVars, shared, conn, ghosts, ticketVars
<1>5. CASE Answer(c)
  BY <1>5 DEF Answer, AfterRequest, AfterFetch, AfterGet, AfterWebRequests,
      Disturbed, callVars, shared, conn, ghosts, ticketVars
<1>6. CASE SaveOriginal(c)
  BY <1>6 DEF SaveOriginal, Disturbed, callVars, ticketVars
<1>7. CASE Patch(c)
  BY <1>7 DEF Patch, Disturbed, callVars, ticketVars
<1>8. CASE Restore(c)
  BY <1>8 DEF Restore, callVars, ghosts, ticketVars
<1>9. CASE KeepFamily(c)
  BY <1>9 DEF KeepFamily, callVars, shared, conn, ghosts, ticketVars
<1>10. CASE NarrowFamily(c)
  BY <1>10 DEF NarrowFamily, callVars, conn, ghosts, ticketVars
<1>11. CASE WidenFamily(c)
  BY <1>11 DEF WidenFamily, callVars, conn, ghosts, ticketVars,
      PlaceFits, Scoped, Running
<1>12. CASE Prepare(c)
  BY <1>12 DEF Prepare, WithKeytab, WithPassword, PrepareCache, Fail, Stop,
      callVars, shared, conn, ghosts, ticketVars
<1>13. CASE PreparePython(c)
  BY <1>13 DEF PreparePython, WithKeytab, PrepareCache, Fail, Advance, Stop,
      callVars, shared, conn, ghosts, ticketVars
<1>14. CASE AcquireInProcess(c)
  BY <1>14 DEF AcquireInProcess, callVars, shared, conn, ghosts, ticketVars
<1>15. CASE Kinit(c)
  BY <1>15 DEF Kinit, Fail, Advance, Stop, callVars, shared, conn, ghosts,
      ticketVars
<1>16. CASE KinitPassword(c)
  BY <1>16 DEF KinitPassword, Advance, Cleanup, callVars, shared, conn, ghosts,
      ticketVars
<1>17. CASE KinitPython(c)
  BY <1>17 DEF KinitPython, Fail, Advance, Stop, callVars, shared, conn, ghosts,
      ticketVars
<1>18. CASE LoadCredentials(c)
  BY <1>18 DEF LoadCredentials, Fail, Advance, Stop, callVars, shared, conn,
      ghosts, ticketVars
<1>19. CASE LoadTicket(c)
  BY <1>19 DEF LoadTicket, Fail, Advance, Stop, callVars, shared, conn, ghosts,
      ticketVars
<1>20. CASE Check(c)
  BY <1>20 DEF Check, Fail, Advance, Stop, callVars, shared, conn, ghosts,
      ticketVars
<1>21. CASE EnterScope(c)
  BY <1>21 DEF EnterScope, callVars, shared, conn, ghosts, ticketVars
<1>22. CASE SetConfig(c)
  BY <1>22 DEF SetConfig, callVars, conn, ghosts, ticketVars
<1>23. CASE LeaveScope(c)
  BY <1>23 DEF LeaveScope, callVars, conn, ghosts, ticketVars,
      PlaceFits, Scoped, Running
<1>24. CASE CallRpc(c)
  BY <1>24 DEF CallRpc, callVars, shared, conn, ghosts, ticketVars
<1>25. CASE Finish(c)
  BY <1>25 DEF Finish, Cleanup, callVars, shared, conn, ghosts, ticketVars
<1> QED
  BY <1>1, <1>2, <1>3, <1>4, <1>5, <1>6, <1>7, <1>8, <1>9, <1>10, <1>11, <1>12,
      <1>13, <1>14, <1>15, <1>16, <1>17, <1>18, <1>19, <1>20, <1>21, <1>22, <1>23,
      <1>24, <1>25 DEF Step

\* a call goes from place to place as its kind does
LEMMA PlaceStep ==
  ASSUME TypeOK, PlaceFits, NEW c \in Calls, Step(c)
  PROVE  PlaceFits'
<1> USE DEF TypeOK, PlaceFits, Scoped, Running
<1>1. CASE Start(c)
  BY <1>1, ProcessAssumption DEF Start, FirstStep, callVars, ticketVars
<1>2. CASE Connect(c)
  BY <1>2 DEF Connect, callVars, ticketVars
<1>3. CASE DialOriginal(c)
  BY <1>3 DEF DialOriginal, callVars, ticketVars
<1>4. CASE Recursion(c)
  BY <1>4 DEF Recursion, AfterRequest, AfterFetch, AfterGet, AfterWebRequests,
      callVars, ticketVars
<1>5. CASE Answer(c)
  BY <1>5 DEF Answer, AfterRequest, AfterFetch, AfterGet, AfterWebRequests,
      callVars, ticketVars
<1>6. CASE SaveOriginal(c)
  BY <1>6 DEF SaveOriginal, callVars, ticketVars
<1>7. CASE Patch(c)
  BY <1>7 DEF Patch, callVars, ticketVars
<1>8. CASE Restore(c)
  BY <1>8 DEF Restore, callVars, ticketVars
<1>9. CASE KeepFamily(c)
  BY <1>9 DEF KeepFamily, callVars, ticketVars
<1>10. CASE NarrowFamily(c)
  BY <1>10 DEF NarrowFamily, callVars, ticketVars
<1>11. CASE WidenFamily(c)
  BY <1>11 DEF WidenFamily, callVars, ticketVars
<1>12. CASE Prepare(c)
  BY <1>12 DEF Prepare, WithKeytab, WithPassword, PrepareCache, Fail, Stop,
      callVars, ticketVars
<1>13. CASE PreparePython(c)
  BY <1>13 DEF PreparePython, WithKeytab, PrepareCache, Fail, Advance, Stop,
      callVars, ticketVars
<1>14. CASE AcquireInProcess(c)
  BY <1>14 DEF AcquireInProcess, callVars, ticketVars
<1>15. CASE Kinit(c)
  BY <1>15 DEF Kinit, Fail, Advance, Stop, callVars, ticketVars
<1>16. CASE KinitPassword(c)
  BY <1>16 DEF KinitPassword, Advance, Cleanup, callVars, ticketVars
<1>17. CASE KinitPython(c)
  BY <1>17 DEF KinitPython, Fail, Advance, Stop, callVars, ticketVars
<1>18. CASE LoadCredentials(c)
  BY <1>18 DEF LoadCredentials, Fail, Advance, Stop, callVars, ticketVars
<1>19. CASE LoadTicket(c)
  BY <1>19 DEF LoadTicket, Fail, Advance, Stop, callVars, ticketVars
<1>20. CASE Check(c)
  BY <1>20 DEF Check, Fail, Advance, Stop, callVars, ticketVars
<1>21. CASE EnterScope(c)
  BY <1>21 DEF EnterScope, callVars, ticketVars
<1>22. CASE SetConfig(c)
  BY <1>22 DEF SetConfig, callVars, ticketVars
<1>23. CASE LeaveScope(c)
  BY <1>23 DEF LeaveScope, callVars, ticketVars
<1>24. CASE CallRpc(c)
  BY <1>24 DEF CallRpc, callVars, ticketVars
<1>25. CASE Finish(c)
  BY <1>25 DEF Finish, Cleanup, callVars, ticketVars
<1> QED
  BY <1>1, <1>2, <1>3, <1>4, <1>5, <1>6, <1>7, <1>8, <1>9, <1>10, <1>11, <1>12,
      <1>13, <1>14, <1>15, <1>16, <1>17, <1>18, <1>19, <1>20, <1>21, <1>22, <1>23,
      <1>24, <1>25 DEF Step

\* only the save of a second download, which is noted, finds a changed function
LEMMA ConnStep ==
  ASSUME TypeOK, PlaceFits, ConnInv, NEW c \in Calls, Step(c)
  PROVE  ConnInv'
<1> USE DEF TypeOK, PlaceFits, ConnInv, Patching
<1>1. CASE Start(c)
  BY <1>1, ProcessAssumption DEF Start, FirstStep, callVars, shared, conn, ghosts
<1>2. CASE Connect(c)
  BY <1>2 DEF Connect, callVars, shared, conn, ghosts
<1>3. CASE DialOriginal(c)
  BY <1>3 DEF DialOriginal, callVars, shared, conn, ghosts
<1>4. CASE Recursion(c)
  BY <1>4 DEF Recursion, AfterRequest, AfterFetch, AfterGet, AfterWebRequests,
      callVars, shared, conn, ghosts
<1>5. CASE Answer(c)
  BY <1>5 DEF Answer, AfterRequest, AfterFetch, AfterGet, AfterWebRequests,
      callVars, shared, conn, ghosts
<1>6. CASE SaveOriginal(c)
  <2>1. SUFFICES ASSUME ~crossed'
                 PROVE  /\ orig' = System
                        /\ \A d, e \in Calls : Patching(d)' /\ Patching(e)' => d = e
                        /\ \A d \in Calls : Patching(d)' =>
                             create' = IF pc'[d] = "patch" THEN System ELSE d
                        /\ (\A d \in Calls : ~Patching(d)') => create' = System
    BY DEF ConnInv
  <2>2. ~crossed /\ ~\E d \in Calls \ {c} : Patching(d)
    BY <1>6, <2>1, Zenon DEF SaveOriginal
  <2>3. ~Patching(c) /\ create = System
    BY <1>6, <2>2 DEF SaveOriginal, Patching, ConnInv
  <2> QED
    BY <1>6, <2>2, <2>3 DEF SaveOriginal, Patching, TypeOK, callVars
<1>7. CASE Patch(c)
  BY <1>7 DEF Patch, callVars
<1>8. CASE Restore(c)
  BY <1>8 DEF Restore, callVars, ghosts
<1>9. CASE KeepFamily(c)
  BY <1>9 DEF KeepFamily, callVars, shared, conn, ghosts
<1>10. CASE NarrowFamily(c)
  BY <1>10 DEF NarrowFamily, callVars, conn, ghosts
<1>11. CASE WidenFamily(c)
  BY <1>11 DEF WidenFamily, callVars, conn, ghosts
<1>12. CASE Prepare(c)
  BY <1>12 DEF Prepare, WithKeytab, WithPassword, PrepareCache, Fail, Stop,
      callVars, shared, conn, ghosts
<1>13. CASE PreparePython(c)
  BY <1>13 DEF PreparePython, WithKeytab, PrepareCache, Fail, Advance, Stop,
      callVars, shared, conn, ghosts
<1>14. CASE AcquireInProcess(c)
  BY <1>14 DEF AcquireInProcess, callVars, shared, conn, ghosts
<1>15. CASE Kinit(c)
  BY <1>15 DEF Kinit, Fail, Advance, Stop, callVars, shared, conn, ghosts
<1>16. CASE KinitPassword(c)
  BY <1>16 DEF KinitPassword, Advance, callVars, shared, conn, ghosts
<1>17. CASE KinitPython(c)
  BY <1>17 DEF KinitPython, Fail, Advance, Stop, callVars, shared, conn, ghosts
<1>18. CASE LoadCredentials(c)
  BY <1>18 DEF LoadCredentials, Fail, Advance, Stop, callVars, shared, conn,
      ghosts
<1>19. CASE LoadTicket(c)
  BY <1>19 DEF LoadTicket, Fail, Advance, Stop, callVars, shared, conn, ghosts
<1>20. CASE Check(c)
  BY <1>20 DEF Check, Fail, Advance, Stop, callVars, shared, conn, ghosts
<1>21. CASE EnterScope(c)
  BY <1>21 DEF EnterScope, callVars, shared, conn, ghosts
<1>22. CASE SetConfig(c)
  BY <1>22 DEF SetConfig, callVars, conn, ghosts
<1>23. CASE LeaveScope(c)
  BY <1>23 DEF LeaveScope, callVars, conn, ghosts
<1>24. CASE CallRpc(c)
  BY <1>24 DEF CallRpc, callVars, shared, conn, ghosts
<1>25. CASE Finish(c)
  BY <1>25 DEF Finish, callVars, shared, conn, ghosts
<1> QED
  BY <1>1, <1>2, <1>3, <1>4, <1>5, <1>6, <1>7, <1>8, <1>9, <1>10, <1>11, <1>12,
      <1>13, <1>14, <1>15, <1>16, <1>17, <1>18, <1>19, <1>20, <1>21, <1>22, <1>23,
      <1>24, <1>25 DEF Step

\* the same for a second change of the family or the environment
LEMMA ScopeStep ==
  ASSUME TypeOK, PlaceFits, ScopeInv, NEW c \in Calls, Step(c)
  PROVE  ScopeInv'
<1> USE DEF TypeOK, PlaceFits, ScopeInv, Scoped, Running
<1>1. CASE Start(c)
  BY <1>1, ProcessAssumption DEF Start, FirstStep, callVars, shared, ghosts
<1>2. CASE Connect(c)
  BY <1>2 DEF Connect, callVars, shared, ghosts
<1>3. CASE DialOriginal(c)
  BY <1>3 DEF DialOriginal, callVars, shared, ghosts
<1>4. CASE Recursion(c)
  BY <1>4 DEF Recursion, AfterRequest, AfterFetch, AfterGet, AfterWebRequests,
      callVars, shared, ghosts
<1>5. CASE Answer(c)
  BY <1>5 DEF Answer, AfterRequest, AfterFetch, AfterGet, AfterWebRequests,
      callVars, shared, ghosts
<1>6. CASE SaveOriginal(c)
  BY <1>6 DEF SaveOriginal, callVars
<1>7. CASE Patch(c)
  BY <1>7 DEF Patch, callVars
<1>8. CASE Restore(c)
  BY <1>8 DEF Restore, callVars, ghosts
<1>9. CASE KeepFamily(c)
  <2>1. SUFFICES ASSUME ~mixed' PROVE ScopeInv'
    BY DEF ScopeInv
  <2>2. ~mixed /\ ~\E d \in Calls \ {c} : Scoped(d) /\ kind[d] = "get"
    BY <1>9, <2>1, Zenon DEF KeepFamily
  <2> QED
    BY <1>9, <2>1, <2>2 DEF KeepFamily, TypeOK, PlaceFits, ScopeInv, Scoped, Running,
                           callVars, shared
<1>10. CASE NarrowFamily(c)
  BY <1>10 DEF NarrowFamily, callVars, ghosts
<1>11. CASE WidenFamily(c)
  BY <1>11 DEF WidenFamily, callVars, ghosts
<1>12. CASE Prepare(c)
  BY <1>12 DEF Prepare, WithKeytab, WithPassword, PrepareCache, Fail, Stop,
      callVars, shared, ghosts
<1>13. CASE PreparePython(c)
  BY <1>13 DEF PreparePython, WithKeytab, PrepareCache, Fail, Advance, Stop,
      callVars, shared, ghosts
<1>14. CASE AcquireInProcess(c)
  BY <1>14 DEF AcquireInProcess, callVars, shared, ghosts
<1>15. CASE Kinit(c)
  BY <1>15 DEF Kinit, Fail, Advance, Stop, callVars, shared, ghosts
<1>16. CASE KinitPassword(c)
  BY <1>16 DEF KinitPassword, Advance, callVars, shared, ghosts
<1>17. CASE KinitPython(c)
  BY <1>17 DEF KinitPython, Fail, Advance, Stop, callVars, shared, ghosts
<1>18. CASE LoadCredentials(c)
  BY <1>18 DEF LoadCredentials, Fail, Advance, Stop, callVars, shared, ghosts
<1>19. CASE LoadTicket(c)
  BY <1>19 DEF LoadTicket, Fail, Advance, Stop, callVars, shared, ghosts
<1>20. CASE Check(c)
  BY <1>20 DEF Check, Fail, Advance, Stop, callVars, shared, ghosts
<1>21. CASE EnterScope(c)
  <2>1. SUFFICES ASSUME ~mixed' PROVE ScopeInv'
    BY DEF ScopeInv
  <2>2. ~mixed /\ ~\E d \in Calls \ {c} : Scoped(d) /\ kind[d] = "certsrv"
    BY <1>21, <2>1, Zenon DEF EnterScope
  <2> QED
    BY <1>21, <2>1, <2>2 DEF EnterScope, TypeOK, PlaceFits, ScopeInv, Scoped, Running,
                           callVars, shared
<1>22. CASE SetConfig(c)
  BY <1>22 DEF SetConfig, callVars, ghosts
<1>23. CASE LeaveScope(c)
  BY <1>23 DEF LeaveScope, callVars, ghosts
<1>24. CASE CallRpc(c)
  BY <1>24 DEF CallRpc, callVars, shared, ghosts
<1>25. CASE Finish(c)
  BY <1>25 DEF Finish, callVars, shared, ghosts
<1> QED
  BY <1>1, <1>2, <1>3, <1>4, <1>5, <1>6, <1>7, <1>8, <1>9, <1>10, <1>11, <1>12,
      <1>13, <1>14, <1>15, <1>16, <1>17, <1>18, <1>19, <1>20, <1>21, <1>22, <1>23,
      <1>24, <1>25 DEF Step

\* a ticket file is removed, or its call ends with an exception
LEMMA TicketStep ==
  ASSUME TypeOK, PlaceFits, TicketInv, NEW c \in Calls, Step(c)
  PROVE  TicketInv'
<1> USE DEF TypeOK, PlaceFits, TicketInv, Running
<1>1. CASE Start(c)
  BY <1>1, ProcessAssumption DEF Start, FirstStep, callVars, ticketVars
<1>2. CASE Connect(c)
  BY <1>2 DEF Connect, callVars, ticketVars
<1>3. CASE DialOriginal(c)
  BY <1>3 DEF DialOriginal, callVars, ticketVars
<1>4. CASE Recursion(c)
  BY <1>4 DEF Recursion, AfterRequest, AfterFetch, AfterGet, AfterWebRequests,
      callVars, ticketVars
<1>5. CASE Answer(c)
  BY <1>5 DEF Answer, AfterRequest, AfterFetch, AfterGet, AfterWebRequests,
      callVars, ticketVars
<1>6. CASE SaveOriginal(c)
  BY <1>6 DEF SaveOriginal, callVars, ticketVars
<1>7. CASE Patch(c)
  BY <1>7 DEF Patch, callVars, ticketVars
<1>8. CASE Restore(c)
  BY <1>8 DEF Restore, callVars, ticketVars
<1>9. CASE KeepFamily(c)
  BY <1>9 DEF KeepFamily, callVars, ticketVars
<1>10. CASE NarrowFamily(c)
  BY <1>10 DEF NarrowFamily, callVars, ticketVars
<1>11. CASE WidenFamily(c)
  BY <1>11 DEF WidenFamily, callVars, ticketVars
<1>12. CASE Prepare(c)
  BY <1>12 DEF Prepare, WithKeytab, WithPassword, PrepareCache, Fail, Stop,
      callVars, ticketVars
<1>13. CASE PreparePython(c)
  BY <1>13 DEF PreparePython, WithKeytab, PrepareCache, Fail, Advance, Stop,
      callVars, ticketVars
<1>14. CASE AcquireInProcess(c)
  BY <1>14 DEF AcquireInProcess, callVars, ticketVars
<1>15. CASE Kinit(c)
  BY <1>15 DEF Kinit, Fail, Advance, Stop, callVars, ticketVars
<1>16. CASE KinitPassword(c)
  BY <1>16 DEF KinitPassword, Advance, Cleanup, callVars, ticketVars
<1>17. CASE KinitPython(c)
  BY <1>17 DEF KinitPython, Fail, Advance, Stop, callVars, ticketVars
<1>18. CASE LoadCredentials(c)
  BY <1>18 DEF LoadCredentials, Fail, Advance, Stop, callVars, ticketVars
<1>19. CASE LoadTicket(c)
  BY <1>19 DEF LoadTicket, Fail, Advance, Stop, callVars, ticketVars
<1>20. CASE Check(c)
  BY <1>20 DEF Check, Fail, Advance, Stop, callVars, ticketVars
<1>21. CASE EnterScope(c)
  BY <1>21 DEF EnterScope, callVars, ticketVars
<1>22. CASE SetConfig(c)
  BY <1>22 DEF SetConfig, callVars, ticketVars
<1>23. CASE LeaveScope(c)
  BY <1>23 DEF LeaveScope, callVars, ticketVars
<1>24. CASE CallRpc(c)
  BY <1>24 DEF CallRpc, callVars, ticketVars
<1>25. CASE Finish(c)
  BY <1>25 DEF Finish, Cleanup, callVars, ticketVars
<1> QED
  BY <1>1, <1>2, <1>3, <1>4, <1>5, <1>6, <1>7, <1>8, <1>9, <1>10, <1>11, <1>12,
      <1>13, <1>14, <1>15, <1>16, <1>17, <1>18, <1>19, <1>20, <1>21, <1>22, <1>23,
      <1>24, <1>25 DEF Step

\* a call that is not disturbed finds its own function or urllib3's
LEMMA OwnStep ==
  ASSUME TypeOK, PlaceFits, ConnInv, OwnInv, NEW c \in Calls, Step(c)
  PROVE  OwnInv'
<1> USE DEF TypeOK, PlaceFits, ConnInv, OwnInv, Own, Running, Patching
<1>1. CASE Start(c)
  BY <1>1, ProcessAssumption DEF Start, FirstStep, callVars, ghosts
<1>2. CASE Connect(c)
  BY <1>2 DEF Connect, Disturbed, callVars, ghosts
<1>3. CASE DialOriginal(c)
  BY <1>3 DEF DialOriginal, Disturbed, callVars, ghosts
<1>4. CASE Recursion(c)
  BY <1>4 DEF Recursion, AfterRequest, AfterFetch, AfterGet, AfterWebRequests,
      Disturbed, callVars, ghosts
<1>5. CASE Answer(c)
  BY <1>5 DEF Answer, AfterRequest, AfterFetch, AfterGet, AfterWebRequests,
      Disturbed, callVars, ghosts
<1>6. CASE SaveOriginal(c)
  BY <1>6 DEF SaveOriginal, Disturbed, callVars
<1>7. CASE Patch(c)
  BY <1>7 DEF Patch, Disturbed, callVars
<1>8. CASE Restore(c)
  BY <1>8 DEF Restore, callVars, ghosts
<1>9. CASE KeepFamily(c)
  BY <1>9 DEF KeepFamily, callVars, ghosts
<1>10. CASE NarrowFamily(c)
  BY <1>10 DEF NarrowFamily, callVars, ghosts
<1>11. CASE WidenFamily(c)
  BY <1>11 DEF WidenFamily, callVars, ghosts
<1>12. CASE Prepare(c)
  BY <1>12 DEF Prepare, WithKeytab, WithPassword, PrepareCache, Fail, Stop,
      callVars, ghosts
<1>13. CASE PreparePython(c)
  BY <1>13 DEF PreparePython, WithKeytab, PrepareCache, Fail, Advance, Stop,
      callVars, ghosts
<1>14. CASE AcquireInProcess(c)
  BY <1>14 DEF AcquireInProcess, callVars, ghosts
<1>15. CASE Kinit(c)
  BY <1>15 DEF Kinit, Fail, Advance, Stop, callVars, ghosts
<1>16. CASE KinitPassword(c)
  BY <1>16 DEF KinitPassword, Advance, callVars, ghosts
<1>17. CASE KinitPython(c)
  BY <1>17 DEF KinitPython, Fail, Advance, Stop, callVars, ghosts
<1>18. CASE LoadCredentials(c)
  BY <1>18 DEF LoadCredentials, Fail, Advance, Stop, callVars, ghosts
<1>19. CASE LoadTicket(c)
  BY <1>19 DEF LoadTicket, Fail, Advance, Stop, callVars, ghosts
<1>20. CASE Check(c)
  BY <1>20 DEF Check, Fail, Advance, Stop, callVars, ghosts
<1>21. CASE EnterScope(c)
  BY <1>21 DEF EnterScope, callVars, ghosts
<1>22. CASE SetConfig(c)
  BY <1>22 DEF SetConfig, callVars, ghosts
<1>23. CASE LeaveScope(c)
  BY <1>23 DEF LeaveScope, callVars, ghosts
<1>24. CASE CallRpc(c)
  BY <1>24 DEF CallRpc, callVars, ghosts
<1>25. CASE Finish(c)
  BY <1>25 DEF Finish, callVars, ghosts
<1> QED
  BY <1>1, <1>2, <1>3, <1>4, <1>5, <1>6, <1>7, <1>8, <1>9, <1>10, <1>11, <1>12,
      <1>13, <1>14, <1>15, <1>16, <1>17, <1>18, <1>19, <1>20, <1>21, <1>22, <1>23,
      <1>24, <1>25 DEF Step

LEMMA RestartStep ==
  ASSUME Inv, Restart
  PROVE  Inv'
<1> USE DEF Inv, Restart
<1>1. TypeOK'
  BY DEF TypeOK, Running, callVars, ticketVars
<1>2. \A c \in Calls : ~Running(c)' /\ pc'[c] \in {"idle", "done"}
  BY DEF TypeOK, Running
<1>3. PlaceFits'
  BY <1>2 DEF TypeOK, PlaceFits, Scoped, Running, callVars, ticketVars
<1>4. ConnInv'
  BY <1>2 DEF ConnInv, Patching
<1>5. ScopeInv'
  BY <1>2 DEF ScopeInv, Scoped, Running
<1>6. TicketInv'
  BY <1>2 DEF TypeOK, TicketInv, Running, callVars, ticketVars
<1>7. OwnInv'
  BY <1>2 DEF TypeOK, OwnInv, Own, callVars
<1> QED
  BY <1>1, <1>3, <1>4, <1>5, <1>6, <1>7

LEMMA NextInv == Inv /\ [Next]_vars => Inv'
<1> SUFFICES ASSUME Inv, [Next]_vars PROVE Inv'
  OBVIOUS
<1>1. CASE Restart
  BY <1>1, RestartStep
<1>2. CASE \E c \in Calls : Step(c)
  <2> PICK c \in Calls : Step(c)
    BY <1>2
  <2> QED
    BY TypeStep, PlaceStep, ConnStep, ScopeStep, TicketStep, OwnStep DEF Inv
<1>3. CASE UNCHANGED vars
  BY <1>3 DEF Inv, TypeOK, PlaceFits, ConnInv, ScopeInv, TicketInv, OwnInv, Own,
              Patching, Scoped, Running, vars, shared, callVars, ticketVars, ghosts
<1> QED
  BY <1>1, <1>2, <1>3 DEF Next

-----------------------------------------------------------------------------
LEMMA InvHolds == Spec => []Inv
<1>1. Init => Inv
  BY InitInv
<1>2. Inv /\ [Next]_vars => Inv'
  BY NextInv
<1> QED
  BY <1>1, <1>2, PTL DEF Spec

\* What calls of one process change for a while has its first value again when
\* none of them is inside, and a ticket file on disk is accounted for, unless two
\* of a kind overlapped (url_get_dns_pinned, allowed_gai_family,
\* _kerberos_runtime_environment, _kerberos_cleanup_temporary_ccache).
THEOREM ProcessInvariant == Spec => []ProcessInv
<1>1. Inv => PutBack
  BY DEF Inv, PutBack, ConnInv, ScopeInv
<1>2. Inv => ScopeHolds
  BY DEF Inv, ScopeHolds, ScopeInv
<1>3. Inv => TicketsAccounted
  BY DEF Inv, TicketsAccounted, TicketInv
<1>4. Inv => ProcessInv
  BY <1>1, <1>2, <1>3 DEF Inv, ProcessInv
<1> QED
  BY <1>4, InvHolds, PTL

\* A call that no download of another one disturbed was answered by an address
\* of its own (url_get_dns_pinned).
THEOREM PeersOwn == Spec => []OwnPeer
<1>1. Inv => OwnPeer
  BY DEF Inv, OwnPeer, OwnInv
<1> QED
  BY <1>1, InvHolds, PTL

\* When two downloads crossed such that neither variable holds urllib3's own
\* function, every connection ends in a recursion until the process is started
\* anew (network.py, url_get_dns_pinned).
THEOREM NeverRestored == Spec => PatchedForEver
<1>1. ASSUME Next, create # System, orig # System, ~Restart
      PROVE  create' # System /\ orig' # System
  <2> PICK c \in Calls : Step(c)
    BY <1>1 DEF Next
  <2>1. /\ create' \in {create, c, orig}
        /\ orig' \in {orig, create}
    BY DEF Step, Start, Connect, DialOriginal, Recursion, Answer, SaveOriginal, Patch,
           Restore, KeepFamily, NarrowFamily, WidenFamily, Prepare, PreparePython,
           AcquireInProcess, Kinit, KinitPassword, KinitPython, LoadCredentials,
           LoadTicket, Check, EnterScope, SetConfig, LeaveScope, CallRpc, Finish,
           shared, conn
  <2> QED
    BY <1>1, <2>1, ProcessAssumption
<1>2. [Next]_vars => [create # System /\ orig # System /\ ~Restart
                        => create' # System /\ orig' # System]_vars
  BY <1>1
<1> QED
  BY <1>2, PTL DEF Spec, PatchedForEver
=============================================================================
