---------------------------- MODULE ProcessState ----------------------------
(***************************************************************************)
(* What the threads of one server process share besides the database: the  *)
(* function urllib3 opens every connection with, the address family it     *)
(* asks for, and the environment variable KRB5_CONFIG.  Four operations    *)
(* change one of them for a while and put it back, without a lock:         *)
(*   "fetch"    the download of a http-01 challenge (url_get_dns_pinned)   *)
(*   "get"      any other download, here with url_get                      *)
(*   "certsrv"  an enrollment with the Microsoft web enrollment handler    *)
(*   "icpr"     an enrollment with the Microsoft RPC handler               *)
(* Each call runs in a thread of its own; the last two leave Kerberos      *)
(* tickets in temporary files.  A call stands for the addresses it pins.   *)
(***************************************************************************)
EXTENDS Integers, FiniteSets

CONSTANTS
  Calls,          \* calls a process makes, each of a kind chosen when it starts
  Kinds,          \* operations that take part
  MaxAddresses,   \* bound: addresses a host name resolves to
  System,         \* urllib3's own create_connection
  Configs         \* Kerberos settings: keytab (a principal with a keytab, else
                  \* user and password), shared (krb5_cache is set, no temporary
                  \* file is needed), krb5 (krb5_config is "unset", names a
                  \* "file" or a "missing" one)

ASSUME ProcessAssumption ==
  /\ System \notin Calls
  /\ Kinds \subseteq {"fetch", "get", "certsrv", "icpr"}
  /\ MaxAddresses \in Nat \ {0}
  /\ Configs \subseteq [keytab : BOOLEAN, shared : BOOLEAN,
                         krb5 : {"unset", "file", "missing"}]

VARIABLES
  config,   \* the Kerberos settings of the process, one of Configs
  create,   \* connection.create_connection: System, or pinned for a call
  orig,     \* connection._orig_create_connection
  gai,      \* urllib3_cn.allowed_gai_family: "any", "v4"
  env,      \* KRB5_CONFIG in os.environ: "inherited" or "config"
  kind,     \* operation of each call
  pc,       \* next step of each call
  again,    \* calls of url_get in their second attempt
  left,     \* addresses a fetch has not tried
  saved,    \* value of gai or env a call keeps to put it back
  addr,     \* whom the connection being opened goes to
  peer,     \* who answered last: System stands for the address of the name
  result,   \* of the call: "none", "ok", "error", "raised", "lost"
  ccache,   \* ticket file a call works with: "none", "temporary", "given"
  tickets,  \* calls whose temporary ticket file exists
  stuck,    \* history: calls whose ticket file could not be removed
  crossed,  \* history: two fetches were between patch and restore at once
  mixed,    \* history: the same for the address family or the environment
  shaken    \* history: calls that ran while another one's fetch did

shared   == <<create, orig, gai, env>>
conn     == <<create, orig>>
ticketVars == <<ccache, tickets, stuck>>
ghosts   == <<crossed, mixed, shaken>>
callVars == <<config, kind, again>>
vars == <<shared, callVars, pc, left, saved, addr, peer, result, ticketVars,
          ghosts>>

Init ==
  /\ config \in Configs
  /\ create = System /\ orig = System /\ gai = "any" /\ env = "inherited"
  /\ kind = [c \in Calls |-> "none"]
  /\ pc = [c \in Calls |-> "idle"]
  /\ again = {}
  /\ left = [c \in Calls |-> 0]
  /\ saved = [c \in Calls |-> "none"]
  /\ addr = [c \in Calls |-> System]
  /\ peer = [c \in Calls |-> System]
  /\ result = [c \in Calls |-> "none"]
  /\ ccache = [c \in Calls |-> "none"]
  /\ tickets = {} /\ stuck = {}
  /\ crossed = FALSE /\ mixed = FALSE /\ shaken = {}

Goto(c, label) == pc' = [pc EXCEPT ![c] = label]
Running(c) == pc[c] \notin {"idle", "done"}
\* between the save of the shared function and its restore
Patching(c) == /\ kind[c] = "fetch"
               /\ pc[c] \in {"patch", "connect", "dial", "answer", "restore"}
\* between the save of the address family or the environment and its restore
Scoped(c) == \/ kind[c] = "get" /\ c \in again /\ Running(c)
             \/ kind[c] = "certsrv" /\ pc[c] \in {"set", "connect", "dial",
                                                  "answer", "unset"}
\* the call starts to patch, or to open a connection: who is in its way
Disturbed(c) == IF crossed \/ \E d \in Calls \ {c} : Patching(d)
                  THEN {c} \cup {d \in Calls : Running(d)} ELSE {}

End(c, r) == /\ Goto(c, "done") /\ result' = [result EXCEPT ![c] = r]
Note(c)   == shaken' = shaken \cup Disturbed(c)

(*------------------------- opening a connection -------------------------*)
\* urllib3 calls whatever create_connection holds at that moment
Connect(c) ==
  /\ pc[c] = "connect"
  /\ addr' = [addr EXCEPT ![c] = create]
  /\ Goto(c, IF create = System THEN "answer" ELSE "dial")
  /\ Note(c)
  /\ UNCHANGED <<shared, callVars, left, saved, peer, result, ticketVars,
                 crossed, mixed>>

\* a pinned function hands its own address to what _orig_create_connection
\* holds at that moment; a pinned function there does the same again
DialOriginal(c) ==
  /\ pc[c] = "dial"
  /\ IF orig = System THEN Goto(c, "answer") /\ addr' = addr
                      ELSE pc' = pc /\ addr' = [addr EXCEPT ![c] = orig]
  /\ Note(c)
  /\ UNCHANGED <<shared, callVars, left, saved, peer, result, ticketVars,
                 crossed, mixed>>

\* what a failed or an answered request leads to: finally, the next address
AfterFetch(c, ok) ==
  /\ kind[c] = "fetch"
  /\ Goto(c, "restore")
  /\ result' = [result EXCEPT ![c] = IF ok THEN "ok" ELSE "error"]

\* url_get_with_default_dns: a second attempt with IPv4
AfterGet(c, ok) ==
  /\ kind[c] = "get"
  /\ result' = [result EXCEPT ![c] = IF ok THEN "ok" ELSE "error"]
  /\ Goto(c, IF c \in again THEN "widen" ELSE IF ok THEN "done" ELSE "keep")

\* check_credentials raises unless the answer is 401; what get_chain and
\* get_cert raise is caught, so that an error follows
AfterWebRequests(c, ok) ==
  /\ kind[c] = "certsrv"
  /\ Goto(c, "unset")
  /\ \E r \in IF ok THEN {"ok", "error"} ELSE {"error", "raised"} :
       result' = [result EXCEPT ![c] = r]

AfterRequest(c, ok) ==
  AfterFetch(c, ok) \/ AfterGet(c, ok) \/ AfterWebRequests(c, ok)

Recursion(c) ==
  /\ pc[c] = "dial"
  /\ orig # System
  /\ AfterRequest(c, FALSE)
  /\ Note(c)
  /\ UNCHANGED <<shared, callVars, left, saved, addr, peer, ticketVars,
                 crossed, mixed>>

Answer(c) ==
  /\ pc[c] = "answer"
  /\ \E ok \in BOOLEAN :
       /\ AfterRequest(c, ok)
       /\ peer' = IF ok THEN [peer EXCEPT ![c] = addr[c]] ELSE peer
  /\ Note(c)
  /\ UNCHANGED <<shared, callVars, left, saved, addr, ticketVars,
                 crossed, mixed>>

(*------------------------- downloads -------------------------------------*)
SaveOriginal(c) ==
  /\ kind[c] = "fetch" /\ pc[c] = "save"
  /\ orig' = create
  /\ Goto(c, "patch")
  /\ crossed' = (crossed \/ \E d \in Calls \ {c} : Patching(d))
  /\ Note(c)
  /\ UNCHANGED <<create, gai, env, callVars, left, saved, addr, peer, result,
                 ticketVars, mixed>>

Patch(c) ==
  /\ pc[c] = "patch"
  /\ create' = c
  /\ left' = [left EXCEPT ![c] = @ - 1]
  /\ Goto(c, "connect")
  /\ Note(c)
  /\ UNCHANGED <<orig, gai, env, callVars, saved, addr, peer, result,
                 ticketVars, crossed, mixed>>

\* variant with a bug: the function is put back after a success only
RestoreAfterSuccess(c) ==
  /\ pc[c] = "restore"
  /\ create' = IF result[c] = "ok" THEN orig ELSE create
  /\ Goto(c, IF result[c] = "ok" \/ left[c] = 0 THEN "done" ELSE "save")
  /\ UNCHANGED <<orig, gai, env, callVars, left, saved, addr, peer, result,
                 ticketVars, ghosts>>

\* finally, for each address; the next one follows an error
Restore(c) ==
  /\ pc[c] = "restore"
  /\ create' = orig
  /\ Goto(c, IF result[c] = "ok" \/ left[c] = 0 THEN "done" ELSE "save")
  /\ UNCHANGED <<orig, gai, env, callVars, left, saved, addr, peer, result,
                 ticketVars, ghosts>>

\* url_get tries again with IPv4 addresses only
KeepFamily(c) ==
  /\ pc[c] = "keep"
  /\ saved' = [saved EXCEPT ![c] = gai]
  /\ Goto(c, "narrow")
  /\ again' = again \cup {c}
  /\ mixed' = (mixed \/ \E d \in Calls \ {c} : Scoped(d) /\ kind[d] = "get")
  /\ UNCHANGED <<shared, config, kind, left, addr, peer, result, ticketVars,
                 crossed, shaken>>

NarrowFamily(c) ==
  /\ pc[c] = "narrow"
  /\ gai' = "v4"
  /\ Goto(c, "connect")
  /\ UNCHANGED <<conn, env, callVars, left, saved, addr, peer, result,
                 ticketVars, ghosts>>

WidenFamily(c) ==
  /\ pc[c] = "widen"
  /\ gai' = saved[c]
  /\ Goto(c, "done")
  /\ UNCHANGED <<conn, env, callVars, left, saved, addr, peer, result,
                 ticketVars, ghosts>>

(*------------------------- Microsoft enrollments -------------------------*)
\* a new file unless one is configured
PrepareCache(c, fine) ==
  /\ ccache' = [ccache EXCEPT
                   ![c] = IF config.shared THEN "given" ELSE "temporary"]
  /\ tickets' = IF config.shared THEN tickets ELSE tickets \cup {c}
  /\ stuck' = stuck
  /\ Goto(c, fine)

Fail(c, label) == Goto(c, label) /\ result' = [result EXCEPT ![c] = "error"]

Advance(c, label) == Goto(c, label) /\ UNCHANGED <<result, ticketVars>>
Stop(c)           == Fail(c, "clean") /\ UNCHANGED ticketVars

\* with a keytab: its file or the module may be missing, the principal is
\* built after the ticket file
WithKeytab(c) ==
  \/ PrepareCache(c, "acquire") /\ result' = result
  \/ PrepareCache(c, "clean") /\ result' = [result EXCEPT ![c] = "error"]
  \/ Stop(c)

\* with user and password
WithPassword(c) ==
  IF config.krb5 = "missing" THEN Stop(c)
                             ELSE PrepareCache(c, "kinit") /\ result' = result

Prepare(c) ==
  /\ kind[c] = "certsrv" /\ pc[c] = "prepare"
  /\ IF config.keytab THEN WithKeytab(c) ELSE WithPassword(c)
  /\ UNCHANGED <<shared, callVars, left, saved, addr, peer, ghosts>>

\* the RPC handler needs no ticket of its own without a keytab
PreparePython(c) ==
  /\ kind[c] = "icpr" /\ pc[c] = "prepare"
  /\ IF config.keytab THEN WithKeytab(c) ELSE Advance(c, "rpc")
  /\ UNCHANGED <<shared, callVars, left, saved, addr, peer, ghosts>>

\* gssapi.raw, then gssapi.Credentials; kinit follows when both fail
AcquireInProcess(c) ==
  /\ pc[c] = "acquire"
  /\ \E label \in {"creds", "kinit"} : Goto(c, label)
  /\ UNCHANGED <<shared, callVars, left, saved, addr, peer, result, ticketVars,
                 ghosts>>

\* unlink may fail; the handler forgets the file all the same
Cleanup(c) ==
  /\ ccache' = [ccache EXCEPT ![c] = IF @ = "temporary" THEN "none" ELSE @]
  /\ IF ccache[c] # "temporary" THEN UNCHANGED <<tickets, stuck>>
       ELSE \/ tickets' = tickets \ {c} /\ stuck' = stuck
            \/ tickets' = tickets /\ stuck' = stuck \cup {c}

KinitEnvironment == config.krb5 # "missing"

Kinit(c) ==
  /\ kind[c] = "certsrv" /\ pc[c] = "kinit" /\ config.keytab
  /\ \/ KinitEnvironment /\ Advance(c, "creds")
     \/ Stop(c)
  /\ UNCHANGED <<shared, callVars, left, saved, addr, peer, ghosts>>

\* without a ticket the enrollment uses the password itself
KinitPassword(c) ==
  /\ kind[c] = "certsrv" /\ pc[c] = "kinit" /\ ~config.keytab
  /\ \/ KinitEnvironment /\ Advance(c, "creds")
     \/ Cleanup(c) /\ Goto(c, "creds") /\ result' = result
  /\ UNCHANGED <<shared, callVars, left, saved, addr, peer, ghosts>>

\* a missing configuration file is only logged
KinitPython(c) ==
  /\ kind[c] = "icpr" /\ pc[c] = "kinit"
  /\ Advance(c, "creds") \/ Stop(c)
  /\ UNCHANGED <<shared, callVars, left, saved, addr, peer, ghosts>>

\* GSSAPI credentials from the file, none without one
LoadCredentials(c) ==
  /\ kind[c] = "certsrv" /\ pc[c] = "creds"
  /\ \/ Advance(c, "checks")
     \/ ccache[c] # "none" /\ Stop(c)
  /\ UNCHANGED <<shared, callVars, left, saved, addr, peer, ghosts>>

\* the ticket granting ticket from the file
LoadTicket(c) ==
  /\ kind[c] = "icpr" /\ pc[c] = "creds"
  /\ Advance(c, "rpc") \/ Stop(c)
  /\ UNCHANGED <<shared, callVars, left, saved, addr, peer, ghosts>>

\* EAB profile, header_info and allowed templates
Check(c) ==
  /\ pc[c] = "checks"
  /\ \/ Advance(c, IF kind[c] = "certsrv" THEN "enter" ELSE "prepare")
     \/ Stop(c)
  /\ UNCHANGED <<shared, callVars, left, saved, addr, peer, ghosts>>

\* previous = os.environ.get("KRB5_CONFIG")
EnterScope(c) ==
  /\ pc[c] = "enter"
  /\ saved' = [saved EXCEPT ![c] = env]
  /\ Goto(c, "set")
  /\ mixed' = (mixed \/ \E d \in Calls \ {c} : Scoped(d) /\ kind[d] = "certsrv")
  /\ UNCHANGED <<shared, callVars, left, addr, peer, result, ticketVars,
                 crossed, shaken>>

SetConfig(c) ==
  /\ pc[c] = "set"
  /\ env' = IF config.krb5 = "file" THEN "config" ELSE env
  /\ Goto(c, "connect")
  /\ UNCHANGED <<conn, gai, callVars, left, saved, addr, peer, result,
                 ticketVars, ghosts>>

\* variant with a bug: the variable is put back after an answer only
LeaveScopeAfterAnswer(c) ==
  /\ pc[c] = "unset"
  /\ env' = IF result[c] = "raised" THEN env ELSE saved[c]
  /\ Goto(c, IF result[c] = "raised" THEN "done" ELSE "clean")
  /\ UNCHANGED <<conn, gai, callVars, left, saved, addr, peer, result,
                 ticketVars, ghosts>>

\* an exception passes the cleanup by
LeaveScope(c) ==
  /\ pc[c] = "unset"
  /\ env' = saved[c]
  /\ Goto(c, IF result[c] = "raised" THEN "done" ELSE "clean")
  /\ UNCHANGED <<conn, gai, callVars, left, saved, addr, peer, result,
                 ticketVars, ghosts>>

\* no urllib3; whatever goes wrong is caught
CallRpc(c) ==
  /\ pc[c] = "rpc"
  /\ \E r \in {"ok", "error"} : result' = [result EXCEPT ![c] = r]
  /\ Goto(c, "clean")
  /\ UNCHANGED <<shared, callVars, left, saved, addr, peer, ticketVars, ghosts>>

Finish(c) ==
  /\ pc[c] = "clean"
  /\ Cleanup(c)
  /\ Goto(c, "done")
  /\ UNCHANGED <<shared, callVars, left, saved, addr, peer, result, ghosts>>

(*------------------------- calls and the process -------------------------*)
FirstStep == [k \in Kinds |-> CASE k = "fetch"   -> "save"
                                [] k = "get"     -> "connect"
                                [] k = "certsrv" -> "prepare"
                                [] k = "icpr"    -> "checks"]

\* what filter_http01_target_ips leaves of the answer of the resolver; a
\* download without an address is refused before it starts
Addresses(k) == IF k = "fetch" THEN 1..MaxAddresses ELSE {1}

Start(c) ==
  /\ pc[c] = "idle"
  /\ \E k \in Kinds :
       /\ kind' = [kind EXCEPT ![c] = k]
       /\ Goto(c, FirstStep[k])
       /\ \E n \in Addresses(k) : left' = [left EXCEPT ![c] = n]
  /\ UNCHANGED <<shared, config, again, saved, addr, peer, result, ticketVars,
                 ghosts>>

\* the module state is gone, the files stay
Restart ==
  /\ \E c \in Calls : Running(c)
  /\ create' = System /\ orig' = System /\ gai' = "any" /\ env' = "inherited"
  /\ pc' = [c \in Calls |-> IF Running(c) THEN "done" ELSE pc[c]]
  /\ result' = [c \in Calls |-> IF Running(c) THEN "lost" ELSE result[c]]
  /\ crossed' = FALSE /\ mixed' = FALSE
  /\ UNCHANGED <<callVars, left, saved, addr, peer, ticketVars, shaken>>

Step(c) ==
  \/ Start(c)
  \/ Connect(c) \/ DialOriginal(c) \/ Recursion(c) \/ Answer(c)
  \/ SaveOriginal(c) \/ Patch(c) \/ Restore(c)
  \/ KeepFamily(c) \/ NarrowFamily(c) \/ WidenFamily(c)
  \/ Prepare(c) \/ PreparePython(c) \/ AcquireInProcess(c)
  \/ Kinit(c) \/ KinitPassword(c) \/ KinitPython(c)
  \/ LoadCredentials(c) \/ LoadTicket(c)
  \/ Check(c) \/ EnterScope(c) \/ SetConfig(c) \/ LeaveScope(c)
  \/ CallRpc(c) \/ Finish(c)

Next == Restart \/ \E c \in Calls : Step(c)

Spec == Init /\ [][Next]_vars

(*------------------------- properties ------------------------------------*)
Labels == {"idle", "done", "save", "patch", "restore", "connect", "dial",
           "answer", "keep", "narrow",
           "widen", "prepare", "acquire", "kinit", "creds", "checks", "enter",
           "set", "unset", "rpc", "clean"}

TypeOK ==
  /\ config \in Configs
  /\ create \in Calls \cup {System} /\ orig \in Calls \cup {System}
  /\ gai \in {"any", "v4"} /\ env \in {"inherited", "config"}
  /\ kind \in [Calls -> Kinds \cup {"none"}]
  /\ pc \in [Calls -> Labels]
  /\ again \subseteq Calls /\ left \in [Calls -> Int]
  /\ saved \in [Calls -> {"none", "any", "v4", "inherited", "config"}]
  /\ addr \in [Calls -> Calls \cup {System}]
  /\ peer \in [Calls -> Calls \cup {System}]
  /\ result \in [Calls -> {"none", "ok", "error", "raised", "lost"}]
  /\ ccache \in [Calls -> {"none", "temporary", "given"}]
  /\ tickets \subseteq Calls /\ stuck \subseteq Calls
  /\ crossed \in BOOLEAN /\ mixed \in BOOLEAN /\ shaken \subseteq Calls

\* The finally blocks: unless two calls of a kind were inside at once, what a
\* call changed has its first value again when no call is inside, whichever
\* way the calls failed.
PutBack ==
  /\ ~crossed /\ (\A c \in Calls : ~Patching(c)) => create = System
  /\ ~mixed /\ (\A c \in Calls : ~Scoped(c)) => gai = "any" /\ env = "inherited"

\* KRB5_CONFIG names the configured file while an enrollment negotiates,
\* unless two enrollments were inside at once.
ScopeHolds ==
  \A c \in Calls :
    kind[c] = "certsrv" /\ pc[c] \in {"connect", "dial", "answer"}
      /\ config.krb5 = "file" /\ ~mixed => env = "config"

\* _kerberos_cleanup_temporary_ccache: a ticket file on disk belongs to a call
\* that still runs, or that ended with an exception or with the process, or
\* whose file could not be removed.
TicketsAccounted ==
  \A c \in tickets :
    Running(c) \/ c \in stuck \/ result[c] \in {"raised", "lost"}

\* The shared state of the process, as the three definitions above say.
ProcessInv == TypeOK /\ PutBack /\ ScopeHolds /\ TicketsAccounted

\* url_get_dns_pinned: a download is answered by an address of its own, and
\* any other call by the address of the name it asked for, unless the call ran
\* at the same time as the download of another one or after two crossed.
Own(c) == IF kind[c] = "fetch" THEN c ELSE System
OwnPeer ==
  \A c \in Calls :
    result[c] = "ok" /\ kind[c] # "icpr" => peer[c] = Own(c) \/ c \in shaken

\* url_get_dns_pinned: once two downloads have crossed such that neither
\* variable holds urllib3's function, no later download brings it back: each
\* connection of the process ends in a recursion until it is started anew.
PatchedForEver ==
  [][create # System /\ orig # System /\ ~Restart
       => create' # System /\ orig' # System]_vars
=============================================================================
