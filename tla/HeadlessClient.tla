---------------------------- MODULE HeadlessClient ----------------------------
(***************************************************************************)
(* The parts composed: the lifecycle of ClientLifecycle, whose script      *)
(* loads are opened up here, the packet hooks, and the login connections,  *)
(* each of which keeps to LoginProtocol.                                   *)
(*                                                                         *)
(* A script's main() on the tick thread registers its callback and logs    *)
(* in; the io thread carries the logins on and reports each challenge to   *)
(* the callbacks, which may log in again.  A load has one script here, and *)
(* a callback is named by the number of the load that registered it.       *)
(***************************************************************************)
EXTENDS ClientLifecycle

CONSTANT MaxLogins \* connections that are made (bound)

ASSUME MaxLoginsAssumption == MaxLogins \in Nat

VARIABLES
    loads,      \* how often the script directory has been loaded
    script,     \* the load under way: due, in main(), without one, or over
    hooks,      \* _hooks[HOOK_ONLOGIN_CHALLENGE], in order
    conns,      \* the connections made, in order
    login,      \* per thread, how far its SendLoginChallenge has come
    list,       \* ScriptEngine::_novusConnections
    report      \* the io thread's CallHook

clientVars == <<vars, loads, script, hooks, conns, login, list, report>>

Threads == {"tick", "io"}
NotLoggingIn == [at |-> "none", conn |-> 0, seen |-> <<>>]

\* The connection that is reported, the callbacks CallHook has left, whether
\* one of them is running, and whether the server has refused.
NoReport == [conn |-> 0, left |-> <<>>, running |-> FALSE, refused |-> FALSE]
Reporting == report.conn # 0

ClientInit ==
    /\ Init
    /\ loads = 0 /\ script = "due"
    /\ hooks = <<>> /\ conns = <<>> /\ list = <<>>
    /\ login = [t \in Threads |-> NotLoggingIn]
    /\ report = NoReport

-----------------------------------------------------------------------------
\* SendLoginChallenge, on either thread

InScript(t) == /\ Running /\ login[t].at = "none"
               /\ IF t = "tick" THEN script = "main" ELSE report.running

\* new NovusConnection.  The last four fields are history: who has heard of
\* its challenge, the newest load when it was reported (0 while scripts are being
\* loaded), whether the hooks changed during the report, and whether two threads
\* were in push_back at once.
BeginLogin(t) ==
    /\ InScript(t) /\ Len(conns) < MaxLogins
    /\ conns' = Append(conns, [phase |-> "offline", proved |-> FALSE,
                               heard |-> {}, newest |-> 0,
                               disturbed |-> FALSE, overlapped |-> FALSE])
    /\ login' = [login EXCEPT ![t] = [@ EXCEPT !.at = "start", !.conn = Len(conns) + 1]]
    /\ UNCHANGED <<vars, loads, script, hooks, list, report>>

\* Start() connects or fails, which SendLoginChallenge does not look at.
StartReturns(t) ==
    /\ Running /\ login[t].at = "start"
    /\ \E to \in {"offline", "challenge"} : conns' = [conns EXCEPT ![login[t].conn].phase = to]
    /\ login' = [login EXCEPT ![t].at = "register"]
    /\ UNCHANGED <<vars, loads, script, hooks, list, report>>

\* The first half of push_back in RegisterNovusConnection reads the vector.
BeginRegister(t) ==
    /\ Running /\ login[t].at = "register"
    /\ login' = [login EXCEPT ![t].at = "push", ![t].seen = list]
    /\ LET others == {u \in Threads \ {t} : login[u].at = "push"} IN
       conns' = [c \in DOMAIN conns |->
                   [conns[c] EXCEPT !.overlapped = @ \/ /\ others # {}
                                                        /\ \E u \in Threads : login[u].conn = c]]
    /\ UNCHANGED <<vars, loads, script, hooks, list, report>>

\* Fault: the vector is assigned to instead of grown.
EndRegisterForgets(t) ==
    /\ Running /\ login[t].at = "push"
    /\ list' = <<login[t].conn>>
    /\ login' = [login EXCEPT ![t] = NotLoggingIn]
    /\ UNCHANGED <<vars, loads, script, hooks, conns, report>>

\* The second half writes it; a push_back of the other thread meanwhile is lost.
EndRegister(t) ==
    /\ Running /\ login[t].at = "push"
    /\ list' = Append(login[t].seen, login[t].conn)
    /\ login' = [login EXCEPT ![t] = NotLoggingIn]
    /\ UNCHANGED <<vars, loads, script, hooks, conns, report>>

SendLoginChallenge(t) == BeginLogin(t) \/ StartReturns(t) \/ BeginRegister(t) \/ EndRegister(t)

-----------------------------------------------------------------------------
\* The tick thread, where ClientLifecycle has LoadScripts and EndReload.

\* The hooks change; a report that is under way may miss it, or run into it.
ChangeHooks(new) ==
    /\ hooks' = new
    /\ conns' = IF Reporting THEN [conns EXCEPT ![report.conn].disturbed = TRUE] ELSE conns

\* ClearHooks, which finds nothing before the first load, and LoadScript up to
\* main(), if the script has one.
LoadScript(cleared) ==
    /\ Running /\ tick \in {"loading", "reloading"} /\ script = "due"
    /\ ChangeHooks(cleared)
    /\ loads' = loads + 1
    /\ script' \in {"main", "none"}
    /\ UNCHANGED <<vars, login, list, report>>

\* Fault: ReloadScripts does not clear the hooks.
LoadsWithoutClearing == LoadScript(hooks)

LoadsScript == LoadScript(<<>>)

RegisterPacketCallback ==
    /\ InScript("tick")
    /\ \A i \in DOMAIN hooks : hooks[i] # loads
    /\ ChangeHooks(Append(hooks, loads))
    /\ UNCHANGED <<vars, loads, script, login, list, report>>

\* Fault: the directory iterator is not advanced.
LoadOverRepeats ==
    /\ script = "none" \/ InScript("tick")
    /\ script' = "due"
    /\ UNCHANGED <<vars, loads, hooks, conns, login, list, report>>

\* main() has returned: the load is over.
LoadOver ==
    /\ script = "none" \/ InScript("tick")
    /\ LoadScripts \/ EndReload
    /\ script' = "over"
    /\ UNCHANGED <<loads, hooks, conns, login, list, report>>

\* Fault: a reload clears the hooks and loads nothing, without an end.
ReloadLoadsNothing == BeginReload /\ UNCHANGED <<loads, script, hooks, conns, login, list, report>>

ReloadDue ==
    /\ BeginReload /\ script' = "due"
    /\ UNCHANGED <<loads, hooks, conns, login, list, report>>

ScriptTick == LoadsScript \/ RegisterPacketCallback \/ LoadOver \/ ReloadDue
              \/ SendLoginChallenge("tick")

PlainTick == /\ ServePing \/ ServeExit \/ Sleep \/ NextTick \/ ConfirmExit
             /\ UNCHANGED <<loads, script, hooks, conns, login, list, report>>

-----------------------------------------------------------------------------
\* The io thread

\* Fault: a challenge is taken in any status.
ChallengedAgain(c) == conns[c].phase \in {"challenge", "proof", "authed"}

\* The status check of HandleRead.
AwaitsChallenge(c) == conns[c].phase = "challenge"

\* The server answers connection c: HandleRead enters CallHook, on a challenge
\* after the status has changed and on a refusal before it closes.
BeginReport(c) ==
    /\ Running /\ ~Reporting /\ AwaitsChallenge(c)
    /\ \E refused \in BOOLEAN :
          /\ report' = [conn |-> c, left |-> hooks, running |-> FALSE, refused |-> refused]
          /\ conns' = [conns EXCEPT ![c].phase = IF refused THEN @ ELSE "proof",
                                    ![c].newest = IF tick \in {"loading", "reloading"} THEN 0 ELSE loads]
    /\ UNCHANGED <<vars, loads, script, hooks, login, list>>

RunCallback ==
    /\ Running /\ Reporting /\ ~report.running /\ report.left # <<>>
    /\ report' = [report EXCEPT !.running = TRUE]
    /\ conns' = [conns EXCEPT ![report.conn].heard = @ \cup {Head(report.left)}]
    /\ UNCHANGED <<vars, loads, script, hooks, login, list>>

\* Fault: the loop over the hooks is not advanced.
CallbackRepeats ==
    /\ InScript("io")
    /\ report' = [report EXCEPT !.running = FALSE]
    /\ UNCHANGED <<vars, loads, script, hooks, conns, login, list>>

CallbackReturns ==
    /\ InScript("io")
    /\ report' = [report EXCEPT !.running = FALSE, !.left = Tail(@)]
    /\ UNCHANGED <<vars, loads, script, hooks, conns, login, list>>

\* CallHook returns; a refused login is closed.
EndReport ==
    /\ Running /\ Reporting /\ report.left = <<>>
    /\ report' = NoReport
    /\ conns' = IF report.refused THEN [conns EXCEPT ![report.conn].phase = "ended"] ELSE conns
    /\ UNCHANGED <<vars, loads, script, hooks, login, list>>

\* The server's proof arrives, or the connection ends, between reports.
Proceed(c) ==
    /\ Running /\ ~Reporting
    /\ \/ /\ conns[c].phase = "proof"
          /\ conns' = [conns EXCEPT ![c].phase = "authed", ![c].proved = TRUE]
       \/ /\ conns[c].phase \in {"challenge", "proof", "authed"}
          /\ conns' = [conns EXCEPT ![c].phase = "ended"]
    /\ UNCHANGED <<vars, loads, script, hooks, login, list, report>>

ScriptIo == RunCallback \/ CallbackReturns \/ EndReport \/ SendLoginChallenge("io")

ServerIo == \E c \in DOMAIN conns : BeginReport(c) \/ Proceed(c)

\* The process ends: exceptionCallback throws on the io thread, the tick thread
\* cannot read the script directory, NC_LOG_FATAL asserts that a connect fails, or
\* two push_backs at once free the same buffer.
ClientThrows ==
    /\ \/ report.running \/ script = "due"
       \/ \E t \in Threads : login[t].at = "start"
       \/ \A t \in Threads : login[t].at = "push"
    /\ ThreadThrows
    /\ UNCHANGED <<loads, script, hooks, conns, login, list, report>>

-----------------------------------------------------------------------------
Outside == /\ Main \/ User \/ ReadAtEnd
           /\ UNCHANGED <<loads, script, hooks, conns, login, list, report>>

ClientNext == Outside \/ PlainTick \/ ScriptTick \/ ScriptIo \/ ServerIo \/ ClientThrows

\* The threads are scheduled, and a connect comes to an end; the server need
\* not answer and the user need not type.
ClientFairness ==
    /\ WF_clientVars(Main /\ Outside) /\ WF_clientVars(ReadAtEnd /\ Outside)
    /\ WF_clientVars(PlainTick \/ ScriptTick) /\ WF_clientVars(ScriptIo)

ClientSpec == ClientInit /\ [][ClientNext]_clientVars /\ ClientFairness
-----------------------------------------------------------------------------
\* Properties

Connections == [phase : {"offline", "challenge", "proof", "authed", "ended"},
                proved : BOOLEAN, heard : SUBSET (1..loads), newest : 0..loads,
                disturbed : BOOLEAN, overlapped : BOOLEAN]

\* The types of the variables that ClientLifecycle does not have.
ClientTypeOK ==
    /\ loads \in 0..MaxLines + 1 /\ script \in {"due", "main", "none", "over"}
    /\ hooks \in Seq(1..loads)
    /\ conns \in Seq(Connections) /\ list \in Seq(1..Len(conns))
    /\ login \in [Threads -> [at : {"none", "start", "register", "push"},
                              conn : 0..Len(conns), seen : Seq(1..Len(conns))]]
    /\ report \in [conn : 0..Len(conns), left : Seq(1..loads),
                   running : BOOLEAN, refused : BOOLEAN]

\* The connection c has been reported to the end of CallHook.
Reported(c) == conns[c].phase \in {"proof", "authed"} /\ report.conn # c

\* A login keeps no tie to the load it was made in: unless scripts are being
\* loaded at that moment, its challenge is reported to the callbacks of the
\* newest load and to no other, also when an older load had made it
\* (ScriptHandler.cpp:27-36, PacketFunctions.h:15, PacketHooks.h:32).
HeardByCurrent ==
    LET Plain == {c \in DOMAIN conns : Reported(c) /\ conns[c].newest # 0
                                       /\ ~conns[c].disturbed} IN
    \A c \in Plain :
        /\ conns[c].heard \subseteq {conns[c].newest}
        /\ \A d \in Plain : conns[c].newest = conns[d].newest => conns[c].heard = conns[d].heard

\* Every connection that has been made is in the list of connections, once,
\* but one whose push_back ran at the same time as one of the other thread
\* (ScriptEngine.cpp:35).
ListKeepsAll ==
    \A c \in DOMAIN conns :
        \/ \E t \in Threads : login[t].conn = c
        \/ conns[c].overlapped
        \/ Cardinality({i \in DOMAIN list : list[i] = c}) = 1

\* The parts of the inductive invariant.  There is a load to begin with and one
\* more for each reload that has been taken, and no more messages than lines.
LoadsCounted ==
    /\ typed <= MaxLines
    /\ Len(passed) + (IF line \in Lines /\ Passes(line) # <<>> THEN 1 ELSE 0) <= typed
    /\ loads + (IF script = "due" THEN 1 ELSE 0) <= 1 + Taken

\* A load is over when the tick thread has left it; its script is the newest.
ScriptInPhase ==
    /\ (script = "over") <=> (tick \notin {"loading", "reloading"})
    /\ script # "due" => loads > 0
    /\ hooks = <<>> \/ (loads > 0 /\ hooks = <<loads>>)

\* The threads log in with connections of their own, which are offline till they start.
LoginsApart ==
    \A t \in Threads :
        /\ (login[t].at = "none") <=> (login[t].conn = 0)
        /\ login[t].at = "start" => conns[login[t].conn].phase = "offline"
        /\ login[t].conn # 0 => \A u \in Threads \ {t} : login[u].conn # login[t].conn

\* What is reported stays as it was when the report began.
ReportKept ==
    /\ Reporting => conns[report.conn].phase = (IF report.refused THEN "challenge" ELSE "proof")
    /\ report.running => Reporting /\ report.left # <<>>

ElementsOf(s) == {s[i] : i \in DOMAIN s}

\* What the connections have heard, or will have when their report ends.
HeardSoFar ==
    /\ \A c \in DOMAIN conns :
          /\ conns[c].phase \in {"offline", "challenge"} /\ report.conn # c => conns[c].heard = {}
          /\ script \in {"main", "none"} => conns[c].newest # loads
          /\ Reported(c) /\ conns[c].newest = loads /\ loads # 0 /\ ~conns[c].disturbed =>
                conns[c].heard = ElementsOf(hooks)
    /\ Reporting /\ conns[report.conn].newest # 0 /\ ~conns[report.conn].disturbed =>
          /\ conns[report.conn].newest = loads
          /\ conns[report.conn].heard \cup ElementsOf(report.left) = ElementsOf(hooks)
          /\ report.running => Head(report.left) \in conns[report.conn].heard

\* What a thread has read of the list has all but what the other adds meanwhile.
SeenKeepsAll ==
    \A t \in Threads :
        /\ login[t].conn # 0 =>
              /\ login[t].conn \notin ElementsOf(list)
              /\ \A u \in Threads : login[t].conn \notin ElementsOf(login[u].seen)
        /\ login[t].at = "push" =>
              /\ \A u \in Threads \ {t} : login[u].at = "push" => conns[login[t].conn].overlapped
              /\ \A c \in DOMAIN conns :
                    \/ \E u \in Threads : login[u].conn = c
                    \/ conns[c].overlapped
                    \/ Cardinality({i \in DOMAIN login[t].seen : login[t].seen[i] = c}) = 1

\* The inductive invariant: the types, and how the logins of two threads, the
\* reports and the loads stand to each other (ScriptHandler.cpp:27-142,
\* PacketFunctions.h:11-18, PacketHooks.h:29-79, ScriptEngine.cpp:33-36).
ClientInv ==
    /\ ClientTypeOK /\ LoadsCounted /\ ScriptInPhase /\ LoginsApart /\ ReportKept
    /\ HeardSoFar /\ HeardByCurrent /\ SeenKeepsAll /\ ListKeepsAll

\* The client with its scripts and logins is still the client of
\* ClientLifecycle: a load that logs in comes to its end, no login or callback
\* holds up a message, and only an exception ends the process early.
LifecycleImplemented == FairSpec

\* Each connection passes through the phases of LoginProtocol, whichever thread
\* made it and whatever the scripts do meanwhile.
Login(c) == INSTANCE LoginProtocol
            WITH phase <- IF c \in DOMAIN conns THEN conns[c].phase ELSE "offline",
                 serverProved <- IF c \in DOMAIN conns THEN conns[c].proved ELSE FALSE
LoginsImplemented ==
    /\ \A c \in 1..MaxLogins : Login(c)!Init
    /\ [][\A c \in 1..MaxLogins : [Login(c)!Next]_(Login(c)!vars)]_clientVars

\* The callbacks of the newest load, the one CallHook runs, and whether the hooks
\* have been changed during a report.
Newest == IF loads = 0 THEN {} ELSE {loads}
RunsNow == IF report.running THEN Head(report.left) ELSE 0
Disturbed == \E c \in DOMAIN conns : conns[c].disturbed

\* To the scripts that log in, the client keeps what HookReports promises, until a
\* reload or a registration comes during a report (PacketHooks.h:29-91).
Hook == INSTANCE HookReports
        WITH current <- Newest, hooked <- hooks, reporting <- Reporting,
             left <- report.left, running <- RunsNow, changing <- FALSE, broken <- Disturbed
ClientKeepsReports == Hook!Spec
===============================================================================
