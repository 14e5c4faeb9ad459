------------------------ MODULE HeadlessClientProofs ------------------------
(***************************************************************************)
(* Proofs about HeadlessClient, for any bounds on lines and logins.        *)
(***************************************************************************)
EXTENDS HeadlessClient, ClientLifecycleProofs, SequenceTheorems

(***************************************************************************)
(* The composed client is a client of ClientLifecycle.                     *)
(***************************************************************************)

\* A step of the composed client is a step of ClientLifecycle or none of its
\* business: scripts, logins and reports do not touch the console, the tick loop
\* or the queues (PacketFunctions.h:11-18, ScriptEngine.cpp:33-36, PacketHooks.h:29-79).
LEMMA StepImplementsLifecycle == [ClientNext]_clientVars => [Next]_vars
<1> SUFFICES ASSUME [ClientNext]_clientVars PROVE [Next]_vars
    OBVIOUS
<1>1. CASE Outside
      BY <1>1 DEF Outside, Next
<1>2. CASE PlainTick
      BY <1>2 DEF PlainTick, Next, Tick
<1>3. CASE ScriptTick
  <2>1. CASE LoadsScript \/ RegisterPacketCallback
        BY <2>1 DEF LoadsScript, LoadScript, RegisterPacketCallback
  <2>2. CASE LoadOver
        BY <2>2 DEF LoadOver, Next, Tick
  <2>3. CASE ReloadDue
        BY <2>3 DEF ReloadDue, Next, Tick
  <2>4. CASE SendLoginChallenge("tick")
        BY <2>4 DEF SendLoginChallenge, BeginLogin, StartReturns, BeginRegister, EndRegister
  <2> QED BY <1>3, <2>1, <2>2, <2>3, <2>4 DEF ScriptTick
<1>4. CASE ScriptIo
      BY <1>4 DEF ScriptIo, RunCallback, CallbackReturns, EndReport,
         SendLoginChallenge, BeginLogin, StartReturns, BeginRegister, EndRegister
<1>5. CASE ServerIo
      BY <1>5 DEF ServerIo, BeginReport, Proceed
<1>6. CASE ClientThrows
      BY <1>6 DEF ClientThrows, Next
<1>7. CASE UNCHANGED clientVars
      BY <1>7 DEF clientVars
<1> QED BY <1>1, <1>2, <1>3, <1>4, <1>5, <1>6, <1>7 DEF ClientNext

\* The safety of LifecycleImplemented (the fairness is left to TLC).
THEOREM ClientImplementsLifecycle == ClientSpec => Spec
<1>1. ClientInit => Init
      BY DEF ClientInit
<1> QED BY <1>1, StepImplementsLifecycle, PTL DEF ClientSpec, Spec

\* So the client with scripts and logins answers each ping that precedes the exit
\* (main.cpp:49-85, ClientHandler.cpp:81-116).
THEOREM ClientAnswersBeforeExit == ClientSpec => []AnsweredBeforeExit
BY ClientImplementsLifecycle, AnsweredBeforeExitHolds, PTL

(***************************************************************************)
(* The parts of the invariant, and what leaves them alone.                 *)
(***************************************************************************)

\* What the connection c has to show for its report.
Plain(c) == Reported(c) /\ conns[c].newest # 0 /\ ~conns[c].disturbed
AllHeard ==
    \A c \in DOMAIN conns :
        Plain(c) => /\ conns[c].heard \subseteq {conns[c].newest}
                    /\ \A d \in DOMAIN conns : Plain(d) /\ conns[c].newest = conns[d].newest
                                               => conns[c].heard = conns[d].heard

\* HeardByCurrent, connection by connection.
LEMMA HeardIs == HeardByCurrent <=> AllHeard
BY DEF HeardByCurrent, AllHeard, Plain

\* The fields of the connections.
ConnsOK ==
    /\ DOMAIN conns = 1..Len(conns) /\ Len(conns) \in Nat /\ loads \in Nat
    /\ \A c \in DOMAIN conns :
          /\ conns[c].phase \in {"offline", "challenge", "proof", "authed", "ended"}
          /\ conns[c].heard \subseteq 1..loads /\ conns[c].newest \in 0..loads
          /\ conns[c] \in Connections
    /\ Reporting => report.conn \in DOMAIN conns
    /\ \A t \in Threads : login[t].conn # 0 => login[t].conn \in DOMAIN conns

\* The connections that are reported or logged in are there.
LEMMA FieldsTyped == ClientTypeOK => ConnsOK
<1> SUFFICES ASSUME ClientTypeOK PROVE ConnsOK
    OBVIOUS
<1>1. conns \in Seq(Connections) /\ loads \in Nat
      BY MaxLinesAssumption DEF ClientTypeOK
<1>2. \A c \in DOMAIN conns : conns[c] \in Connections
      BY <1>1, ElementOfSeq
<1>3. DOMAIN conns = 1..Len(conns) /\ Len(conns) \in Nat
      BY <1>1
<1>4. /\ Reporting => report.conn \in DOMAIN conns
      /\ \A t \in Threads : login[t].conn # 0 => login[t].conn \in DOMAIN conns
      BY <1>3 DEF ClientTypeOK, Reporting
<1> QED BY <1>1, <1>2, <1>3, <1>4 DEF ConnsOK, Connections

\* A change of one connection.
LEMMA OneChanges ==
    ASSUME conns \in Seq(Connections), NEW c \in DOMAIN conns, NEW r \in Connections
    PROVE  /\ [conns EXCEPT ![c] = r] \in Seq(Connections)
           /\ Len([conns EXCEPT ![c] = r]) = Len(conns)
           /\ DOMAIN [conns EXCEPT ![c] = r] = DOMAIN conns
           /\ \A d \in DOMAIN conns : [conns EXCEPT ![c] = r][d] = IF d = c THEN r ELSE conns[d]
<1>1. DOMAIN conns = 1..Len(conns)
      OBVIOUS
<1> QED BY <1>1, ExceptSeq

\* Steps that keep the hooks, the report and what was heard.
LEMMA HeardKept ==
    ASSUME HeardSoFar, AllHeard, ConnsOK,
           UNCHANGED <<loads, hooks, report>>, DOMAIN conns' = DOMAIN conns,
           script' \in {"main", "none"} => script \in {"main", "none"},
           \A c \in DOMAIN conns :
              /\ conns'[c].heard = conns[c].heard /\ conns'[c].newest = conns[c].newest
              /\ conns'[c].disturbed = conns[c].disturbed
              /\ conns'[c].phase = conns[c].phase
                 \/ (conns[c].phase = "offline" /\ conns'[c].phase = "challenge")
    PROVE  HeardSoFar' /\ AllHeard'
<1>1. \A c \in DOMAIN conns : (Reported(c)' <=> Reported(c)) /\ (Plain(c)' <=> Plain(c))
      BY DEF Reported, Plain
<1>2. AllHeard'
      BY <1>1 DEF AllHeard
<1>3. \A c \in DOMAIN conns :
          conns'[c].phase \in {"offline", "challenge"} =>
              conns[c].phase \in {"offline", "challenge"}
      OBVIOUS
<1>4. Reporting' <=> Reporting
      BY DEF Reporting
<1>5. \A c \in DOMAIN conns' :
          /\ conns'[c].phase \in {"offline", "challenge"} /\ report'.conn # c
                => conns'[c].heard = {}
          /\ script' \in {"main", "none"} => conns'[c].newest # loads'
          /\ Reported(c)' /\ conns'[c].newest = loads' /\ loads' # 0 /\ ~conns'[c].disturbed =>
                conns'[c].heard = ElementsOf(hooks')
      BY <1>1, <1>3 DEF HeardSoFar
<1>6. ASSUME Reporting, conns'[report.conn].newest # 0, ~conns'[report.conn].disturbed
      PROVE  /\ conns'[report.conn].newest = loads
             /\ conns'[report.conn].heard \cup ElementsOf(report.left) = ElementsOf(hooks)
             /\ report.running => Head(report.left) \in conns'[report.conn].heard
      BY <1>6 DEF HeardSoFar, ConnsOK
<1> QED BY <1>2, <1>4, <1>5, <1>6 DEF HeardSoFar

\* Steps that keep who logs in, what was read of the list, and the list.
LEMMA ListKept ==
    ASSUME SeenKeepsAll, ListKeepsAll, ConnsOK, LoginsApart,
           UNCHANGED list, DOMAIN conns' = DOMAIN conns,
           \A t \in Threads : /\ login'[t].conn = login[t].conn
                              /\ login'[t].seen = login[t].seen
                              /\ login'[t].at = "push" <=> login[t].at = "push",
           \A c \in DOMAIN conns : conns'[c].overlapped = conns[c].overlapped
    PROVE  SeenKeepsAll' /\ ListKeepsAll'
<1>1. ListKeepsAll'
      BY DEF ListKeepsAll
<1>2. \A t \in Threads : login[t].at = "push" => login[t].conn \in DOMAIN conns
      BY DEF ConnsOK, LoginsApart
<1>3. SeenKeepsAll'
  <2> SUFFICES ASSUME NEW t \in Threads
               PROVE  /\ login'[t].conn # 0 =>
                            /\ login'[t].conn \notin ElementsOf(list')
                            /\ \A u \in Threads :
                                  login'[t].conn \notin ElementsOf(login'[u].seen)
                      /\ login'[t].at = "push" =>
                            /\ \A u \in Threads \ {t} : login'[u].at = "push" =>
                                  conns'[login'[t].conn].overlapped
                            /\ \A c \in DOMAIN conns' :
                                  \/ \E u \in Threads : login'[u].conn = c
                                  \/ conns'[c].overlapped
                                  \/ Cardinality({i \in DOMAIN login'[t].seen :
                                                   login'[t].seen[i] = c}) = 1
      BY DEF SeenKeepsAll
  <2>1. login'[t].conn # 0 =>
           /\ login'[t].conn \notin ElementsOf(list')
           /\ \A u \in Threads : login'[t].conn \notin ElementsOf(login'[u].seen)
        BY DEF SeenKeepsAll
  <2>2. login'[t].at = "push" =>
           \A u \in Threads \ {t} : login'[u].at = "push" => conns'[login'[t].conn].overlapped
        BY <1>2 DEF SeenKeepsAll
  <2>3. login'[t].at = "push" =>
           \A c \in DOMAIN conns' :
              \/ \E u \in Threads : login'[u].conn = c
              \/ conns'[c].overlapped
              \/ Cardinality({i \in DOMAIN login'[t].seen : login'[t].seen[i] = c}) = 1
        BY DEF SeenKeepsAll
  <2> QED BY <2>1, <2>2, <2>3
<1> QED BY <1>1, <1>3

(***************************************************************************)
(* The loads are counted by the console lines.                             *)
(***************************************************************************)

\* The messages are no more than the lines (main.cpp:70-85): the line in hand counts.
Due == IF line \in Lines /\ Passes(line) # <<>> THEN 1 ELSE 0
LinesCounted == typed <= MaxLines /\ Len(passed) + Due <= typed

\* Each line passes one message at most, and what was taken stays taken.
LEMMA LifeCounts ==
    ASSUME LifeInv, LinesCounted, [Next]_vars
    PROVE  /\ LinesCounted' /\ Taken' >= Taken
           /\ BeginReload => Taken' = Taken + 1
<1>0. TypeOK /\ QueueIsRest
      BY DEF LifeInv
<1>1. /\ passed \in Seq(Messages) /\ inputQ \in Seq(Messages) /\ typed \in Nat
      /\ Len(passed) \in Nat /\ Len(inputQ) \in Nat /\ Taken \in Nat
      BY <1>0 DEF TypeOK, Messages, QueueIsRest, Taken
<1>2. Due \in {0, 1}
      BY DEF Due
<1>3. CASE HandleLine
  <2>1. CASE Passes(line) = <<>>
    <3>1. passed' = passed /\ inputQ' = inputQ /\ typed' = typed /\ tick' = tick
          BY <1>1, <1>3, <2>1 DEF HandleLine, userVars
    <3>2. Due' = 0
          BY <1>3 DEF HandleLine, Due, Lines, ReadsOn
    <3>3. ~BeginReload
          BY <3>1 DEF BeginReload, Take
    <3> QED BY <1>1, <1>2, <3>1, <3>2, <3>3 DEF LinesCounted, Taken
  <2>2. CASE \E m \in Messages : Passes(line) = <<m>>
    <3> PICK m \in Messages : Passes(line) = <<m>>
        BY <2>2
    <3>1. inputQ' = Append(inputQ, m) /\ passed' = Append(passed, m) /\ typed' = typed
      <4>1. <<m>> # <<>> /\ <<m>>[1] = m /\ passed \o <<m>> = Append(passed, m)
            BY <1>1
      <4> QED BY <1>3, <4>1 DEF HandleLine, Enqueue, userVars
    <3>2. Len(inputQ') = Len(inputQ) + 1 /\ Len(passed') = Len(passed) + 1
          BY <1>1, <3>1, LastIn
    <3>3. Due = 1 /\ Due' = 0
      <4>1. <<m>> # <<>>
            OBVIOUS
      <4> QED BY <1>3, <4>1 DEF HandleLine, Due, Lines
    <3>4. ~BeginReload
          BY <1>1, <3>1, <3>2 DEF BeginReload, mainVars
    <3> QED BY <1>1, <3>1, <3>2, <3>3, <3>4 DEF LinesCounted, Taken
  <2> QED BY <1>3, <2>1, <2>2, PassesOne DEF HandleLine
<1>4. CASE TypeLine
  <2>1. Due = 0
        BY <1>4 DEF TypeLine, Due, Lines
  <2>2. Due' \in {0, 1} /\ passed' = passed /\ inputQ' = inputQ /\ typed' = typed + 1
        /\ typed < MaxLines /\ tick' = tick
        BY <1>4 DEF TypeLine, Due
  <2>3. ~BeginReload
        BY <2>2 DEF BeginReload, Take
  <2> QED BY <1>1, <2>1, <2>2, <2>3, MaxLinesAssumption DEF LinesCounted, Taken
<1>5. CASE ReadAtEnd
  <2>1. Due = 0 /\ Due' = 0
        BY <1>5 DEF ReadAtEnd, Due, Lines, Passes
  <2>2. passed' = passed /\ inputQ' = inputQ /\ typed' = typed /\ tick' = tick
        BY <1>5 DEF ReadAtEnd, userVars
  <2> QED BY <1>1, <2>1, <2>2 DEF LinesCounted, Taken, BeginReload, Take
<1>6. ASSUME UNCHANGED <<line, typed, passed>>,
             inputQ' = inputQ \/ (inputQ # <<>> /\ inputQ' = Tail(inputQ))
      PROVE  LinesCounted' /\ Taken' >= Taken
  <2>1. Due' = Due
        BY <1>6 DEF Due
  <2>2. Len(inputQ') <= Len(inputQ) /\ Len(inputQ') \in Nat
        BY <1>1, <1>6, FirstOut
  <2> QED BY <1>1, <1>6, <2>1, <2>2 DEF LinesCounted, Taken
<1>7. ASSUME BeginReload PROVE Taken' = Taken + 1
  <2>1. Len(Tail(inputQ)) = Len(inputQ) - 1
        BY <1>1, <1>7, FirstOut DEF BeginReload, Take
  <2> QED BY <1>1, <1>7, <2>1 DEF BeginReload, Take, Taken, mainVars
<1>8. CASE PrintMessage \/ ExitConfirmed \/ Drained \/ NoLine \/ HandleBroken
           \/ StopIoService \/ Return \/ ThreadThrows \/ EndInput
      BY <1>6, <1>7, <1>8 DEF PrintMessage, ExitConfirmed, Drained, NoLine, HandleBroken,
         StopIoService, Return, ThreadThrows, EndInput, userVars, mainVars
<1>9. CASE Tick
      BY <1>6, <1>7, <1>9 DEF Tick, LoadScripts, ServePing, BeginReload, EndReload,
         ServeExit, Sleep, NextTick, ConfirmExit, Take, userVars, mainVars
<1>10. CASE UNCHANGED vars
      BY <1>6, <1>7, <1>10 DEF vars
<1> QED BY <1>3, <1>4, <1>5, <1>8, <1>9, <1>10 DEF Next, Main, User

(***************************************************************************)
(* The steps, one by one.                                                  *)
(***************************************************************************)

\* The parts of ClientTypeOK.
ScriptTyped ==
    /\ loads \in 0..MaxLines + 1 /\ script \in {"due", "main", "none", "over"}
    /\ hooks \in Seq(1..loads)
ConnsTyped == conns \in Seq(Connections)
ListTyped == list \in Seq(1..Len(conns))
LoginTyped == login \in [Threads -> [at : {"none", "start", "register", "push"},
                                     conn : 0..Len(conns), seen : Seq(1..Len(conns))]]
ReportTyped == report \in [conn : 0..Len(conns), left : Seq(1..loads),
                           running : BOOLEAN, refused : BOOLEAN]
LoadCovered == loads + (IF script = "due" THEN 1 ELSE 0) <= 1 + Taken

Scripts == ScriptTyped /\ LinesCounted /\ LoadCovered /\ ScriptInPhase
Types == ConnsTyped /\ ListTyped /\ LoginTyped /\ ReportTyped
Logins == LoginsApart /\ SeenKeepsAll /\ ListKeepsAll
Reports == ReportKept /\ HeardSoFar /\ AllHeard

\* The invariant by what the steps disturb: the scripts, the types of the rest,
\* the logins and the reports.
LEMMA PartsAre == ClientInv <=> Scripts /\ Types /\ Logins /\ Reports
<1>1. LoadsCounted <=> LinesCounted /\ LoadCovered
      BY DEF LoadsCounted, LinesCounted, LoadCovered, Due
<1>2. ClientTypeOK <=> ScriptTyped /\ Types
      BY DEF ClientTypeOK, ScriptTyped, Types, ConnsTyped, ListTyped, LoginTyped, ReportTyped
<1> QED BY <1>1, <1>2, HeardIs DEF ClientInv, Scripts, Logins, Reports

\* So the parts give the fields.
LEMMA PartsTyped == Scripts /\ Types => ConnsOK
BY FieldsTyped DEF Scripts, Types, ClientTypeOK, ScriptTyped, ConnsTyped, ListTyped,
   LoginTyped, ReportTyped

\* At the start there is a load to do and nothing else (main.cpp:30-48,
\* ClientHandler.cpp:11-58).
LEMMA ClientInitInv == ClientInit => ClientInv
<1> SUFFICES ASSUME ClientInit PROVE ClientInv
    OBVIOUS
<1>0. /\ loads = 0 /\ script = "due" /\ hooks = <<>> /\ conns = <<>> /\ list = <<>>
      /\ login = [t \in Threads |-> NotLoggingIn] /\ report = NoReport
      /\ tick = "loading" /\ line = "reading" /\ typed = 0 /\ passed = <<>> /\ inputQ = <<>>
      BY DEF ClientInit, Init
<1>1. Scripts
  <2>1. Len(passed) = 0 /\ Len(inputQ) = 0 /\ hooks \in Seq(1..loads)
        BY <1>0
  <2>2. ScriptTyped /\ ScriptInPhase
        BY <1>0, <2>1, MaxLinesAssumption DEF ScriptTyped, ScriptInPhase
  <2>3. LinesCounted /\ LoadCovered
        BY <1>0, <2>1, MaxLinesAssumption DEF LinesCounted, LoadCovered, Due, Taken, Lines
  <2> QED BY <2>2, <2>3 DEF Scripts
<1>2. Types
  <2>1. <<>> \in Seq(1..loads) /\ <<>> \in Seq(1..Len(conns)) /\ <<>> \in Seq(Connections)
        /\ Len(conns) = 0
        BY <1>0
  <2> QED BY <1>0, <2>1
      DEF Types, ConnsTyped, ListTyped, LoginTyped, ReportTyped, NotLoggingIn, NoReport
<1>3. DOMAIN conns = {} /\ report.conn = 0 /\ ~report.running
      /\ \A t \in Threads : login[t].conn = 0 /\ login[t].at = "none"
      BY <1>0 DEF NotLoggingIn, NoReport
<1>4. Logins
      BY <1>3 DEF Logins, LoginsApart, SeenKeepsAll, ListKeepsAll
<1>5. Reports
      BY <1>3 DEF Reports, ReportKept, HeardSoFar, AllHeard, Reporting
<1> QED BY <1>1, <1>2, <1>4, <1>5, PartsAre

\* A step that moves only the load itself keeps the types, the logins and the reports.
LEMMA OthersKept ==
    ASSUME ClientInv, UNCHANGED <<loads, hooks, conns, login, list, report>>,
           script' \in {"main", "none"} => script \in {"main", "none"}
    PROVE  Types' /\ Logins' /\ Reports'
<1>0. Scripts /\ Types /\ Logins /\ Reports /\ ConnsOK
      BY PartsAre, PartsTyped
<1>1. Types'
      BY <1>0 DEF Types, ConnsTyped, ListTyped, LoginTyped, ReportTyped, Connections
<1>2. Logins'
      BY <1>0 DEF Logins, LoginsApart, SeenKeepsAll, ListKeepsAll
<1>3. ReportKept'
      BY <1>0 DEF Reports, ReportKept, Reporting
<1>4. HeardSoFar' /\ AllHeard'
      BY <1>0, HeardKept DEF Reports
<1> QED BY <1>1, <1>2, <1>3, <1>4 DEF Reports

\* A step of the console or of the tick thread between the loads leaves scripts
\* and logins alone (main.cpp:46-85, ClientHandler.cpp:52-115).
LEMMA LifeStepInv ==
    ASSUME ClientInv, LifeInv, [Next]_vars,
           UNCHANGED <<loads, script, hooks, conns, login, list, report>>,
           tick' = tick \/ {tick, tick'} \cap {"loading", "reloading"} = {}
    PROVE  ClientInv'
<1>0. Scripts /\ Types /\ Logins /\ Reports
      BY PartsAre
<1>1. Scripts'
  <2>1. LinesCounted' /\ Taken' >= Taken
        BY <1>0, LifeCounts DEF Scripts
  <2>2. Taken \in Int /\ Taken' \in Int /\ loads \in Nat
        BY <1>0, StepKeepsLife, MaxLinesAssumption
        DEF LifeInv, TypeOK, Taken, Scripts, ScriptTyped
  <2>3. LoadCovered'
    <3>1. ASSUME NEW d \in Nat, loads + d <= 1 + Taken PROVE loads + d <= 1 + Taken'
          BY <2>1, <2>2, <3>1
    <3> QED BY <1>0, <3>1 DEF Scripts, LoadCovered
  <2>4. ScriptTyped' /\ ScriptInPhase'
        BY <1>0 DEF Scripts, ScriptTyped, ScriptInPhase
  <2> QED BY <2>1, <2>3, <2>4 DEF Scripts
<1>2. Types' /\ Logins' /\ Reports'
      BY OthersKept
<1> QED BY <1>1, <1>2, PartsAre, PTL

\* main() has returned, and the load with it (ScriptHandler.cpp:67-79, 127-141).
LEMMA LoadOverInv == ASSUME ClientInv, LoadOver PROVE ClientInv'
<1>0. Scripts /\ Types /\ Logins /\ Reports
      BY PartsAre
<1>1. /\ script \in {"main", "none"} /\ script' = "over" /\ tick' = "update"
      /\ UNCHANGED <<loads, hooks, conns, login, list, report, line, typed, passed, inputQ>>
      BY DEF LoadOver, InScript, LoadScripts, EndReload, mainVars, userVars
<1>2. Scripts'
      BY <1>0, <1>1
      DEF Scripts, ScriptTyped, LinesCounted, LoadCovered, ScriptInPhase, Due, Taken
<1>3. Types' /\ Logins' /\ Reports'
      BY <1>1, OthersKept
<1> QED BY <1>2, <1>3, PartsAre, PTL

\* A reload that was typed is taken from the queue: one load more is due, which
\* the message pays for (ClientHandler.cpp:107-110).
LEMMA ReloadDueInv == ASSUME ClientInv, LifeInv, ReloadDue PROVE ClientInv'
<1>0. Scripts /\ Types /\ Logins /\ Reports
      BY PartsAre
<1>1. /\ BeginReload /\ script' = "due" /\ tick = "update" /\ tick' = "reloading"
      /\ UNCHANGED <<loads, hooks, conns, login, list, report>>
      BY DEF ReloadDue, BeginReload, Take
<1>2. script = "over"
      BY <1>0, <1>1 DEF Scripts, ScriptTyped, ScriptInPhase
<1>3. LinesCounted' /\ Taken' = Taken + 1
      BY <1>0, <1>1, LifeCounts DEF Scripts, Next, Tick
<1>4. LoadCovered'
  <2>1. loads \in Nat /\ Taken \in Int /\ loads <= 1 + Taken
        BY <1>0, <1>2, MaxLinesAssumption
        DEF Scripts, ScriptTyped, LoadCovered, LifeInv, TypeOK, Taken
  <2> QED BY <1>1, <1>3, <2>1 DEF LoadCovered
<1>5. ScriptTyped' /\ ScriptInPhase'
      BY <1>0, <1>1 DEF Scripts, ScriptTyped, ScriptInPhase
<1>6. Types' /\ Logins' /\ Reports'
      BY <1>1, OthersKept
<1> QED BY <1>3, <1>4, <1>5, <1>6, PartsAre, PTL DEF Scripts

\* A sequence over fewer elements is one over more.
LEMMA Wider ==
    ASSUME NEW S, NEW T, S \subseteq T, NEW s \in Seq(S)
    PROVE  s \in Seq(T)
<1>1. s \in [1..Len(s) -> S] /\ Len(s) \in Nat
      OBVIOUS
<1>2. s \in [1..Len(s) -> T]
      BY <1>1
<1> QED BY <1>1, <1>2

\* A report under way is disturbed by a change of the hooks, and no connection
\* changes otherwise (PacketHooks.h:19-22, 81-91).
LEMMA HooksChange ==
    ASSUME Scripts, Types, NEW new, ChangeHooks(new), report' = report,
           loads' \in Nat, loads' >= loads
    PROVE  /\ conns' \in Seq(Connections') /\ DOMAIN conns' = DOMAIN conns
           /\ Len(conns') = Len(conns) /\ ReportTyped'
           /\ \A c \in DOMAIN conns :
                 /\ conns'[c].phase = conns[c].phase /\ conns'[c].heard = conns[c].heard
                 /\ conns'[c].newest = conns[c].newest
                 /\ conns'[c].overlapped = conns[c].overlapped
                 /\ conns[c].disturbed => conns'[c].disturbed
           /\ Reporting => conns'[report.conn].disturbed
<1>0. ConnsOK /\ conns \in Seq(Connections) /\ loads \in Nat /\ ReportTyped
      BY PartsTyped DEF Types, ConnsTyped, ConnsOK
<1>1. 1..loads \subseteq 1..loads' /\ 0..loads \subseteq 0..loads'
      BY <1>0
<1>2. Connections \subseteq Connections'
  <2>1. SUBSET (1..loads) \subseteq SUBSET (1..loads')
        BY <1>1
  <2> QED BY <1>1, <2>1 DEF Connections
<1>3. conns \in Seq(Connections')
      BY <1>0, <1>2, Wider
<1>4. Len(conns') = Len(conns)
  <2>1. \A d \in DOMAIN conns : \A v : Len([conns EXCEPT ![d] = v]) = Len(conns)
        BY <1>0
  <2> QED BY <1>0, <2>1 DEF ChangeHooks, ConnsOK
<1>5. ReportTyped'
  <2>1. report.left \in Seq(1..loads')
        BY <1>0, <1>1, Wider DEF ReportTyped
  <2> QED BY <1>0, <1>4, <2>1 DEF ReportTyped
<1>6. CASE Reporting
  <2> DEFINE r == [conns[report.conn] EXCEPT !.disturbed = TRUE]
  <2>1. report.conn \in DOMAIN conns /\ conns[report.conn] \in Connections
        BY <1>0, <1>6 DEF ConnsOK
  <2>2. /\ r \in Connections /\ r.phase = conns[report.conn].phase /\ r.disturbed
        /\ r.heard = conns[report.conn].heard /\ r.newest = conns[report.conn].newest
        /\ r.overlapped = conns[report.conn].overlapped
        BY <2>1 DEF Connections
  <2>3. conns' = [conns EXCEPT ![report.conn] = r]
        BY <1>6 DEF ChangeHooks
  <2> HIDE DEF r
  <2>4. /\ conns' \in Seq(Connections) /\ Len(conns') = Len(conns)
        /\ DOMAIN conns' = DOMAIN conns
        /\ \A c \in DOMAIN conns : conns'[c] = IF c = report.conn THEN r ELSE conns[c]
        BY <1>0, <2>1, <2>2, <2>3, OneChanges
  <2>5. conns' \in Seq(Connections')
        BY <1>2, <2>4, Wider
  <2> QED BY <1>5, <2>1, <2>2, <2>4, <2>5
<1>7. CASE ~Reporting
      BY <1>3, <1>5, <1>7 DEF ChangeHooks
<1> QED BY <1>6, <1>7

\* ReloadScripts clears the hooks and LoadScript begins a new load: whoever is
\* still being reported is disturbed, and nothing has been reported to the new
\* load yet (ScriptHandler.cpp:27-36, 81-122).
LEMMA LoadsScriptInv == ASSUME ClientInv, LifeInv, LoadsScript PROVE ClientInv'
<1>0. Scripts /\ Types /\ Logins /\ Reports /\ ConnsOK
      BY PartsAre, PartsTyped
<1>1. /\ script = "due" /\ script' \in {"main", "none"} /\ loads' = loads + 1
      /\ hooks' = <<>> /\ ChangeHooks(<<>>) /\ tick \in {"loading", "reloading"}
      /\ UNCHANGED <<vars, login, list, report>>
      BY DEF LoadsScript, LoadScript, ChangeHooks
<1>2. loads \in Nat /\ loads' \in Nat /\ loads' >= loads /\ loads' > 0
      BY <1>0, <1>1 DEF ConnsOK
<1>3. Scripts'
  <2>1. UNCHANGED <<tick, line, typed, passed, inputQ>>
        BY <1>1 DEF vars
  <2>2. LinesCounted' /\ Taken' = Taken
        BY <1>0, <2>1 DEF Scripts, LinesCounted, Due, Taken
  <2>3. loads + 1 <= 1 + Taken
        BY <1>0, <1>1 DEF Scripts, LoadCovered
  <2>4. Taken <= MaxLines /\ Taken \in Int
    <3>1. Len(passed) \in Nat /\ Len(inputQ) \in Nat /\ typed \in Nat
          BY DEF LifeInv, TypeOK
    <3>2. Len(passed) <= typed /\ typed <= MaxLines
          BY <1>0, <3>1 DEF Scripts, LinesCounted, Due
    <3> QED BY <3>1, <3>2, MaxLinesAssumption DEF Taken
  <2>5. ScriptTyped'
        BY <1>1, <1>2, <2>3, <2>4, MaxLinesAssumption DEF ScriptTyped
  <2>6. LoadCovered'
        BY <1>1, <1>2, <2>2, <2>3, <2>4 DEF LoadCovered
  <2>7. ScriptInPhase'
        BY <1>1, <1>2, <2>1 DEF ScriptInPhase
  <2> QED BY <2>2, <2>5, <2>6, <2>7 DEF Scripts
<1>4. /\ conns' \in Seq(Connections') /\ DOMAIN conns' = DOMAIN conns
      /\ Len(conns') = Len(conns) /\ ReportTyped'
      /\ \A c \in DOMAIN conns :
            /\ conns'[c].phase = conns[c].phase /\ conns'[c].heard = conns[c].heard
            /\ conns'[c].newest = conns[c].newest
            /\ conns'[c].overlapped = conns[c].overlapped
            /\ conns[c].disturbed => conns'[c].disturbed
      /\ Reporting => conns'[report.conn].disturbed
      BY <1>0, <1>1, <1>2, HooksChange
<1>5. Types'
      BY <1>0, <1>1, <1>4 DEF Types, ConnsTyped, ListTyped, LoginTyped
<1>6. Logins'
  <2>1. LoginsApart'
        BY <1>0, <1>1, <1>4 DEF Logins, LoginsApart, ConnsOK
  <2>2. SeenKeepsAll' /\ ListKeepsAll'
        BY <1>0, <1>1, <1>4, ListKept DEF Logins
  <2> QED BY <2>1, <2>2 DEF Logins
<1>7. Reports'
  <2>1. ReportKept'
        BY <1>0, <1>1, <1>4 DEF Reports, ReportKept, Reporting, ConnsOK
  <2>2. \A c \in DOMAIN conns : (Reported(c)' <=> Reported(c)) /\ (Plain(c)' => Plain(c))
        BY <1>1, <1>4 DEF Reported, Plain
  <2>3. AllHeard'
        BY <1>0, <1>4, <2>2 DEF Reports, AllHeard
  <2>4. \A c \in DOMAIN conns : conns'[c].newest # loads'
        BY <1>0, <1>1, <1>2, <1>4 DEF ConnsOK
  <2>5. HeardSoFar'
        BY <1>0, <1>1, <1>4, <2>4 DEF Reports, HeardSoFar, Reporting
  <2> QED BY <2>1, <2>3, <2>5 DEF Reports
<1> QED BY <1>3, <1>5, <1>6, <1>7, PartsAre, PTL

\* RegisterPacketCallback in main(): no login has been reported to this load
\* yet but those it disturbs (GlobalFunctions.h:9-13, PacketHooks.h:19-22).
LEMMA RegisterCallbackInv == ASSUME ClientInv, RegisterPacketCallback PROVE ClientInv'
<1>0. Scripts /\ Types /\ Logins /\ Reports /\ ConnsOK
      BY PartsAre, PartsTyped
<1>1. /\ script = "main" /\ hooks' = Append(hooks, loads)
      /\ ChangeHooks(Append(hooks, loads)) /\ \A i \in DOMAIN hooks : hooks[i] # loads
      /\ UNCHANGED <<vars, loads, script, login, list, report>>
      BY DEF RegisterPacketCallback, ChangeHooks, InScript
<1>2. loads \in Nat /\ loads > 0
      BY <1>0, <1>1 DEF ConnsOK, Scripts, ScriptInPhase
<1>3. hooks' = <<loads>>
  <2>1. hooks = <<>> \/ hooks = <<loads>>
        BY <1>0 DEF Scripts, ScriptInPhase
  <2>2. hooks = <<>>
        BY <1>1, <2>1
  <2> QED BY <1>1, <2>2
<1>4. Scripts'
  <2>1. UNCHANGED <<tick, line, typed, passed, inputQ>>
        BY <1>1 DEF vars
  <2>2. <<loads>> \in Seq(1..loads)
        BY <1>2
  <2> QED BY <1>0, <1>1, <1>2, <1>3, <2>1, <2>2
      DEF Scripts, ScriptTyped, LinesCounted, Due, LoadCovered, Taken, ScriptInPhase
<1>5. /\ conns' \in Seq(Connections') /\ DOMAIN conns' = DOMAIN conns
      /\ Len(conns') = Len(conns) /\ ReportTyped'
      /\ \A c \in DOMAIN conns :
            /\ conns'[c].phase = conns[c].phase /\ conns'[c].heard = conns[c].heard
            /\ conns'[c].newest = conns[c].newest
            /\ conns'[c].overlapped = conns[c].overlapped
            /\ conns[c].disturbed => conns'[c].disturbed
      /\ Reporting => conns'[report.conn].disturbed
      BY <1>0, <1>1, <1>2, HooksChange
<1>6. Types'
      BY <1>0, <1>1, <1>5 DEF Types, ConnsTyped, ListTyped, LoginTyped
<1>7. Logins'
  <2>1. LoginsApart'
        BY <1>0, <1>1, <1>5 DEF Logins, LoginsApart, ConnsOK
  <2>2. SeenKeepsAll' /\ ListKeepsAll'
        BY <1>0, <1>1, <1>5, ListKept DEF Logins
  <2> QED BY <2>1, <2>2 DEF Logins
<1>8. Reports'
  <2>1. ReportKept'
        BY <1>0, <1>1, <1>5 DEF Reports, ReportKept, Reporting, ConnsOK
  <2>2. \A c \in DOMAIN conns : (Reported(c)' <=> Reported(c)) /\ (Plain(c)' => Plain(c))
        BY <1>1, <1>5 DEF Reported, Plain
  <2>3. AllHeard'
        BY <1>0, <1>5, <2>2 DEF Reports, AllHeard
  <2>4. \A c \in DOMAIN conns : conns'[c].newest # loads
        BY <1>0, <1>1, <1>5 DEF Reports, HeardSoFar
  <2>5. HeardSoFar'
        BY <1>0, <1>1, <1>5, <2>4 DEF Reports, HeardSoFar, Reporting
  <2> QED BY <2>1, <2>3, <2>5 DEF Reports
<1> QED BY <1>4, <1>6, <1>7, <1>8, PartsAre, PTL

\* The callbacks that are left: the next, and those behind it (PacketHooks.h:32).
LEMMA NextAndRest ==
    ASSUME NEW S, NEW q \in Seq(S), q # <<>>
    PROVE  /\ Head(q) \in S /\ Head(q) \in ElementsOf(q) /\ Tail(q) \in Seq(S)
           /\ ElementsOf(q) = {Head(q)} \cup ElementsOf(Tail(q))
<1> DEFINE n == Len(q)
           r == Tail(q)
           h == Head(q)
<1>1. /\ r \in Seq(S) /\ h = q[1] /\ q[1] \in S /\ n \in Nat /\ n > 0 /\ Len(r) = n - 1
      /\ \A i \in 1..n - 1 : r[i] = q[i + 1]
      BY FirstOut
<1>2. DOMAIN q = 1..n /\ DOMAIN r = 1..n - 1
      BY <1>1
<1> HIDE DEF n, r, h
<1>3. 1 \in 1..n /\ \A i \in 1..n - 1 : i + 1 \in 1..n
      BY <1>1
<1>4. \A i \in 1..n : i = 1 \/ \E j \in 1..n - 1 : i = j + 1
  <2>1. \A i \in 1..n : i = 1 \/ (i - 1 \in 1..n - 1 /\ i = (i - 1) + 1)
        BY <1>1
  <2> QED BY <2>1
<1>5. h \in ElementsOf(q)
      BY <1>1, <1>2, <1>3 DEF ElementsOf
<1>6. ASSUME NEW x \in ElementsOf(q) PROVE x = h \/ x \in ElementsOf(r)
  <2>1. PICK i \in 1..n : x = q[i]
        BY <1>2, <1>6 DEF ElementsOf
  <2>2. CASE i = 1
        BY <1>1, <2>1, <2>2
  <2>3. CASE i # 1
    <3>1. PICK j \in 1..n - 1 : i = j + 1
          BY <1>4, <2>3
    <3>2. x = r[j]
          BY <1>1, <2>1, <3>1
    <3> QED BY <1>2, <3>2 DEF ElementsOf
  <2> QED BY <2>2, <2>3
<1>7. ASSUME NEW x \in ElementsOf(r) PROVE x \in ElementsOf(q)
  <2>1. PICK j \in 1..n - 1 : x = r[j]
        BY <1>2, <1>7 DEF ElementsOf
  <2> QED BY <1>1, <1>2, <1>3, <2>1 DEF ElementsOf
<1>8. ElementsOf(q) = {h} \cup ElementsOf(r)
      BY <1>5, <1>6, <1>7
<1> QED BY <1>1, <1>5, <1>8 DEF h, r

\* What the io thread's reports and the server's answers leave alone: the
\* scripts, the list, and every connection that is not started yet.
LEMMA IoKeeps ==
    ASSUME ClientInv, UNCHANGED <<vars, loads, script, hooks, login, list>>,
           NEW c \in DOMAIN conns, NEW r \in Connections,
           conns' = [conns EXCEPT ![c] = r],
           r.overlapped = conns[c].overlapped,
           conns[c].phase = "offline" => r.phase = "offline", ReportTyped'
    PROVE  /\ Scripts' /\ Types' /\ Logins' /\ DOMAIN conns' = DOMAIN conns
           /\ \A d \in DOMAIN conns : conns'[d] = IF d = c THEN r ELSE conns[d]
<1>0. Scripts /\ Types /\ Logins /\ ConnsOK /\ conns \in Seq(Connections)
      BY PartsAre, PartsTyped DEF Types, ConnsTyped
<1>1. /\ conns' \in Seq(Connections) /\ Len(conns') = Len(conns)
      /\ DOMAIN conns' = DOMAIN conns
      /\ \A d \in DOMAIN conns : conns'[d] = IF d = c THEN r ELSE conns[d]
      BY <1>0, OneChanges
<1>2. Scripts'
      BY <1>0 DEF Scripts, ScriptTyped, LinesCounted, Due, LoadCovered, Taken,
         ScriptInPhase, vars
<1>3. Types'
  <2>1. Connections' = Connections
        BY DEF Connections
  <2> QED BY <1>0, <1>1, <2>1 DEF Types, ConnsTyped, ListTyped, LoginTyped
<1>4. \A d \in DOMAIN conns :
          /\ conns'[d].overlapped = conns[d].overlapped
          /\ conns[d].phase = "offline" => conns'[d].phase = "offline"
      BY <1>1
<1>5. LoginsApart'
      BY <1>0, <1>4 DEF Logins, LoginsApart, ConnsOK
<1>6. SeenKeepsAll' /\ ListKeepsAll'
      BY <1>0, <1>1, <1>4, ListKept DEF Logins
<1> QED BY <1>1, <1>2, <1>3, <1>5, <1>6 DEF Logins

\* A challenge or a refusal is about to be reported, to the callbacks that are
\* hooked now (NovusConnection.cpp:107-162, PacketHooks.h:29-32).
LEMMA BeginReportInv ==
    ASSUME ClientInv, NEW c \in DOMAIN conns, BeginReport(c) PROVE ClientInv'
<1>0. Scripts /\ Types /\ Logins /\ Reports /\ ConnsOK
      BY PartsAre, PartsTyped
<1> PICK refused \in BOOLEAN :
        /\ report' = [conn |-> c, left |-> hooks, running |-> FALSE, refused |-> refused]
        /\ conns' = [conns EXCEPT ![c].phase = IF refused THEN @ ELSE "proof",
                                  ![c].newest = IF tick \in {"loading", "reloading"}
                                                THEN 0 ELSE loads]
    BY DEF BeginReport
<1> DEFINE r == [conns[c] EXCEPT !.phase = IF refused THEN @ ELSE "proof",
                                 !.newest = IF tick \in {"loading", "reloading"}
                                            THEN 0 ELSE loads]
<1>1. /\ UNCHANGED <<vars, loads, script, hooks, login, list>> /\ ~Reporting
      /\ conns[c].phase = "challenge"
      BY DEF BeginReport, AwaitsChallenge
<1>2. /\ r \in Connections /\ r.heard = conns[c].heard /\ r.overlapped = conns[c].overlapped
      /\ r.disturbed = conns[c].disturbed
      /\ r.newest = IF tick \in {"loading", "reloading"} THEN 0 ELSE loads
      /\ r.phase = IF refused THEN "challenge" ELSE "proof"
  <2>1. conns[c] \in Connections /\ loads \in 0..loads /\ 0 \in 0..loads
        BY <1>0 DEF ConnsOK
  <2>2. CASE refused
        BY <1>1, <2>1, <2>2 DEF Connections
  <2>3. CASE ~refused
        BY <1>1, <2>1, <2>3 DEF Connections
  <2> QED BY <2>2, <2>3
<1>3. conns' = [conns EXCEPT ![c] = r]
      OBVIOUS
<1> HIDE DEF r
<1>4. ReportTyped'
  <2>1. Len(conns') = Len(conns) /\ c \in 0..Len(conns)
    <3>1. conns \in Seq(Connections)
          BY <1>0 DEF Types, ConnsTyped
    <3> QED BY <1>0, <1>2, <1>3, <3>1, OneChanges DEF ConnsOK
  <2> QED BY <1>0, <1>1, <2>1 DEF ReportTyped, Scripts, ScriptTyped
<1>5. /\ Scripts' /\ Types' /\ Logins' /\ DOMAIN conns' = DOMAIN conns
      /\ \A d \in DOMAIN conns : conns'[d] = IF d = c THEN r ELSE conns[d]
      BY <1>1, <1>2, <1>3, <1>4, IoKeeps
<1>6. report'.conn = c /\ c # 0 /\ Reporting' /\ report.conn = 0
      BY <1>0, <1>1 DEF Reporting, ConnsOK
<1>7. ReportKept'
      BY <1>2, <1>5, <1>6 DEF ReportKept
<1>8. AllHeard'
  <2>1. ~Plain(c)' /\ \A d \in DOMAIN conns \ {c} : (Plain(d)' <=> Plain(d))
        BY <1>0, <1>5, <1>6 DEF Plain, Reported, ConnsOK
  <2> QED BY <1>0, <1>5, <2>1 DEF Reports, AllHeard
<1>9. HeardSoFar'
  <2>1. script \in {"main", "none"} => tick \in {"loading", "reloading"} /\ loads > 0
        BY <1>0 DEF Scripts, ScriptInPhase
  <2>2. conns[c].heard = {}
        BY <1>0, <1>1, <1>6 DEF Reports, HeardSoFar
  <2>3. ASSUME NEW d \in DOMAIN conns, d # c
        PROVE  /\ conns[d].phase \in {"offline", "challenge"} => conns[d].heard = {}
               /\ script \in {"main", "none"} => conns[d].newest # loads
               /\ Reported(d)' /\ conns[d].newest = loads /\ loads # 0
                  /\ ~conns[d].disturbed => conns[d].heard = ElementsOf(hooks)
    <3>1. d # report.conn /\ (Reported(d)' <=> Reported(d))
          BY <1>0, <1>5, <1>6, <2>3 DEF Reported, ConnsOK
    <3> QED BY <1>0, <3>1 DEF Reports, HeardSoFar
  <2>4. ~Reported(c)'
        BY <1>6 DEF Reported
  <2>5. \A d \in DOMAIN conns' :
          /\ conns'[d].phase \in {"offline", "challenge"} /\ report'.conn # d
                => conns'[d].heard = {}
          /\ script' \in {"main", "none"} => conns'[d].newest # loads'
          /\ Reported(d)' /\ conns'[d].newest = loads' /\ loads' # 0 /\ ~conns'[d].disturbed =>
                conns'[d].heard = ElementsOf(hooks')
    <3>1. \A d \in DOMAIN conns : d # c => conns'[d] = conns[d]
          BY <1>5
    <3>2. conns'[c] = r /\ (script \in {"main", "none"} => r.newest # loads)
          BY <1>2, <1>5, <2>1
    <3> QED BY <1>1, <1>5, <1>6, <2>3, <2>4, <3>1, <3>2
  <2>6. conns'[c].newest # 0 =>
           /\ conns'[c].newest = loads
           /\ conns'[c].heard \cup ElementsOf(hooks) = ElementsOf(hooks)
        BY <1>2, <1>5, <2>2
  <2> QED BY <1>1, <1>6, <2>5, <2>6 DEF HeardSoFar
<1> QED BY <1>5, <1>7, <1>8, <1>9, PartsAre, PTL DEF Reports

\* The io thread calls the next callback, which hears of the login
\* (PacketHooks.h:32-74).
LEMMA RunCallbackInv == ASSUME ClientInv, RunCallback PROVE ClientInv'
<1>0. Scripts /\ Types /\ Logins /\ Reports /\ ConnsOK
      BY PartsAre, PartsTyped
<1> DEFINE c == report.conn
           h == Head(report.left)
           r == [conns[c] EXCEPT !.heard = @ \cup {h}]
<1>1. /\ Reporting /\ ~report.running /\ report.left # <<>>
      /\ report' = [report EXCEPT !.running = TRUE]
      /\ conns' = [conns EXCEPT ![c] = r]
      /\ UNCHANGED <<vars, loads, script, hooks, login, list>>
      BY DEF RunCallback
<1>2. c \in DOMAIN conns /\ conns[c] \in Connections /\ c # 0
      BY <1>0, <1>1 DEF ConnsOK, Reporting
<1>3. /\ report.left \in Seq(1..loads) /\ h \in 1..loads /\ h \in ElementsOf(report.left)
      BY <1>0, <1>1, NextAndRest DEF Types, ReportTyped
<1>4. /\ r \in Connections /\ r.heard = conns[c].heard \cup {h}
      /\ r.overlapped = conns[c].overlapped /\ r.disturbed = conns[c].disturbed
      /\ r.newest = conns[c].newest /\ r.phase = conns[c].phase
      BY <1>2, <1>3 DEF Connections
<1>5. /\ report'.conn = c /\ report'.left = report.left /\ report'.running
      /\ report'.refused = report.refused
      /\ report' \in [conn : 0..Len(conns), left : Seq(1..loads),
                      running : BOOLEAN, refused : BOOLEAN]
      BY <1>0, <1>1 DEF Types, ReportTyped
<1> HIDE DEF r
<1>6. ReportTyped'
  <2>1. Len(conns') = Len(conns)
        BY <1>0, <1>1, <1>2, <1>4, OneChanges DEF Types, ConnsTyped
  <2> QED BY <1>1, <1>5, <2>1 DEF ReportTyped
<1>7. /\ Scripts' /\ Types' /\ Logins' /\ DOMAIN conns' = DOMAIN conns
      /\ \A d \in DOMAIN conns : conns'[d] = IF d = c THEN r ELSE conns[d]
      BY <1>1, <1>2, <1>4, <1>6, IoKeeps
<1>8. ReportKept' /\ Reporting'
      BY <1>0, <1>1, <1>2, <1>4, <1>5, <1>7 DEF Reports, ReportKept, Reporting
<1>9. /\ \A d \in DOMAIN conns : (Reported(d)' <=> Reported(d)) /\ (Plain(d)' <=> Plain(d))
      /\ ~Reported(c)
      BY <1>4, <1>5, <1>7 DEF Plain, Reported
<1>10. AllHeard'
  <2>1. \A d \in DOMAIN conns : Plain(d) => d # c /\ conns'[d] = conns[d]
        BY <1>7, <1>9 DEF Plain
  <2> QED BY <1>0, <1>7, <1>9, <2>1 DEF Reports, AllHeard
<1>11. HeardSoFar'
  <2>1. conns[c].phase # "offline" /\ report'.conn = c
        BY <1>0, <1>1, <1>5 DEF Reports, ReportKept
  <2>2. \A d \in DOMAIN conns' :
          /\ conns'[d].phase \in {"offline", "challenge"} /\ report'.conn # d
                => conns'[d].heard = {}
          /\ script' \in {"main", "none"} => conns'[d].newest # loads'
          /\ Reported(d)' /\ conns'[d].newest = loads' /\ loads' # 0 /\ ~conns'[d].disturbed =>
                conns'[d].heard = ElementsOf(hooks')
    <3>1. \A d \in DOMAIN conns : d # c => conns'[d] = conns[d]
          BY <1>7
    <3>2. conns'[c] = r
          BY <1>2, <1>7
    <3>3. \A d \in DOMAIN conns :
            /\ conns[d].phase \in {"offline", "challenge"} /\ c # d => conns[d].heard = {}
            /\ script \in {"main", "none"} => conns[d].newest # loads
            /\ Reported(d) /\ conns[d].newest = loads /\ loads # 0 /\ ~conns[d].disturbed =>
                  conns[d].heard = ElementsOf(hooks)
          BY <1>0 DEF Reports, HeardSoFar
    <3> QED BY <1>1, <1>2, <1>4, <1>5, <1>7, <1>9, <3>1, <3>2, <3>3
  <2>3. conns'[c].newest # 0 /\ ~conns'[c].disturbed =>
           /\ conns'[c].newest = loads
           /\ conns'[c].heard \cup ElementsOf(report.left) = ElementsOf(hooks)
           /\ h \in conns'[c].heard
    <3>1. conns'[c] = r
          BY <1>2, <1>7
    <3>2. conns[c].newest # 0 /\ ~conns[c].disturbed =>
           /\ conns[c].newest = loads
           /\ conns[c].heard \cup ElementsOf(report.left) = ElementsOf(hooks)
          BY <1>0, <1>1 DEF Reports, HeardSoFar
    <3> QED BY <1>3, <1>4, <3>1, <3>2
  <2>4. ElementsOf(report'.left) = ElementsOf(report.left) /\ Head(report'.left) = h
        BY <1>5
  <2>5. ElementsOf(hooks)' = ElementsOf(hooks) /\ loads' = loads
        BY <1>1 DEF ElementsOf
  <2> QED BY <1>5, <2>2, <2>3, <2>4, <2>5 DEF HeardSoFar, ElementsOf
<1> QED BY <1>7, <1>8, <1>10, <1>11, PartsAre, PTL DEF Reports

\* A callback returns to CallHook's loop, which goes on with the next
\* (PacketHooks.h:74-77).
LEMMA CallbackReturnsInv == ASSUME ClientInv, CallbackReturns PROVE ClientInv'
<1>0. Scripts /\ Types /\ Logins /\ Reports /\ ConnsOK
      BY PartsAre, PartsTyped
<1> DEFINE c == report.conn
<1>1. /\ report.running /\ report' = [report EXCEPT !.running = FALSE, !.left = Tail(@)]
      /\ UNCHANGED <<vars, loads, script, hooks, conns, login, list>>
      BY DEF CallbackReturns, InScript
<1>2. Reporting /\ report.left # <<>> /\ c \in DOMAIN conns /\ conns[c] \in Connections
      BY <1>0, <1>1 DEF Reports, ReportKept, ConnsOK
<1>3. /\ report.left \in Seq(1..loads) /\ Tail(report.left) \in Seq(1..loads)
      /\ ElementsOf(report.left) = {Head(report.left)} \cup ElementsOf(Tail(report.left))
      BY <1>0, <1>2, NextAndRest DEF Types, ReportTyped
<1>4. /\ report'.conn = c /\ report'.left = Tail(report.left) /\ ~report'.running
      /\ report'.refused = report.refused /\ ReportTyped'
      BY <1>0, <1>1, <1>3 DEF Types, ReportTyped
<1>5. Scripts' /\ Types' /\ Logins'
  <2>1. conns \in Seq(Connections)
        BY <1>0 DEF Types, ConnsTyped
  <2>2. conns = [conns EXCEPT ![c] = conns[c]]
        BY <1>2, <2>1
  <2> QED BY <1>1, <1>2, <1>4, <2>2, IoKeeps
<1>6. ReportKept' /\ (Reporting' <=> Reporting)
      BY <1>0, <1>1, <1>4 DEF Reports, ReportKept, Reporting
<1>7. \A d : (Reported(d)' <=> Reported(d)) /\ (Plain(d)' <=> Plain(d))
      BY <1>1, <1>4 DEF Plain, Reported
<1>8. AllHeard'
      BY <1>0, <1>1, <1>7 DEF Reports, AllHeard
<1>9. HeardSoFar'
  <2>1. \A d \in DOMAIN conns :
          /\ conns[d].phase \in {"offline", "challenge"} /\ report'.conn # d
                => conns[d].heard = {}
          /\ script \in {"main", "none"} => conns[d].newest # loads
          /\ Reported(d)' /\ conns[d].newest = loads /\ loads # 0 /\ ~conns[d].disturbed =>
                conns[d].heard = ElementsOf(hooks)
        BY <1>0, <1>4, <1>7 DEF Reports, HeardSoFar
  <2>2. conns[c].newest # 0 /\ ~conns[c].disturbed =>
           /\ conns[c].newest = loads
           /\ conns[c].heard \cup ElementsOf(Tail(report.left)) = ElementsOf(hooks)
    <3>1. conns[c].newest # 0 /\ ~conns[c].disturbed =>
           /\ conns[c].newest = loads
           /\ conns[c].heard \cup ElementsOf(report.left) = ElementsOf(hooks)
           /\ Head(report.left) \in conns[c].heard
          BY <1>0, <1>1, <1>2 DEF Reports, HeardSoFar
    <3> QED BY <1>3, <3>1
  <2> QED BY <1>1, <1>4, <2>1, <2>2 DEF HeardSoFar, ElementsOf
<1> QED BY <1>5, <1>6, <1>8, <1>9, PartsAre, PTL DEF Reports

\* CallHook returns: every callback that is hooked now has heard of the login,
\* unless the hooks changed meanwhile (PacketHooks.h:77-79).
LEMMA EndReportInv == ASSUME ClientInv, EndReport PROVE ClientInv'
<1>0. Scripts /\ Types /\ Logins /\ Reports /\ ConnsOK
      BY PartsAre, PartsTyped
<1> PICK c : c = report.conn
    OBVIOUS
<1> DEFINE r == [conns[c] EXCEPT !.phase = IF report.refused THEN "ended" ELSE @]
<1>1. /\ Reporting /\ report.left = <<>> /\ report' = NoReport
      /\ UNCHANGED <<vars, loads, script, hooks, login, list>>
      /\ conns' = IF report.refused THEN [conns EXCEPT ![c].phase = "ended"] ELSE conns
      BY DEF EndReport
<1>2. /\ c \in DOMAIN conns /\ conns[c] \in Connections /\ c # 0
      /\ conns[c].phase = (IF report.refused THEN "challenge" ELSE "proof")
      /\ report.refused \in BOOLEAN /\ conns \in Seq(Connections)
      BY <1>0, <1>1
      DEF ConnsOK, Reporting, Reports, ReportKept, Types, ReportTyped, ConnsTyped
<1>3. /\ r \in Connections /\ r.heard = conns[c].heard /\ r.overlapped = conns[c].overlapped
      /\ r.newest = conns[c].newest /\ r.disturbed = conns[c].disturbed
      /\ r.phase = (IF report.refused THEN "ended" ELSE "proof")
  <2>1. CASE report.refused
        BY <1>2, <2>1 DEF Connections
  <2>2. CASE ~report.refused
        BY <1>2, <2>2 DEF Connections
  <2> QED BY <2>1, <2>2
<1>4. conns' = [conns EXCEPT ![c] = r]
  <2>1. CASE report.refused
        BY <1>1, <2>1
  <2>2. CASE ~report.refused
    <3>1. r = conns[c]
          BY <1>2, <2>2 DEF Connections
    <3>2. conns = [conns EXCEPT ![c] = conns[c]]
          BY <1>2
    <3> QED BY <1>1, <2>2, <3>1, <3>2
  <2> QED BY <2>1, <2>2
<1> HIDE DEF r
<1>5. report'.conn = 0 /\ ~report'.running /\ ~Reporting' /\ ReportTyped'
  <2>1. Len(conns') = Len(conns) /\ Len(conns) \in Nat
        BY <1>2, <1>3, <1>4, OneChanges
  <2>2. <<>> \in Seq(1..loads')
        OBVIOUS
  <2> QED BY <1>1, <2>1, <2>2 DEF NoReport, Reporting, ReportTyped
<1>6. /\ Scripts' /\ Types' /\ Logins' /\ DOMAIN conns' = DOMAIN conns
      /\ \A d \in DOMAIN conns : conns'[d] = IF d = c THEN r ELSE conns[d]
      BY <1>1, <1>2, <1>3, <1>4, <1>5, IoKeeps
<1>7. ReportKept'
      BY <1>5 DEF ReportKept
<1>8. /\ \A d \in DOMAIN conns : d # c => (Reported(d)' <=> Reported(d)) /\ conns'[d] = conns[d]
      /\ conns'[c] = r
  <2>1. \A d \in DOMAIN conns : d # 0
        BY <1>0 DEF ConnsOK
  <2> QED BY <1>2, <1>5, <1>6, <2>1 DEF Reported
\* What it has heard when it is over.
<1>9. r.newest # 0 /\ ~r.disturbed => r.newest = loads /\ r.heard = ElementsOf(hooks)
  <2>1. ElementsOf(<<>>) = {}
        BY DEF ElementsOf
  <2>2. conns[c].newest # 0 /\ ~conns[c].disturbed =>
           /\ conns[c].newest = loads
           /\ conns[c].heard \cup ElementsOf(report.left) = ElementsOf(hooks)
        BY <1>0, <1>1 DEF Reports, HeardSoFar
  <2> QED BY <1>1, <1>3, <2>1, <2>2
<1>10. loads # 0 => \A d \in DOMAIN conns :
           Reported(d)' /\ conns'[d].newest = loads /\ ~conns'[d].disturbed =>
              conns'[d].heard = ElementsOf(hooks)
  <2>1. \A d \in DOMAIN conns :
           Reported(d) /\ conns[d].newest = loads /\ loads # 0 /\ ~conns[d].disturbed =>
              conns[d].heard = ElementsOf(hooks)
        BY <1>0 DEF Reports, HeardSoFar
  <2> QED BY <1>8, <1>9, <2>1
<1>11. AllHeard'
  <2>1. \A d \in DOMAIN conns : d # c => (Plain(d)' <=> Plain(d)) /\ conns'[d] = conns[d]
        BY <1>8 DEF Plain
  <2>2. ASSUME Plain(c)' PROVE /\ conns'[c].newest = loads /\ loads # 0
                               /\ conns'[c].heard = ElementsOf(hooks)
                               /\ ElementsOf(hooks) \subseteq {loads}
    <3>1. r.newest # 0 /\ ~r.disturbed
          BY <1>8, <2>2 DEF Plain
    <3>2. hooks = <<>> \/ hooks = <<loads>>
          BY <1>0 DEF Scripts, ScriptInPhase
    <3>3. ElementsOf(hooks) \subseteq {loads}
          BY <3>2 DEF ElementsOf
    <3> QED BY <1>8, <1>9, <3>1, <3>3
  <2>3. ASSUME NEW d \in DOMAIN conns, Plain(d)', conns'[d].newest = loads, loads # 0
        PROVE  conns'[d].heard = ElementsOf(hooks)
        BY <1>10, <2>3 DEF Plain
  <2>4. ASSUME NEW d \in DOMAIN conns, Plain(d)'
        PROVE  conns'[d].heard \subseteq {conns'[d].newest}
        BY <1>0, <2>1, <2>2, <2>4 DEF Reports, AllHeard
  <2>5. ASSUME NEW d \in DOMAIN conns, Plain(d)', NEW e \in DOMAIN conns, Plain(e)',
               conns'[d].newest = conns'[e].newest
        PROVE  conns'[d].heard = conns'[e].heard
    <3>1. CASE d = c \/ e = c
          BY <2>2, <2>3, <2>5, <3>1
    <3>2. CASE d # c /\ e # c
          BY <1>0, <2>1, <2>5, <3>2 DEF Reports, AllHeard
    <3> QED BY <3>1, <3>2
  <2> QED BY <1>6, <2>4, <2>5 DEF AllHeard
<1>12. HeardSoFar'
  <2>1. \A d \in DOMAIN conns :
           /\ conns[d].phase \in {"offline", "challenge"} /\ report.conn # d
                 => conns[d].heard = {}
           /\ script \in {"main", "none"} => conns[d].newest # loads
        BY <1>0 DEF Reports, HeardSoFar
  <2>2. r.phase \notin {"offline", "challenge"}
        BY <1>3
  <2>3. \A d \in DOMAIN conns :
           /\ conns'[d].phase \in {"offline", "challenge"} => conns'[d].heard = {}
           /\ script \in {"main", "none"} => conns'[d].newest # loads
        BY <1>3, <1>8, <2>1, <2>2
  <2> QED BY <1>1, <1>5, <1>6, <1>10, <2>3 DEF HeardSoFar
<1> QED BY <1>6, <1>7, <1>11, <1>12, PartsAre, PTL DEF Reports

\* The proof arrives, or the connection ends; what was heard stays as it was
\* (NovusConnection.cpp:275-289).
LEMMA ProceedInv ==
    ASSUME ClientInv, NEW c \in DOMAIN conns, Proceed(c) PROVE ClientInv'
<1>0. Scripts /\ Types /\ Logins /\ Reports /\ ConnsOK /\ conns[c] \in Connections
      BY PartsAre, PartsTyped DEF ConnsOK
<1> PICK r \in Connections :
        /\ conns' = [conns EXCEPT ![c] = r]
        /\ r.heard = conns[c].heard /\ r.newest = conns[c].newest
        /\ r.disturbed = conns[c].disturbed /\ r.overlapped = conns[c].overlapped
        /\ conns[c].phase \in {"challenge", "proof", "authed"}
        /\ \/ r.phase = "ended"
           \/ r.phase = "authed" /\ conns[c].phase = "proof"
  <2>1. CASE /\ conns[c].phase = "proof"
             /\ conns' = [conns EXCEPT ![c].phase = "authed", ![c].proved = TRUE]
    <3> DEFINE r == [conns[c] EXCEPT !.phase = "authed", !.proved = TRUE]
    <3>1. conns' = [conns EXCEPT ![c] = r] /\ r \in Connections
          BY <1>0, <2>1 DEF Connections
    <3> QED BY <1>0, <2>1, <3>1 DEF Connections
  <2>2. CASE /\ conns[c].phase \in {"challenge", "proof", "authed"}
             /\ conns' = [conns EXCEPT ![c].phase = "ended"]
    <3> DEFINE r == [conns[c] EXCEPT !.phase = "ended"]
    <3>1. conns' = [conns EXCEPT ![c] = r] /\ r \in Connections
          BY <1>0, <2>2 DEF Connections
    <3> QED BY <1>0, <2>2, <3>1 DEF Connections
  <2> QED BY <2>1, <2>2 DEF Proceed
<1>1. UNCHANGED <<vars, loads, script, hooks, login, list, report>> /\ ~Reporting
      BY DEF Proceed
<1>2. ReportTyped'
  <2>1. Len(conns') = Len(conns)
        BY <1>0, OneChanges DEF Types, ConnsTyped
  <2> QED BY <1>0, <1>1, <2>1 DEF ReportTyped, Types
<1>3. /\ Scripts' /\ Types' /\ Logins' /\ DOMAIN conns' = DOMAIN conns
      /\ \A d \in DOMAIN conns : conns'[d] = IF d = c THEN r ELSE conns[d]
      BY <1>1, <1>2, IoKeeps
<1>4. ~Reporting' /\ ReportKept'
      BY <1>0, <1>1 DEF Reports, ReportKept, Reporting
<1>5. \A d \in DOMAIN conns :
          /\ (Reported(d)' => Reported(d)) /\ (Plain(d)' => Plain(d))
          /\ conns'[d].heard = conns[d].heard /\ conns'[d].newest = conns[d].newest
          /\ conns'[d].disturbed = conns[d].disturbed
          /\ conns'[d].phase \in {"offline", "challenge"} => conns'[d].phase = conns[d].phase
  <2>1. CASE Reported(c)' => Reported(c)
        BY <1>1, <1>3, <2>1 DEF Reported, Plain
  <2>2. Reported(c)' => Reported(c)
        BY <1>1, <1>3 DEF Reported
  <2> QED BY <2>1, <2>2
<1>6. AllHeard'
      BY <1>0, <1>3, <1>5 DEF Reports, AllHeard
<1>7. HeardSoFar'
      BY <1>0, <1>1, <1>3, <1>4, <1>5 DEF Reports, HeardSoFar
<1> QED BY <1>3, <1>4, <1>6, <1>7, PartsAre, PTL DEF Reports

(***************************************************************************)
(* The logins of the two threads.                                          *)
(***************************************************************************)

\* A login leaves the scripts and the loads alone (PacketFunctions.h:11-18).
LEMMA LoginKeepsScripts ==
    ASSUME Scripts, UNCHANGED <<vars, loads, script, hooks>>
    PROVE  Scripts'
BY DEF Scripts, ScriptTyped, LinesCounted, Due, LoadCovered, Taken, ScriptInPhase, vars

\* Start() connects or fails: the connection was offline and is nobody else's
\* (NovusConnection.cpp:42-74).
LEMMA StartReturnsInv ==
    ASSUME ClientInv, NEW t \in Threads, StartReturns(t) PROVE ClientInv'
<1>0. Scripts /\ Types /\ Logins /\ Reports /\ ConnsOK
      BY PartsAre, PartsTyped
<1> PICK k : k = login[t].conn
    OBVIOUS
<1> PICK to \in {"offline", "challenge"} : conns' = [conns EXCEPT ![k].phase = to]
    BY DEF StartReturns
<1> DEFINE r == [conns[k] EXCEPT !.phase = to]
<1>1. /\ login[t].at = "start" /\ login' = [login EXCEPT ![t].at = "register"]
      /\ UNCHANGED <<vars, loads, script, hooks, list, report>>
      BY DEF StartReturns
<1>2. k \in DOMAIN conns /\ conns[k] \in Connections /\ conns[k].phase = "offline"
      BY <1>0, <1>1 DEF Logins, LoginsApart, ConnsOK
<1>3. /\ conns' = [conns EXCEPT ![k] = r] /\ r \in Connections
      /\ r.heard = conns[k].heard /\ r.newest = conns[k].newest
      /\ r.disturbed = conns[k].disturbed /\ r.overlapped = conns[k].overlapped
      /\ r.phase \in {"offline", "challenge"}
      BY <1>2 DEF Connections
<1> HIDE DEF r
<1>4. /\ conns' \in Seq(Connections) /\ Len(conns') = Len(conns)
      /\ DOMAIN conns' = DOMAIN conns
      /\ \A d \in DOMAIN conns : conns'[d] = IF d = k THEN r ELSE conns[d]
      BY <1>0, <1>2, <1>3, OneChanges DEF Types, ConnsTyped
<1>5. /\ \A u \in Threads : /\ login'[u].conn = login[u].conn
                            /\ login'[u].seen = login[u].seen
                            /\ u # t => login'[u].at = login[u].at
      /\ login'[t].at = "register"
      BY <1>0, <1>1 DEF Types, LoginTyped
<1>6. Types'
  <2>1. Connections' = Connections
        BY <1>1 DEF Connections
  <2>2. LoginTyped'
    <3>1. \A u \in Threads : [login[u] EXCEPT !.at = "register"] \in
             [at : {"none", "start", "register", "push"},
              conn : 0..Len(conns), seen : Seq(1..Len(conns))]
          BY <1>0 DEF Types, LoginTyped
    <3>2. login' = [login EXCEPT ![t] = [login[t] EXCEPT !.at = "register"]]
          BY <1>1
    <3> QED BY <1>0, <1>4, <3>1, <3>2 DEF Types, LoginTyped
  <2> QED BY <1>0, <1>1, <1>4, <2>1, <2>2 DEF Types, ConnsTyped, ListTyped, ReportTyped
<1>7. Logins'
  <2>1. \A u \in Threads : login[u].at = "start" /\ u # t => login[u].conn # k
        BY <1>0, <1>1 DEF Logins, LoginsApart
  <2>2. \A u \in Threads : login[u].at = "start" => login[u].conn \in DOMAIN conns
        BY <1>0 DEF Logins, LoginsApart, ConnsOK
  <2>3. ASSUME NEW u \in Threads, login'[u].at = "start"
        PROVE  conns'[login'[u].conn].phase = "offline"
        BY <1>0, <1>4, <1>5, <2>1, <2>2, <2>3 DEF Logins, LoginsApart
  <2>4. LoginsApart'
        BY <1>0, <1>1, <1>5, <2>3 DEF Logins, LoginsApart
  <2>5. \A d \in DOMAIN conns : conns'[d].overlapped = conns[d].overlapped
        BY <1>3, <1>4
  <2>6. SeenKeepsAll' /\ ListKeepsAll'
        BY <1>0, <1>1, <1>4, <1>5, <2>5, ListKept DEF Logins
  <2> QED BY <2>4, <2>6 DEF Logins
<1>8. ReportKept'
  <2>1. Reporting => report.conn # k /\ report.conn \in DOMAIN conns
        BY <1>0, <1>2 DEF Reports, ReportKept, ConnsOK
  <2> QED BY <1>0, <1>1, <1>4, <2>1 DEF Reports, ReportKept, Reporting
<1>9. HeardSoFar' /\ AllHeard'
  <2>1. \A d \in DOMAIN conns :
          /\ conns'[d].heard = conns[d].heard /\ conns'[d].newest = conns[d].newest
          /\ conns'[d].disturbed = conns[d].disturbed
          /\ conns'[d].phase = conns[d].phase
             \/ (conns[d].phase = "offline" /\ conns'[d].phase = "challenge")
        BY <1>2, <1>3, <1>4
  <2> QED BY <1>0, <1>1, <1>4, <2>1, HeardKept DEF Reports
<1>10. Scripts'
      BY <1>0, <1>1, LoginKeepsScripts
<1> QED BY <1>6, <1>7, <1>8, <1>9, <1>10, PartsAre, PTL DEF Reports

\* push_back reads the vector, which has every connection but those that are
\* being logged in; whoever is in push_back then knows of the other
\* (ScriptEngine.cpp:33-36).
LEMMA BeginRegisterInv ==
    ASSUME ClientInv, NEW t \in Threads, BeginRegister(t) PROVE ClientInv'
<1>0. Scripts /\ Types /\ Logins /\ Reports /\ ConnsOK
      BY PartsAre, PartsTyped
<1> DEFINE others == {u \in Threads \ {t} : login[u].at = "push"}
           mark(c) == others # {} /\ \E u \in Threads : login[u].conn = c
           r(c) == [conns[c] EXCEPT !.overlapped = @ \/ mark(c)]
<1>1. /\ login[t].at = "register"
      /\ login' = [login EXCEPT ![t].at = "push", ![t].seen = list]
      /\ conns' = [c \in DOMAIN conns |-> r(c)]
      /\ UNCHANGED <<vars, loads, script, hooks, list, report>>
      BY DEF BeginRegister
<1>2. \A c \in DOMAIN conns :
         /\ r(c) \in Connections /\ r(c).heard = conns[c].heard
         /\ r(c).newest = conns[c].newest /\ r(c).disturbed = conns[c].disturbed
         /\ r(c).phase = conns[c].phase
         /\ r(c).overlapped = (conns[c].overlapped \/ mark(c))
  <2> SUFFICES ASSUME NEW c \in DOMAIN conns
               PROVE  /\ r(c) \in Connections /\ r(c).heard = conns[c].heard
                      /\ r(c).newest = conns[c].newest /\ r(c).disturbed = conns[c].disturbed
                      /\ r(c).phase = conns[c].phase
                      /\ r(c).overlapped = (conns[c].overlapped \/ mark(c))
      OBVIOUS
  <2>1. conns[c] \in Connections
        BY <1>0 DEF ConnsOK
  <2>2. ASSUME NEW b \in BOOLEAN
        PROVE  LET x == [conns[c] EXCEPT !.overlapped = b] IN
               /\ x \in Connections /\ x.heard = conns[c].heard
               /\ x.newest = conns[c].newest /\ x.disturbed = conns[c].disturbed
               /\ x.phase = conns[c].phase /\ x.overlapped = b
        BY <2>1 DEF Connections
  <2>3. (conns[c].overlapped \/ mark(c)) \in BOOLEAN
        OBVIOUS
  <2> HIDE DEF mark
  <2> QED BY <2>2, <2>3, Zenon
<1> HIDE DEF r
<1>3. /\ conns' \in Seq(Connections) /\ Len(conns') = Len(conns)
      /\ DOMAIN conns' = DOMAIN conns /\ \A c \in DOMAIN conns : conns'[c] = r(c)
  <2>1. DOMAIN conns = 1..Len(conns) /\ Len(conns) \in Nat
        BY <1>0 DEF ConnsOK
  <2>2. conns' \in [1..Len(conns) -> Connections]
        BY <1>1, <1>2, <2>1
  <2> QED BY <1>1, <2>1, <2>2
<1>4. /\ \A u \in Threads : /\ login'[u].conn = login[u].conn
                            /\ u # t => login'[u] = login[u]
      /\ login'[t].at = "push" /\ login'[t].seen = list
      BY <1>0, <1>1 DEF Types, LoginTyped
<1>5. Types'
  <2>1. Connections' = Connections
        BY <1>1 DEF Connections
  <2>2. LoginTyped'
    <3> DEFINE L == [at : {"none", "start", "register", "push"},
                     conn : 0..Len(conns), seen : Seq(1..Len(conns))]
    <3>1. login \in [Threads -> L] /\ list \in Seq(1..Len(conns))
          BY <1>0 DEF Types, LoginTyped, ListTyped
    <3>2. [login[t] EXCEPT !.at = "push", !.seen = list] \in L
          BY <3>1
    <3> HIDE DEF L
    <3>3. login' \in [Threads -> L]
          BY <1>1, <3>1, <3>2
    <3> QED BY <1>3, <3>3 DEF LoginTyped, L
  <2>3. ListTyped' /\ ReportTyped'
        BY <1>0, <1>1, <1>3 DEF Types, ListTyped, ReportTyped
  <2>4. ConnsTyped'
        BY <1>0, <1>1, <1>3, <2>1 DEF Types, ConnsTyped
  <2> QED BY <2>2, <2>3, <2>4 DEF Types
<1>6. \A c \in DOMAIN conns :
         /\ conns'[c].heard = conns[c].heard /\ conns'[c].newest = conns[c].newest
         /\ conns'[c].disturbed = conns[c].disturbed /\ conns'[c].phase = conns[c].phase
         /\ conns[c].overlapped => conns'[c].overlapped
         /\ mark(c) => conns'[c].overlapped
      BY <1>2, <1>3, Zenon
<1>7. LoginsApart'
  <2>1. \A u \in Threads : login[u].at = "start" => login[u].conn \in DOMAIN conns
        BY <1>0 DEF Logins, LoginsApart, ConnsOK
  <2>2. \A u \in Threads : (login'[u].at = "none") <=> (login[u].at = "none")
        BY <1>1, <1>4
  <2> QED BY <1>0, <1>4, <1>6, <2>1, <2>2 DEF Logins, LoginsApart
<1>8. ListKeepsAll'
  <2>1. ASSUME NEW c \in DOMAIN conns
        PROVE  \/ \E u \in Threads : login'[u].conn = c
               \/ conns'[c].overlapped
               \/ Cardinality({i \in DOMAIN list : list[i] = c}) = 1
        BY <1>0, <1>4, <1>6 DEF Logins, ListKeepsAll
  <2> QED BY <1>1, <1>3, <2>1 DEF ListKeepsAll
<1>9. SeenKeepsAll'
  <2>1. ASSUME NEW v \in Threads, login'[v].conn # 0
        PROVE  /\ login'[v].conn \notin ElementsOf(list')
               /\ \A u \in Threads : login'[v].conn \notin ElementsOf(login'[u].seen)
    <3>1. login[v].conn \notin ElementsOf(list)
          /\ \A u \in Threads : login[v].conn \notin ElementsOf(login[u].seen)
          BY <1>0, <1>4, <2>1 DEF Logins, SeenKeepsAll
    <3> QED BY <1>1, <1>4, <3>1
  <2>2. ASSUME NEW v \in Threads, login'[v].at = "push",
               NEW u \in Threads \ {v}, login'[u].at = "push"
        PROVE  conns'[login'[v].conn].overlapped
    <3>1. login[v].conn \in DOMAIN conns
      <4>1. login[v].at # "none"
            BY <1>1, <1>4, <2>2
      <4> QED BY <1>0, <4>1 DEF Logins, LoginsApart, ConnsOK
    <3>2. others # {}
          BY <1>4, <2>2 DEF Threads
    <3>3. mark(login[v].conn)
          BY <3>2
    <3> QED BY <1>4, <1>6, <3>1, <3>3
  <2>3. ASSUME NEW v \in Threads, login'[v].at = "push", NEW c \in DOMAIN conns
        PROVE  \/ \E u \in Threads : login'[u].conn = c
               \/ conns'[c].overlapped
               \/ Cardinality({i \in DOMAIN login'[v].seen : login'[v].seen[i] = c}) = 1
    <3>1. CASE v = t
          BY <1>0, <1>4, <1>6, <3>1 DEF Logins, ListKeepsAll
    <3>2. CASE v # t
          BY <1>0, <1>4, <1>6, <2>3, <3>2 DEF Logins, SeenKeepsAll
    <3> QED BY <3>1, <3>2
  <2> QED BY <1>3, <2>1, <2>2, <2>3 DEF SeenKeepsAll
<1>10. ReportKept'
      BY <1>0, <1>1, <1>6 DEF Reports, ReportKept, Reporting, ConnsOK
<1>11. HeardSoFar' /\ AllHeard'
      BY <1>0, <1>1, <1>3, <1>6, HeardKept DEF Reports
<1>12. Scripts'
      BY <1>0, <1>1, LoginKeepsScripts
<1> QED BY <1>5, <1>7, <1>8, <1>9, <1>10, <1>11, <1>12, PartsAre, PTL DEF Reports, Logins

\* A connection is made: it is nowhere yet, and has heard nothing
\* (PacketFunctions.h:15).
LEMMA BeginLoginInv ==
    ASSUME ClientInv, NEW t \in Threads, BeginLogin(t) PROVE ClientInv'
<1>0. Scripts /\ Types /\ Logins /\ Reports /\ ConnsOK
      BY PartsAre, PartsTyped
<1> PICK n : n = Len(conns)
    OBVIOUS
<1> DEFINE r == [phase |-> "offline", proved |-> FALSE, heard |-> {}, newest |-> 0,
                 disturbed |-> FALSE, overlapped |-> FALSE]
<1>1. /\ login[t].at = "none" /\ conns' = Append(conns, r)
      /\ login' = [login EXCEPT ![t] = [@ EXCEPT !.at = "start", !.conn = n + 1]]
      /\ UNCHANGED <<vars, loads, script, hooks, list, report>>
      BY DEF BeginLogin, InScript
<1>2. /\ r \in Connections /\ r.heard = {} /\ r.newest = 0 /\ r.phase = "offline"
  <2>1. 0 \in 0..loads
        BY <1>0 DEF ConnsOK
  <2> QED BY <2>1 DEF Connections
<1> HIDE DEF r
<1>3. /\ n \in Nat /\ DOMAIN conns = 1..n /\ conns' \in Seq(Connections)
      /\ Len(conns') = n + 1 /\ DOMAIN conns' = 1..n + 1
      /\ \A c \in 1..n : conns'[c] = conns[c]
      /\ conns'[n + 1] = r
  <2>1. conns \in Seq(Connections)
        BY <1>0 DEF Types, ConnsTyped
  <2> QED BY <1>1, <1>2, <2>1, LastIn
<1>4. 1..n \subseteq 1..n + 1 /\ 0..n \subseteq 0..n + 1 /\ n + 1 \in 0..n + 1 /\ n + 1 # 0
      /\ n + 1 \notin 0..n
      BY <1>3
<1>5. /\ \A u \in Threads : u # t => login'[u] = login[u]
      /\ login'[t].at = "start" /\ login'[t].conn = n + 1 /\ login'[t].seen = login[t].seen
      /\ login[t].conn = 0
      BY <1>0, <1>1 DEF Types, LoginTyped, Logins, LoginsApart
<1>6. /\ list \in Seq(1..n) /\ report.conn \in 0..n
      /\ \A u \in Threads : login[u].conn \in 0..n /\ login[u].seen \in Seq(1..n)
      BY <1>0 DEF Types, ListTyped, LoginTyped, ReportTyped
<1>7. Types'
  <2>1. Connections' = Connections
        BY <1>1 DEF Connections
  <2>2. ListTyped'
        BY <1>1, <1>3, <1>4, <1>6, Wider DEF ListTyped
  <2>3. LoginTyped'
    <3> DEFINE L == [at : {"none", "start", "register", "push"},
                     conn : 0..n + 1, seen : Seq(1..n + 1)]
    <3>1. \A u \in Threads : login[u].seen \in Seq(1..n + 1)
          BY <1>4, <1>6, Wider
    <3>2. login \in [Threads -> L]
      <4>1. \A u \in Threads : login[u] \in L
        <5> SUFFICES ASSUME NEW u \in Threads PROVE login[u] \in L
            OBVIOUS
        <5>1. login[u] \in [at : {"none", "start", "register", "push"},
                            conn : 0..n, seen : Seq(1..n)]
              BY <1>0 DEF Types, LoginTyped
        <5> QED BY <1>4, <3>1, <5>1
      <4> QED BY <1>0, <4>1 DEF Types, LoginTyped
    <3>3. [login[t] EXCEPT !.at = "start", !.conn = n + 1] \in L
          BY <1>4, <3>2
    <3> HIDE DEF L
    <3>4. login' \in [Threads -> L]
          BY <1>1, <3>2, <3>3
    <3> QED BY <1>3, <3>4 DEF LoginTyped, L
  <2>4. ReportTyped'
        BY <1>0, <1>1, <1>3, <1>4 DEF Types, ReportTyped
  <2> QED BY <1>3, <2>1, <2>2, <2>3, <2>4 DEF Types, ConnsTyped
<1>8. LoginsApart'
  <2>1. ASSUME NEW u \in Threads
        PROVE  /\ (login'[u].at = "none") <=> (login'[u].conn = 0)
               /\ login'[u].at = "start" => conns'[login'[u].conn].phase = "offline"
               /\ login'[u].conn # 0 =>
                     \A v \in Threads \ {u} : login'[v].conn # login'[u].conn
    <3>1. CASE u = t
      <4>1. login'[t].conn = n + 1 /\ login'[t].at = "start" /\ n + 1 # 0
            BY <1>4, <1>5
      <4>2. conns'[n + 1].phase = "offline"
            BY <1>2, <1>3
      <4>3. \A v \in Threads \ {t} : login'[v].conn # n + 1
            BY <1>4, <1>5, <1>6
      <4> QED BY <3>1, <4>1, <4>2, <4>3
    <3>2. CASE u # t
      <4>1. /\ (login[u].at = "none") <=> (login[u].conn = 0)
            /\ login[u].at = "start" => conns[login[u].conn].phase = "offline"
            /\ login[u].conn # 0 =>
                  \A v \in Threads \ {u} : login[v].conn # login[u].conn
            BY <1>0 DEF Logins, LoginsApart
      <4>2. login[u].conn # 0 => login[u].conn \in 1..n
            BY <1>3, <1>6
      <4>3. login'[u] = login[u] /\ login[u].conn # n + 1
            BY <1>4, <1>5, <1>6, <3>2
      <4>4. login[u].at = "start" => conns'[login[u].conn].phase = "offline"
            BY <1>3, <4>1, <4>2
      <4>5. ASSUME login[u].conn # 0, NEW v \in Threads \ {u}
            PROVE  login'[v].conn # login[u].conn
            BY <1>5, <4>1, <4>3, <4>5
      <4> QED BY <4>1, <4>3, <4>4, <4>5
    <3> QED BY <3>1, <3>2
  <2> QED BY <2>1 DEF LoginsApart
<1>9. n + 1 \notin ElementsOf(list) /\ \A u \in Threads : n + 1 \notin ElementsOf(login[u].seen)
  <2>1. ASSUME NEW q \in Seq(1..n) PROVE n + 1 \notin ElementsOf(q)
    <3>1. \A i \in DOMAIN q : q[i] \in 1..n
          BY <2>1, ElementOfSeq
    <3> QED BY <1>3, <3>1 DEF ElementsOf
  <2> QED BY <1>6, <2>1
<1>10. \A u \in Threads : login'[u].seen = login[u].seen
       /\ (login'[u].at = "push" <=> login[u].at = "push" /\ u # t)
       BY <1>1, <1>5
<1>11. SeenKeepsAll'
  <2>1. ASSUME NEW u \in Threads, login'[u].conn # 0
        PROVE  /\ login'[u].conn \notin ElementsOf(list)
               /\ \A v \in Threads : login'[u].conn \notin ElementsOf(login'[v].seen)
    <3>1. CASE u = t
          BY <1>5, <1>9, <1>10, <3>1
    <3>2. CASE u # t
          BY <1>0, <1>5, <1>10, <2>1, <3>2 DEF Logins, SeenKeepsAll
    <3> QED BY <3>1, <3>2
  <2>2. ASSUME NEW u \in Threads, login'[u].at = "push",
               NEW v \in Threads \ {u}, login'[v].at = "push"
        PROVE  conns'[login'[u].conn].overlapped
        BY <1>10, <2>2 DEF Threads
  <2>3. ASSUME NEW u \in Threads, login'[u].at = "push", NEW c \in 1..n + 1
        PROVE  \/ \E v \in Threads : login'[v].conn = c
               \/ conns'[c].overlapped
               \/ Cardinality({i \in DOMAIN login'[u].seen : login'[u].seen[i] = c}) = 1
    <3>1. CASE c = n + 1
          BY <1>5, <3>1
    <3>2. CASE c # n + 1
      <4>1. c \in 1..n
            BY <1>3, <2>3, <3>2
      <4>2. \/ \E v \in Threads : login[v].conn = c
            \/ conns[c].overlapped
            \/ Cardinality({i \in DOMAIN login[u].seen : login[u].seen[i] = c}) = 1
            BY <1>0, <1>3, <1>10, <2>3, <4>1 DEF Logins, SeenKeepsAll
      <4>3. \A v \in Threads : login[v].conn = c => login'[v].conn = c
            BY <1>5, <4>1
      <4> QED BY <1>3, <1>10, <4>1, <4>2, <4>3
    <3> QED BY <3>1, <3>2
  <2>4. list' = list
        BY <1>1
  <2> QED BY <1>3, <2>1, <2>2, <2>3, <2>4 DEF SeenKeepsAll
<1>12. ListKeepsAll'
  <2>1. ASSUME NEW c \in 1..n + 1
        PROVE  \/ \E v \in Threads : login'[v].conn = c
               \/ conns'[c].overlapped
               \/ Cardinality({i \in DOMAIN list : list[i] = c}) = 1
    <3>1. CASE c = n + 1
          BY <1>5, <3>1
    <3>2. CASE c # n + 1
      <4>1. c \in 1..n
            BY <1>3, <2>1, <3>2
      <4>2. \/ \E v \in Threads : login[v].conn = c
            \/ conns[c].overlapped
            \/ Cardinality({i \in DOMAIN list : list[i] = c}) = 1
            BY <1>0, <1>3, <4>1 DEF Logins, ListKeepsAll
      <4>3. \A v \in Threads : login[v].conn = c => login'[v].conn = c
            BY <1>5, <4>1
      <4> QED BY <1>3, <4>1, <4>2, <4>3
    <3> QED BY <3>1, <3>2
  <2>2. list' = list
        BY <1>1
  <2> QED BY <1>3, <2>1, <2>2 DEF ListKeepsAll
<1>13. ReportKept' /\ (Reporting' <=> Reporting) /\ (Reporting => report.conn \in 1..n)
       BY <1>0, <1>1, <1>3, <1>6 DEF Reports, ReportKept, Reporting
<1>14. /\ \A c \in 1..n : (Reported(c)' <=> Reported(c)) /\ (Plain(c)' <=> Plain(c))
       /\ ~Reported(n + 1)' /\ ~Plain(n + 1)'
       BY <1>1, <1>2, <1>3 DEF Reported, Plain
<1>15. \A c \in DOMAIN conns' : c = n + 1 \/ c \in 1..n
       BY <1>3
<1>16. AllHeard'
  <2>1. \A c \in DOMAIN conns' : Plain(c)' => c \in 1..n /\ Plain(c) /\ conns'[c] = conns[c]
        BY <1>3, <1>14, <1>15
  <2> QED BY <1>0, <1>3, <2>1 DEF Reports, AllHeard
<1>17. HeardSoFar'
  <2>1. script \in {"main", "none"} => loads # 0
        BY <1>0 DEF Scripts, ScriptInPhase
  <2>2. \A c \in DOMAIN conns' :
          /\ conns'[c].phase \in {"offline", "challenge"} /\ report.conn # c
                => conns'[c].heard = {}
          /\ script \in {"main", "none"} => conns'[c].newest # loads
          /\ Reported(c)' /\ conns'[c].newest = loads /\ loads # 0 /\ ~conns'[c].disturbed =>
                conns'[c].heard = ElementsOf(hooks)
    <3>1. ASSUME NEW c \in 1..n
          PROVE  /\ conns[c].phase \in {"offline", "challenge"} /\ report.conn # c
                       => conns[c].heard = {}
                 /\ script \in {"main", "none"} => conns[c].newest # loads
                 /\ Reported(c) /\ conns[c].newest = loads /\ loads # 0
                    /\ ~conns[c].disturbed => conns[c].heard = ElementsOf(hooks)
          BY <1>0, <1>3 DEF Reports, HeardSoFar
    <3>2. conns'[n + 1].heard = {} /\ conns'[n + 1].newest = 0
          BY <1>2, <1>3
    <3> QED BY <1>3, <1>14, <1>15, <2>1, <3>1, <3>2
  <2>3. Reporting => conns'[report.conn] = conns[report.conn]
        BY <1>3, <1>13
  <2> QED BY <1>0, <1>1, <1>13, <2>2, <2>3 DEF Reports, HeardSoFar
<1>18. Scripts'
       BY <1>0, <1>1, LoginKeepsScripts
<1> QED BY <1>7, <1>8, <1>11, <1>12, <1>13, <1>16, <1>17, <1>18, PartsAre, PTL
    DEF Reports, Logins

\* Where an element of the list stands.
Places(q, c) == {i \in DOMAIN q : q[i] = c}

\* push_back puts one element behind the others (ScriptEngine.cpp:35).
LEMMA OnePlaceMore ==
    ASSUME NEW S, NEW q \in Seq(S), NEW x \in S, NEW c
    PROVE  /\ c # x => Places(Append(q, x), c) = Places(q, c)
           /\ x \notin ElementsOf(q) => Cardinality(Places(Append(q, x), x)) = 1
           /\ ElementsOf(Append(q, x)) \subseteq ElementsOf(q) \cup {x}
<1> DEFINE n == Len(q)
           r == Append(q, x)
<1>1. /\ n \in Nat /\ DOMAIN q = 1..n /\ DOMAIN r = 1..n + 1
      /\ \A i \in 1..n : r[i] = q[i]
      /\ r[n + 1] = x
      BY LastIn
<1> HIDE DEF n, r
<1>2. \A i \in 1..n + 1 : i \in 1..n \/ i = n + 1
      BY <1>1
<1>3. 1..n \subseteq 1..n + 1 /\ n + 1 \in 1..n + 1 /\ n + 1 \notin 1..n
      BY <1>1
<1>4. c # x => Places(r, c) = Places(q, c)
      BY <1>1, <1>2, <1>3 DEF Places
<1>5. x \notin ElementsOf(q) => Places(r, x) = {n + 1}
      BY <1>1, <1>2, <1>3 DEF Places, ElementsOf
<1>6. x \notin ElementsOf(q) => Cardinality(Places(r, x)) = 1
      BY <1>5, FS_Singleton
<1>7. ElementsOf(r) \subseteq ElementsOf(q) \cup {x}
      BY <1>1, <1>2 DEF ElementsOf
<1> QED BY <1>4, <1>6, <1>7 DEF r

\* push_back writes the vector: all that this thread has seen, and its own
\* connection.  Whoever read it before is in push_back too, and both know it
\* (ScriptEngine.cpp:33-36).
LEMMA EndRegisterInv ==
    ASSUME ClientInv, NEW t \in Threads, EndRegister(t) PROVE ClientInv'
<1>0. Scripts /\ Types /\ Logins /\ Reports /\ ConnsOK
      BY PartsAre, PartsTyped
<1> PICK k, q : k = login[t].conn /\ q = login[t].seen
    OBVIOUS
<1>1. /\ login[t].at = "push" /\ list' = Append(q, k)
      /\ login' = [login EXCEPT ![t] = NotLoggingIn]
      /\ UNCHANGED <<vars, loads, script, hooks, conns, report>>
      BY DEF EndRegister
<1>2. k \in DOMAIN conns /\ k # 0 /\ DOMAIN conns = 1..Len(conns)
      BY <1>0, <1>1 DEF Logins, LoginsApart, ConnsOK
<1>3. q \in Seq(1..Len(conns))
      BY <1>0 DEF Types, LoginTyped
<1>4. k \notin ElementsOf(q)
      BY <1>0, <1>2 DEF Logins, SeenKeepsAll
<1>5. /\ \A u \in Threads : u # t => login'[u] = login[u]
      /\ login'[t] = NotLoggingIn /\ login'[t].at = "none" /\ login'[t].conn = 0
      /\ login'[t].seen = <<>>
      BY <1>0, <1>1 DEF Types, LoginTyped, NotLoggingIn
<1>6. Types'
  <2>1. Connections' = Connections
        BY <1>1 DEF Connections
  <2>2. ListTyped'
        BY <1>1, <1>2, <1>3, LastIn DEF ListTyped
  <2>3. LoginTyped'
    <3>1. NotLoggingIn \in [at : {"none", "start", "register", "push"},
                            conn : 0..Len(conns), seen : Seq(1..Len(conns))]
      <4>1. <<>> \in Seq(1..Len(conns)) /\ 0 \in 0..Len(conns)
            BY <1>0 DEF ConnsOK
      <4> QED BY <4>1 DEF NotLoggingIn
    <3> QED BY <1>0, <1>1, <3>1 DEF Types, LoginTyped
  <2> QED BY <1>0, <1>1, <2>1, <2>2, <2>3 DEF Types, ConnsTyped, ReportTyped
<1>7. LoginsApart'
  <2>1. ASSUME NEW u \in Threads
        PROVE  /\ (login'[u].at = "none") <=> (login'[u].conn = 0)
               /\ login'[u].at = "start" => conns'[login'[u].conn].phase = "offline"
               /\ login'[u].conn # 0 =>
                     \A v \in Threads \ {u} : login'[v].conn # login'[u].conn
    <3>1. CASE u = t
          BY <1>5, <3>1
    <3>2. CASE u # t
          BY <1>0, <1>1, <1>5, <3>2 DEF Logins, LoginsApart
    <3> QED BY <3>1, <3>2
  <2> QED BY <2>1 DEF LoginsApart
<1>8. /\ \A c : c # k => Places(list', c) = Places(q, c)
      /\ Cardinality(Places(list', k)) = 1
      /\ ElementsOf(list') \subseteq ElementsOf(q) \cup {k}
  <2>1. k \in 1..Len(conns)
        BY <1>2
  <2>2. \A c : /\ c # k => Places(Append(q, k), c) = Places(q, c)
               /\ Cardinality(Places(Append(q, k), k)) = 1
               /\ ElementsOf(Append(q, k)) \subseteq ElementsOf(q) \cup {k}
    <3> DEFINE S == 1..Len(conns)
    <3>1. q \in Seq(S) /\ k \in S
          BY <1>3, <2>1
    <3> HIDE DEF S
    <3> SUFFICES ASSUME NEW c
                 PROVE  /\ c # k => Places(Append(q, k), c) = Places(q, c)
                        /\ Cardinality(Places(Append(q, k), k)) = 1
                        /\ ElementsOf(Append(q, k)) \subseteq ElementsOf(q) \cup {k}
        OBVIOUS
    <3> QED BY <1>4, <3>1, OnePlaceMore
  <2> QED BY <1>1, <2>2, Zenon
<1>9. ListKeepsAll'
  <2>1. ASSUME NEW c \in DOMAIN conns
        PROVE  \/ \E u \in Threads : login'[u].conn = c
               \/ conns[c].overlapped
               \/ Cardinality(Places(list', c)) = 1
    <3>1. CASE c = k
          BY <1>8, <3>1
    <3>2. CASE c # k
      <4>1. \/ \E u \in Threads : login[u].conn = c
            \/ conns[c].overlapped
            \/ Cardinality(Places(q, c)) = 1
            BY <1>0, <1>1 DEF Logins, SeenKeepsAll, Places
      <4>2. \A u \in Threads : login[u].conn = c => login'[u].conn = c
            BY <1>5, <3>2
      <4> QED BY <1>8, <3>2, <4>1, <4>2
    <3> QED BY <3>1, <3>2
  <2> QED BY <1>1, <2>1 DEF ListKeepsAll, Places
<1>10. SeenKeepsAll'
  <2>1. ASSUME NEW u \in Threads, login'[u].conn # 0
        PROVE  /\ login'[u].conn \notin ElementsOf(list')
               /\ \A v \in Threads : login'[u].conn \notin ElementsOf(login'[v].seen)
    <3>1. u # t /\ login'[u] = login[u] /\ login[u].conn # k
          BY <1>0, <1>5, <2>1 DEF Logins, LoginsApart
    <3>2. \A v \in Threads : login[u].conn \notin ElementsOf(login[v].seen)
          BY <1>0, <2>1, <3>1 DEF Logins, SeenKeepsAll
    <3>3. login[u].conn \notin ElementsOf(<<>>)
          BY DEF ElementsOf
    <3> QED BY <1>5, <1>8, <3>1, <3>2, <3>3
  <2>2. ASSUME NEW u \in Threads, login'[u].at = "push",
               NEW v \in Threads \ {u}, login'[v].at = "push"
        PROVE  conns'[login'[u].conn].overlapped
        BY <1>5, <2>2 DEF Threads
  <2>3. ASSUME NEW u \in Threads, login'[u].at = "push", NEW c \in DOMAIN conns
        PROVE  \/ \E v \in Threads : login'[v].conn = c
               \/ conns[c].overlapped
               \/ Cardinality({i \in DOMAIN login'[u].seen : login'[u].seen[i] = c}) = 1
    <3>1. u # t /\ login'[u] = login[u]
          BY <1>5, <2>3
    <3>2. conns[k].overlapped
          BY <1>0, <1>1, <2>3, <3>1 DEF Logins, SeenKeepsAll
    <3>3. \/ \E v \in Threads : login[v].conn = c
          \/ conns[c].overlapped
          \/ Cardinality({i \in DOMAIN login[u].seen : login[u].seen[i] = c}) = 1
          BY <1>0, <2>3, <3>1 DEF Logins, SeenKeepsAll
    <3>4. \A v \in Threads : login[v].conn = c => login'[v].conn = c \/ c = k
          BY <1>5
    <3> QED BY <3>1, <3>2, <3>3, <3>4
  <2> QED BY <1>1, <2>1, <2>2, <2>3 DEF SeenKeepsAll
<1>11. ReportKept'
       BY <1>0, <1>1 DEF Reports, ReportKept, Reporting
<1>12. HeardSoFar' /\ AllHeard'
       BY <1>0, <1>1, HeardKept DEF Reports
<1>13. Scripts'
       BY <1>0, <1>1, LoginKeepsScripts
<1> QED BY <1>6, <1>7, <1>9, <1>10, <1>11, <1>12, <1>13, PartsAre, PTL DEF Reports, Logins

(***************************************************************************)
(* The theorems.                                                           *)
(***************************************************************************)

\* Every step of the threads, the user and the server keeps the invariant.
LEMMA ClientNextInv ==
    ASSUME ClientInv, LifeInv, [ClientNext]_clientVars PROVE ClientInv'
<1>0. [Next]_vars
      BY StepImplementsLifecycle
<1>1. CASE Outside \/ PlainTick \/ ClientThrows \/ UNCHANGED clientVars
  <2>1. UNCHANGED <<loads, script, hooks, conns, login, list, report>>
        BY <1>1 DEF Outside, PlainTick, ClientThrows, clientVars
  <2>2. CASE Outside
    <3>1. tick' = tick
          BY <2>2 DEF Outside, Main, User, ReadAtEnd, PrintMessage, ExitConfirmed, Drained,
             NoLine, HandleLine, HandleBroken, StopIoService, Return, TypeLine, EndInput
    <3> QED BY <1>0, <2>1, <3>1, LifeStepInv
  <2>3. CASE PlainTick
    <3>1. {tick, tick'} \cap {"loading", "reloading"} = {}
          BY <2>3 DEF PlainTick, ServePing, ServeExit, Sleep, NextTick, ConfirmExit, Take
    <3> QED BY <1>0, <2>1, <3>1, LifeStepInv
  <2>4. CASE ClientThrows \/ UNCHANGED clientVars
    <3>1. tick' = tick
          BY <2>4 DEF ClientThrows, ThreadThrows, clientVars, vars
    <3> QED BY <1>0, <2>1, <3>1, LifeStepInv
  <2> QED BY <1>1, <2>2, <2>3, <2>4
<1>2. ASSUME NEW t \in Threads, SendLoginChallenge(t) PROVE ClientInv'
      BY <1>2, BeginLoginInv, StartReturnsInv, BeginRegisterInv, EndRegisterInv
      DEF SendLoginChallenge
<1>3. CASE ScriptTick
      BY <1>2, <1>3, LoadsScriptInv, RegisterCallbackInv, LoadOverInv, ReloadDueInv
      DEF ScriptTick, Threads
<1>4. CASE ScriptIo
      BY <1>2, <1>4, RunCallbackInv, CallbackReturnsInv, EndReportInv DEF ScriptIo, Threads
<1>5. CASE ServerIo
      BY <1>5, BeginReportInv, ProceedInv DEF ServerIo
<1> QED BY <1>1, <1>3, <1>4, <1>5 DEF ClientNext

\* How the logins of two threads, the reports and the loads stand to each other,
\* for any number of lines and logins (ScriptHandler.cpp:27-142,
\* PacketHooks.h:29-79, ScriptEngine.cpp:33-36).
THEOREM ClientInvariance == ClientSpec => []ClientInv
<1>1. ClientSpec => []LifeInv
      BY ClientImplementsLifecycle, LifeInvariance, PTL
<1>2. LifeInv /\ ClientInv /\ [ClientNext]_clientVars => ClientInv'
      BY ClientNextInv
<1> QED BY <1>1, <1>2, ClientInitInv, PTL DEF ClientSpec

\* Every variable of scripts, logins and reports keeps its type; there are never
\* more loads than lines and one.
THEOREM ClientTypeCorrect == ClientSpec => []ClientTypeOK
<1>1. ClientInv => ClientTypeOK
      BY DEF ClientInv
<1> QED BY <1>1, ClientInvariance, PTL

\* A login is reported to the callbacks of the newest load and to no other, and
\* two logins of one load to the same (ScriptHandler.cpp:27-36, PacketHooks.h:32).
THEOREM HeardByCurrentHolds == ClientSpec => []HeardByCurrent
<1>1. ClientInv => HeardByCurrent
      BY DEF ClientInv
<1> QED BY <1>1, ClientInvariance, PTL

\* The list of connections has each once, but those whose push_back met one of
\* the other thread (ScriptEngine.cpp:33-36).
THEOREM ListKeepsAllHolds == ClientSpec => []ListKeepsAll
<1>1. ClientInv => ListKeepsAll
      BY DEF ClientInv
<1> QED BY <1>1, ClientInvariance, PTL

\* A step that keeps phase and proof of every connection is none of LoginProtocol's.
LEMMA LoginStutters ==
    ASSUME DOMAIN conns' = DOMAIN conns, NEW c,
           \A d \in DOMAIN conns : /\ conns'[d].phase = conns[d].phase
                                   /\ conns'[d].proved = conns[d].proved
    PROVE  UNCHANGED Login(c)!vars
BY DEF Login!vars

\* A step of the whole client is, for each connection, one step of the login or none.
LEMMA StepKeepsToLogin ==
    ASSUME ClientInv, [ClientNext]_clientVars, NEW c \in 1..MaxLogins
    PROVE  [Login(c)!Next]_(Login(c)!vars)
<1>0. Logins /\ Reports /\ ConnsOK /\ conns \in Seq(Connections)
      BY PartsAre, PartsTyped DEF Types, ConnsTyped
<1>1. CASE conns' = conns
      BY <1>1, LoginStutters
<1>2. ASSUME NEW k \in DOMAIN conns, NEW r, conns' = [conns EXCEPT ![k] = r],
             \/ r.phase = conns[k].phase /\ r.proved = conns[k].proved
             \/ /\ conns[k].phase = "offline" /\ r.phase = "challenge"
                /\ r.proved = conns[k].proved
             \/ conns[k].phase = "challenge" /\ r.phase = "proof" /\ r.proved = conns[k].proved
             \/ conns[k].phase = "proof" /\ r.phase = "authed" /\ r.proved = TRUE
             \/ /\ conns[k].phase \in {"challenge", "proof", "authed"}
                /\ r.phase = "ended" /\ r.proved = conns[k].proved
      PROVE  [Login(c)!Next]_(Login(c)!vars)
  <2>1. DOMAIN conns' = DOMAIN conns
        BY <1>2
  <2>2. \A d \in DOMAIN conns : conns'[d] = IF d = k THEN r ELSE conns[d]
        BY <1>2
  <2>3. CASE c = k
        BY <1>2, <2>1, <2>2, <2>3
        DEF Login!Next, Login!vars, Login!Connect, Login!Challenged, Login!Authenticate, Login!End
  <2>4. CASE c # k
        BY <2>1, <2>2, <2>4 DEF Login!vars
  <2> QED BY <2>3, <2>4
<1>3. ASSUME NEW t \in Threads, SendLoginChallenge(t) PROVE [Login(c)!Next]_(Login(c)!vars)
  <2>1. CASE BeginLogin(t)
    <3> PICK n : n = Len(conns)
        OBVIOUS
    <3> DEFINE r == [phase |-> "offline", proved |-> FALSE, heard |-> {}, newest |-> 0,
                     disturbed |-> FALSE, overlapped |-> FALSE]
    <3>0. conns' = Append(conns, r) /\ r.phase = "offline" /\ r.proved = FALSE
          BY <2>1 DEF BeginLogin
    <3> HIDE DEF r
    <3>1. /\ DOMAIN conns = 1..n /\ DOMAIN conns' = 1..n + 1 /\ n \in Nat
          /\ conns'[n + 1] = r /\ \A d \in 1..n : conns'[d] = conns[d]
          BY <1>0, <3>0
    <3>2. c \in 1..n + 1 <=> c \in 1..n \/ c = n + 1
          BY <3>1
    <3>3. n + 1 \notin 1..n
          BY <3>1
    <3> QED BY <3>0, <3>1, <3>2, <3>3 DEF Login!vars
  <2>2. CASE StartReturns(t)
    <3>1. /\ login[t].conn \in DOMAIN conns /\ conns[login[t].conn].phase = "offline"
          /\ conns[login[t].conn] \in Connections
          BY <1>0, <2>2 DEF StartReturns, Logins, LoginsApart, ConnsOK
    <3> PICK k \in DOMAIN conns : k = login[t].conn
        BY <3>1
    <3> PICK to \in {"offline", "challenge"} : conns' = [conns EXCEPT ![k].phase = to]
        BY <2>2 DEF StartReturns
    <3> DEFINE r == [conns[k] EXCEPT !.phase = to]
    <3>2. conns' = [conns EXCEPT ![k] = r] /\ r.phase = to /\ r.proved = conns[k].proved
          BY <3>1 DEF Connections
    <3> HIDE DEF r
    <3>3. /\ conns[k].phase = "offline" /\ r.proved = conns[k].proved
          /\ (r.phase = "offline" \/ r.phase = "challenge")
          BY <3>1, <3>2
    <3>4. \/ r.phase = conns[k].phase /\ r.proved = conns[k].proved
          \/ conns[k].phase = "offline" /\ r.phase = "challenge" /\ r.proved = conns[k].proved
          BY <3>3
    <3> QED BY <1>2, <3>2, <3>4
  <2>3. CASE BeginRegister(t)
    <3>1. DOMAIN conns' = DOMAIN conns
          BY <2>3 DEF BeginRegister
    <3>2. \A d \in DOMAIN conns : conns'[d].phase = conns[d].phase
                                  /\ conns'[d].proved = conns[d].proved
          BY <1>0, <2>3 DEF BeginRegister, ConnsOK, Connections
    <3> QED BY <3>1, <3>2, LoginStutters
  <2>4. CASE EndRegister(t)
        BY <1>1, <2>4 DEF EndRegister
  <2> QED BY <1>3, <2>1, <2>2, <2>3, <2>4 DEF SendLoginChallenge
<1>4. ASSUME NEW new, ChangeHooks(new) PROVE [Login(c)!Next]_(Login(c)!vars)
  <2>1. CASE Reporting
    <3>1. report.conn \in DOMAIN conns /\ conns[report.conn] \in Connections
          BY <1>0, <2>1 DEF ConnsOK
    <3> PICK k \in DOMAIN conns : k = report.conn
        BY <3>1
    <3>2. LET r == [conns[k] EXCEPT !.disturbed = TRUE] IN
          /\ conns' = [conns EXCEPT ![k] = r]
          /\ r.phase = conns[k].phase /\ r.proved = conns[k].proved
          BY <1>4, <2>1, <3>1 DEF ChangeHooks, Connections
    <3> QED BY <1>2, <3>2
  <2> QED BY <1>1, <1>4, <2>1 DEF ChangeHooks
<1>5. CASE ScriptTick
      BY <1>1, <1>3, <1>4, <1>5 DEF ScriptTick, Threads, LoadsScript, LoadScript,
         RegisterPacketCallback, LoadOver, ReloadDue
<1>6. CASE RunCallback \/ EndReport
  <2>1. Reporting
        BY <1>6 DEF RunCallback, EndReport
  <2> PICK k \in DOMAIN conns : k = report.conn
      BY <1>0, <2>1 DEF ConnsOK
  <2>2. conns[k] \in Connections
        BY <1>0 DEF ConnsOK
  <2>3. CASE RunCallback
    <3>1. LET r == [conns[k] EXCEPT !.heard = @ \cup {Head(report.left)}] IN
          /\ conns' = [conns EXCEPT ![k] = r]
          /\ r.phase = conns[k].phase /\ r.proved = conns[k].proved
          BY <2>2, <2>3 DEF RunCallback, Connections
    <3> QED BY <1>2, <3>1
  <2>4. CASE EndReport /\ report.refused
    <3>1. LET r == [conns[k] EXCEPT !.phase = "ended"] IN
          /\ conns' = [conns EXCEPT ![k] = r]
          /\ r.phase = "ended" /\ r.proved = conns[k].proved
          BY <2>2, <2>4 DEF EndReport, Connections
    <3>2. conns[k].phase = "challenge"
          BY <1>0, <2>1, <2>4 DEF Reports, ReportKept
    <3> QED BY <1>2, <3>1, <3>2
  <2>5. CASE EndReport /\ ~report.refused
        BY <1>1, <2>5 DEF EndReport
  <2> QED BY <1>6, <2>3, <2>4, <2>5
<1>7. CASE ScriptIo
      BY <1>1, <1>3, <1>6, <1>7 DEF ScriptIo, Threads, CallbackReturns
<1>8. ASSUME NEW k \in DOMAIN conns, BeginReport(k) PROVE [Login(c)!Next]_(Login(c)!vars)
  <2>1. conns[k] \in Connections /\ conns[k].phase = "challenge"
        BY <1>0, <1>8 DEF ConnsOK, BeginReport, AwaitsChallenge
  <2> SUFFICES ASSUME NEW refused \in BOOLEAN, NEW m,
                      conns' = [conns EXCEPT ![k].phase = IF refused THEN @ ELSE "proof",
                                             ![k].newest = m]
               PROVE  [Login(c)!Next]_(Login(c)!vars)
      BY <1>8 DEF BeginReport
  <2> DEFINE r == [conns[k] EXCEPT !.phase = IF refused THEN @ ELSE "proof", !.newest = m]
  <2>2. conns' = [conns EXCEPT ![k] = r]
        OBVIOUS
  <2>3. r.proved = conns[k].proved /\ r.phase = IF refused THEN "challenge" ELSE "proof"
    <3>1. CASE refused
          BY <2>1, <3>1 DEF Connections
    <3>2. CASE ~refused
          BY <2>1, <3>2 DEF Connections
    <3> QED BY <3>1, <3>2
  <2> HIDE DEF r
  <2> QED BY <1>2, <2>1, <2>2, <2>3
<1>9. ASSUME NEW k \in DOMAIN conns, Proceed(k) PROVE [Login(c)!Next]_(Login(c)!vars)
  <2>1. conns[k] \in Connections
        BY <1>0 DEF ConnsOK
  <2>2. CASE /\ conns[k].phase = "proof"
             /\ conns' = [conns EXCEPT ![k].phase = "authed", ![k].proved = TRUE]
    <3>1. LET r == [conns[k] EXCEPT !.phase = "authed", !.proved = TRUE] IN
          conns' = [conns EXCEPT ![k] = r] /\ r.phase = "authed" /\ r.proved = TRUE
          BY <2>1, <2>2 DEF Connections
    <3> QED BY <1>2, <2>2, <3>1
  <2>3. CASE /\ conns[k].phase \in {"challenge", "proof", "authed"}
             /\ conns' = [conns EXCEPT ![k].phase = "ended"]
    <3>1. LET r == [conns[k] EXCEPT !.phase = "ended"] IN
          conns' = [conns EXCEPT ![k] = r] /\ r.phase = "ended" /\ r.proved = conns[k].proved
          BY <2>1, <2>3 DEF Connections
    <3> QED BY <1>2, <2>3, <3>1
  <2> QED BY <1>9, <2>2, <2>3 DEF Proceed
<1>10. CASE Outside \/ PlainTick \/ ClientThrows \/ UNCHANGED clientVars
       BY <1>1, <1>10 DEF Outside, PlainTick, ClientThrows, clientVars
<1> QED BY <1>5, <1>7, <1>8, <1>9, <1>10 DEF ClientNext, ServerIo

\* Each connection passes through the phases of LoginProtocol, whichever thread
\* made it and whatever the scripts do (NovusConnection.cpp:42-289).
THEOREM LoginsImplementedHolds == ClientSpec => LoginsImplemented
<1>1. ASSUME ClientInit, NEW c \in 1..MaxLogins PROVE Login(c)!Init
      BY <1>1 DEF ClientInit, Login!Init
<1>2. ClientInit => \A c \in 1..MaxLogins : Login(c)!Init
      BY <1>1
<1>3. ClientInv /\ [ClientNext]_clientVars =>
          [\A c \in 1..MaxLogins : [Login(c)!Next]_(Login(c)!vars)]_clientVars
      BY StepKeepsToLogin
<1> QED BY <1>2, <1>3, ClientInvariance, PTL DEF ClientSpec, LoginsImplemented

(***************************************************************************)
(* The client keeps to its scripts what HookReports promises.              *)
(***************************************************************************)

\* Nobody logs in before the first load.
LoadedFirst == loads = 0 => conns = <<>>

\* One connection changes, and is disturbed no more and no less for it.
LEMMA OneUndisturbed ==
    ASSUME NEW k \in DOMAIN conns, NEW r, conns' = [conns EXCEPT ![k] = r],
           r.disturbed = conns[k].disturbed
    PROVE  Disturbed' <=> Disturbed
<1>1. /\ DOMAIN conns' = DOMAIN conns
      /\ \A c \in DOMAIN conns : conns'[c].disturbed = conns[c].disturbed
      OBVIOUS
<1> QED BY <1>1 DEF Disturbed

\* A login is not a change of the hooks (PacketFunctions.h:11-18, ScriptEngine.cpp:33-36).
LEMMA LoginUndisturbed ==
    ASSUME ClientInv, NEW t \in Threads, SendLoginChallenge(t)
    PROVE  Disturbed' <=> Disturbed
<1>0. Logins /\ ConnsOK /\ conns \in Seq(Connections)
      BY PartsAre, PartsTyped DEF Types, ConnsTyped
<1>1. CASE BeginLogin(t)
  <2> PICK n : n = Len(conns)
      OBVIOUS
  <2> DEFINE r == [phase |-> "offline", proved |-> FALSE, heard |-> {}, newest |-> 0,
                   disturbed |-> FALSE, overlapped |-> FALSE]
  <2>1. conns' = Append(conns, r) /\ r.disturbed = FALSE
        BY <1>1 DEF BeginLogin
  <2> HIDE DEF r
  <2>2. /\ DOMAIN conns = 1..n /\ DOMAIN conns' = 1..n + 1 /\ n \in Nat
        /\ conns'[n + 1] = r /\ \A d \in 1..n : conns'[d] = conns[d]
        BY <1>0, <2>1
  <2>3. \A c : c \in 1..n + 1 <=> c \in 1..n \/ c = n + 1
        BY <2>2
  <2> QED BY <2>1, <2>2, <2>3 DEF Disturbed
<1>2. CASE StartReturns(t)
  <2>1. login[t].conn \in DOMAIN conns /\ conns[login[t].conn] \in Connections
        BY <1>0, <1>2 DEF StartReturns, Logins, LoginsApart, ConnsOK
  <2> PICK k \in DOMAIN conns : k = login[t].conn
      BY <2>1
  <2> PICK to \in {"offline", "challenge"} : conns' = [conns EXCEPT ![k].phase = to]
      BY <1>2 DEF StartReturns
  <2>2. LET r == [conns[k] EXCEPT !.phase = to] IN
        conns' = [conns EXCEPT ![k] = r] /\ r.disturbed = conns[k].disturbed
        BY <2>1 DEF Connections
  <2> QED BY <2>2, OneUndisturbed
<1>3. CASE BeginRegister(t)
  <2>1. DOMAIN conns' = DOMAIN conns
        BY <1>3 DEF BeginRegister
  <2>2. \A d \in DOMAIN conns : conns'[d].disturbed = conns[d].disturbed
        BY <1>0, <1>3 DEF BeginRegister, ConnsOK, Connections
  <2> QED BY <2>1, <2>2 DEF Disturbed
<1>4. CASE EndRegister(t)
      BY <1>4 DEF EndRegister, Disturbed
<1> QED BY <1>1, <1>2, <1>3, <1>4 DEF SendLoginChallenge

\* Nor is a report or what the server does (PacketHooks.h:29-79).
LEMMA ReportUndisturbed ==
    ASSUME ClientInv, RunCallback \/ CallbackReturns \/ EndReport \/ ServerIo
    PROVE  Disturbed' <=> Disturbed
<1>0. ConnsOK
      BY PartsAre, PartsTyped
<1>1. CASE conns' = conns
      BY <1>1 DEF Disturbed
<1>2. CASE RunCallback \/ EndReport
  <2>1. Reporting
        BY <1>2 DEF RunCallback, EndReport
  <2> PICK k \in DOMAIN conns : k = report.conn
      BY <1>0, <2>1 DEF ConnsOK
  <2>2. conns[k] \in Connections
        BY <1>0 DEF ConnsOK
  <2>3. CASE RunCallback
    <3>1. LET r == [conns[k] EXCEPT !.heard = @ \cup {Head(report.left)}] IN
          conns' = [conns EXCEPT ![k] = r] /\ r.disturbed = conns[k].disturbed
          BY <2>2, <2>3 DEF RunCallback, Connections
    <3> QED BY <3>1, OneUndisturbed
  <2>4. CASE EndReport /\ report.refused
    <3>1. LET r == [conns[k] EXCEPT !.phase = "ended"] IN
          conns' = [conns EXCEPT ![k] = r] /\ r.disturbed = conns[k].disturbed
          BY <2>2, <2>4 DEF EndReport, Connections
    <3> QED BY <3>1, OneUndisturbed
  <2>5. CASE EndReport /\ ~report.refused
        BY <1>1, <2>5 DEF EndReport
  <2> QED BY <1>2, <2>3, <2>4, <2>5
<1>3. ASSUME NEW k \in DOMAIN conns, BeginReport(k) PROVE Disturbed' <=> Disturbed
  <2>1. conns[k] \in Connections
        BY <1>0 DEF ConnsOK
  <2> SUFFICES ASSUME NEW refused \in BOOLEAN, NEW m,
                      conns' = [conns EXCEPT ![k].phase = IF refused THEN @ ELSE "proof",
                                             ![k].newest = m]
               PROVE  Disturbed' <=> Disturbed
      BY <1>3 DEF BeginReport
  <2>2. LET r == [conns[k] EXCEPT !.phase = IF refused THEN @ ELSE "proof", !.newest = m] IN
        conns' = [conns EXCEPT ![k] = r] /\ r.disturbed = conns[k].disturbed
        BY <2>1 DEF Connections
  <2> QED BY <2>2, OneUndisturbed
<1>4. ASSUME NEW k \in DOMAIN conns, Proceed(k) PROVE Disturbed' <=> Disturbed
  <2>1. conns[k] \in Connections
        BY <1>0 DEF ConnsOK
  <2>2. CASE conns' = [conns EXCEPT ![k].phase = "authed", ![k].proved = TRUE]
    <3>1. LET r == [conns[k] EXCEPT !.phase = "authed", !.proved = TRUE] IN
          conns' = [conns EXCEPT ![k] = r] /\ r.disturbed = conns[k].disturbed
          BY <2>1, <2>2 DEF Connections
    <3> QED BY <3>1, OneUndisturbed
  <2>3. CASE conns' = [conns EXCEPT ![k].phase = "ended"]
    <3>1. LET r == [conns[k] EXCEPT !.phase = "ended"] IN
          conns' = [conns EXCEPT ![k] = r] /\ r.disturbed = conns[k].disturbed
          BY <2>1, <2>3 DEF Connections
    <3> QED BY <3>1, OneUndisturbed
  <2> QED BY <1>4, <2>2, <2>3 DEF Proceed
<1> QED BY <1>1, <1>2, <1>3, <1>4 DEF CallbackReturns, ServerIo

\* A step that the scripts do not see: it moves neither loads nor hooks nor the report.
LEMMA HookStutters ==
    ASSUME UNCHANGED <<loads, hooks, report>>, Disturbed' <=> Disturbed
    PROVE  [Hook!Next]_(Hook!vars)
<1>1. Disturbed' = Disturbed
      BY DEF Disturbed
<1> QED BY <1>1 DEF Hook!vars, Newest, RunsNow, Reporting

\* A change of the hooks is a promised one between the reports and breaks the promise
\* during one (PacketHooks.h:19-22, 81-91, ScriptHandler.cpp:27-36).
LEMMA HooksChangeReports ==
    ASSUME ClientInv, LoadedFirst, LoadsScript \/ RegisterPacketCallback
    PROVE  [Hook!Next]_(Hook!vars)
<1>0. Scripts /\ Types /\ Reports /\ ConnsOK /\ loads \in Nat
      BY PartsAre, PartsTyped DEF ConnsOK
<1>1. /\ LoadsScript => hooks' = <<>> /\ loads' = loads + 1
      /\ RegisterPacketCallback => /\ hooks' = Append(hooks, loads) /\ loads' = loads
                                   /\ script = "main"
      /\ report' = report /\ ChangeHooks(hooks')
      BY DEF LoadsScript, LoadScript, RegisterPacketCallback, ChangeHooks, InScript
<1>2. loads' \in Nat /\ loads' >= loads
      BY <1>0, <1>1
<1>3. /\ DOMAIN conns' = DOMAIN conns
      /\ \A c \in DOMAIN conns : conns[c].disturbed => conns'[c].disturbed
      /\ Reporting => conns'[report.conn].disturbed
      BY <1>0, <1>1, <1>2, HooksChange
<1>4. Disturbed => Disturbed'
      BY <1>3 DEF Disturbed
<1>5. RegisterPacketCallback => hooks' # hooks /\ loads # 0
  <2>1. RegisterPacketCallback => loads > 0
        BY <1>0, <1>1 DEF Scripts, ScriptInPhase
  <2>2. hooks \in Seq(1..loads)
        BY <1>0 DEF Scripts, ScriptTyped
  <2>3. Len(Append(hooks, loads)) = Len(hooks) + 1 /\ Len(hooks) \in Nat
        BY <2>2
  <2>4. Append(hooks, loads) # hooks
        BY <2>3
  <2> QED BY <1>0, <1>1, <2>1, <2>4
<1>6. CASE Disturbed
      BY <1>4, <1>6 DEF Hook!Next
<1>7. CASE ~Disturbed /\ Reporting
  <2>1. report.conn \in DOMAIN conns
        BY <1>0, <1>7 DEF ConnsOK
  <2>2. Disturbed' /\ Reporting'
        BY <1>1, <1>3, <1>7, <2>1 DEF Disturbed, Reporting
  <2>3. hooks' # hooks \/ ~(Newest \subseteq Newest')
    <3>1. CASE LoadsScript
      <4>1. loads # 0
            BY <1>0, <2>1 DEF LoadedFirst
      <4> QED BY <1>0, <1>1, <3>1, <4>1 DEF Newest
    <3> QED BY <1>5, <3>1
  <2> QED BY <1>7, <2>2, <2>3 DEF Hook!Next, Hook!Break
<1>8. CASE ~Disturbed /\ ~Reporting
  <2>1. conns' = conns
        BY <1>1, <1>8 DEF ChangeHooks
  <2>2. ~Disturbed' /\ Reporting' = Reporting /\ RunsNow' = RunsNow
        BY <1>1, <1>8, <2>1 DEF Disturbed, Reporting, RunsNow
  <2>3. CASE LoadsScript
    <3>1. Newest' \cap Newest = {}
          BY <1>0, <1>1, <2>3 DEF Newest
    <3>2. Hook!Reload
          BY <1>1, <1>8, <2>2, <2>3, <3>1 DEF Hook!Reload
    <3> QED BY <1>8, <2>2, <3>2 DEF Hook!Next, Hook!Kept
  <2>4. CASE RegisterPacketCallback
    <3>1. loads \in Newest /\ Newest' = Newest
          BY <1>1, <1>5, <2>4 DEF Newest
    <3>2. Hook!Register
          BY <1>1, <1>8, <2>2, <2>4, <3>1 DEF Hook!Register, Hook!MayChange
    <3> QED BY <1>8, <2>2, <3>2 DEF Hook!Next, Hook!Kept
  <2> QED BY <2>3, <2>4
<1> QED BY <1>6, <1>7, <1>8

\* A report begins with what is hooked, runs it in order and ends when it is through
\* (PacketHooks.h:29-79).
LEMMA ReportKeeps ==
    ASSUME ClientInv, Disturbed' <=> Disturbed,
           \/ \E c \in DOMAIN conns : BeginReport(c)
           \/ RunCallback \/ CallbackReturns \/ EndReport
    PROVE  [Hook!Next]_(Hook!vars)
<1>0. Reports /\ report.left \in Seq(1..loads) /\ report \in [conn : 0..Len(conns),
          left : Seq(1..loads), running : BOOLEAN, refused : BOOLEAN]
      BY PartsAre DEF Types, ReportTyped
<1>1. CASE Disturbed
      BY <1>1 DEF Hook!Next
<1>2. CASE ~Disturbed
  <2>1. UNCHANGED <<loads, hooks, Newest>>
        BY DEF BeginReport, RunCallback, CallbackReturns, EndReport, Newest
  <2>2. report.running => Reporting /\ report.left # <<>> /\ RunsNow # 0
    <3>1. report.running => Reporting /\ report.left # <<>>
          BY <1>0 DEF Reports, ReportKept
    <3>2. report.left # <<>> => Head(report.left) \in 1..loads
          BY <1>0, HeadTailProperties
    <3>3. 0 \notin 1..loads
          OBVIOUS
    <3> QED BY <3>1, <3>2, <3>3 DEF RunsNow
  <2>3. ASSUME NEW c \in DOMAIN conns, BeginReport(c) PROVE Hook!Begin
    <3>1. /\ ~Reporting /\ report'.conn = c /\ report'.left = hooks /\ report'.running = FALSE
      <4>1. PICK refused \in BOOLEAN :
                report' = [conn |-> c, left |-> hooks, running |-> FALSE, refused |-> refused]
            BY <2>3, Zenon DEF BeginReport
      <4>2. ~Reporting
            BY <2>3, Zenon DEF BeginReport
      <4> QED BY <4>1, <4>2
    <3>2. ~report.running /\ c # 0
          BY <2>2, <3>1, PartsAre, PartsTyped DEF ConnsOK
    <3>3. Reporting' /\ RunsNow' = 0 /\ RunsNow = 0
          BY <3>1, <3>2 DEF Reporting, RunsNow
    <3> QED BY <2>1, <3>1, <3>3 DEF Hook!Begin
  <2>4. CASE RunCallback
    <3>1. /\ Reporting /\ ~report.running /\ report.left # <<>>
          /\ report' = [report EXCEPT !.running = TRUE]
          BY <2>4 DEF RunCallback
    <3>2. report'.conn = report.conn /\ report'.left = report.left /\ report'.running
          BY <1>0, <3>1
    <3>3. Reporting' = Reporting /\ RunsNow = 0 /\ RunsNow' = Head(report.left)
          BY <3>1, <3>2 DEF Reporting, RunsNow
    <3>4. Hook!Call
          BY <2>1, <3>1, <3>2, <3>3 DEF Hook!Call, Hook!NoCallback
    <3> QED BY <1>2, <3>4 DEF Hook!Next, Hook!Kept
  <2>5. CASE CallbackReturns
    <3>1. /\ report.running
          /\ report' = [report EXCEPT !.running = FALSE, !.left = Tail(@)]
          BY <2>5 DEF CallbackReturns, InScript
    <3>2. report'.conn = report.conn /\ report'.left = Tail(report.left) /\ report'.running = FALSE
          BY <1>0, <3>1
    <3>3. Reporting' = Reporting /\ RunsNow' = 0
          BY <3>2 DEF Reporting, RunsNow
    <3>4. Hook!Return
          BY <2>1, <2>2, <3>1, <3>2, <3>3 DEF Hook!Return, Hook!NoCallback
    <3> QED BY <1>2, <3>4 DEF Hook!Next, Hook!Kept
  <2>6. CASE EndReport
    <3>1. Reporting /\ report.left = <<>> /\ report' = NoReport
          BY <2>6 DEF EndReport
    <3>2. report'.conn = 0 /\ report'.left = <<>> /\ report'.running = FALSE
          BY <3>1 DEF NoReport
    <3>3. ~Reporting' /\ RunsNow' = 0 /\ RunsNow = 0
          BY <2>2, <3>1, <3>2 DEF Reporting, RunsNow
    <3>4. Hook!End
          BY <2>1, <3>1, <3>2, <3>3 DEF Hook!End, Hook!NoCallback
    <3> QED BY <1>2, <3>4 DEF Hook!Next, Hook!Kept
  <2> QED BY <1>2, <2>3, <2>4, <2>5, <2>6 DEF Hook!Next, Hook!Kept
<1> QED BY <1>1, <1>2

\* A login is begun by a main() or by a callback that a login is reported to, so a
\* script has been loaded (PacketFunctions.h:11-18).
LEMMA LoadedFirstStep ==
    ASSUME ClientInv, LoadedFirst, [ClientNext]_clientVars
    PROVE  LoadedFirst'
<1>0. Scripts /\ Reports /\ ConnsOK /\ loads \in Nat
      BY PartsAre, PartsTyped DEF ConnsOK
<1>1. ASSUME NEW t \in Threads, BeginLogin(t) PROVE loads # 0
  <2>1. script = "main" \/ report.running
        BY <1>1 DEF BeginLogin, InScript
  <2>2. script = "main" => loads > 0
        BY <1>0 DEF Scripts, ScriptInPhase
  <2>3. report.running => report.conn \in DOMAIN conns
        BY <1>0 DEF Reports, ReportKept, ConnsOK
  <2>4. report.running => loads # 0
        BY <2>3 DEF LoadedFirst
  <2> QED BY <1>0, <2>1, <2>2, <2>4
<1>2. CASE loads' = 0
  <2>1. CASE loads = 0
    <3>1. conns = <<>> /\ DOMAIN conns = {}
          BY <2>1 DEF LoadedFirst
    <3>2. ~Reporting /\ \A t \in Threads : ~BeginLogin(t) /\ ~StartReturns(t) /\ ~BeginRegister(t)
      <4>1. ~Reporting /\ \A t \in Threads : login[t].conn = 0
            BY <1>0, <3>1 DEF ConnsOK
      <4>2. \A t \in Threads : login[t].at = "none"
            BY <4>1, PartsAre DEF Logins, LoginsApart
      <4> QED BY <1>1, <2>1, <4>1, <4>2 DEF StartReturns, BeginRegister
    <3>3. UNCHANGED conns
      <4>1. CASE ScriptTick
        <5>1. ~LoadsScript
              BY <1>0, <1>2, <2>1 DEF LoadsScript, LoadScript
        <5> QED BY <3>2, <4>1, <5>1 DEF ScriptTick, RegisterPacketCallback, ChangeHooks, LoadOver,
               ReloadDue, SendLoginChallenge, EndRegister, Threads
      <4>2. CASE ScriptIo
            BY <3>2, <4>2 DEF ScriptIo, RunCallback, CallbackReturns, EndReport,
               SendLoginChallenge, EndRegister, Threads
      <4>3. ~ServerIo
            BY <3>1 DEF ServerIo
      <4>4. CASE Outside \/ PlainTick \/ ClientThrows \/ UNCHANGED clientVars
            BY <4>4 DEF Outside, PlainTick, ClientThrows, clientVars
      <4> QED BY <4>1, <4>2, <4>3, <4>4 DEF ClientNext
    <3> QED BY <3>1, <3>3 DEF LoadedFirst
  <2>2. CASE loads # 0
    <3>1. UNCHANGED loads \/ LoadsScript
          BY DEF ClientNext, Outside, PlainTick, ScriptTick, ScriptIo, ServerIo, ClientThrows,
             clientVars, RegisterPacketCallback, LoadOver, ReloadDue, SendLoginChallenge, BeginLogin,
             StartReturns, BeginRegister, EndRegister, RunCallback, CallbackReturns, EndReport,
             BeginReport, Proceed
    <3>2. LoadsScript => loads' = loads + 1
          BY DEF LoadsScript, LoadScript
    <3> QED BY <1>0, <1>2, <2>2, <3>1, <3>2
  <2> QED BY <2>1, <2>2
<1> QED BY <1>2 DEF LoadedFirst

\* Every step of the client is one of HookReports, or none of it.
LEMMA HookStep ==
    ASSUME ClientInv, LoadedFirst, [ClientNext]_clientVars
    PROVE  [Hook!Next]_(Hook!vars)
<1>1. ASSUME NEW t \in Threads, SendLoginChallenge(t) PROVE [Hook!Next]_(Hook!vars)
  <2>1. UNCHANGED <<loads, hooks, report>>
        BY <1>1 DEF SendLoginChallenge, BeginLogin, StartReturns, BeginRegister, EndRegister
  <2> QED BY <1>1, <2>1, LoginUndisturbed, HookStutters
<1>2. CASE LoadsScript \/ RegisterPacketCallback
      BY <1>2, HooksChangeReports
<1>3. CASE LoadOver \/ ReloadDue \/ Outside \/ PlainTick \/ ClientThrows \/ UNCHANGED clientVars
  <2>1. UNCHANGED <<loads, hooks, report, conns>>
        BY <1>3 DEF LoadOver, ReloadDue, Outside, PlainTick, ClientThrows, clientVars
  <2>2. Disturbed' <=> Disturbed
        BY <2>1 DEF Disturbed
  <2> QED BY <2>1, <2>2, HookStutters
<1>4. CASE RunCallback \/ CallbackReturns \/ EndReport
      BY <1>4, ReportUndisturbed, ReportKeeps
<1>5. CASE ServerIo
  <2>1. Disturbed' <=> Disturbed
        BY <1>5, ReportUndisturbed
  <2>2. ASSUME NEW c \in DOMAIN conns, Proceed(c) PROVE [Hook!Next]_(Hook!vars)
    <3>1. UNCHANGED <<loads, hooks, report>>
          BY <2>2 DEF Proceed
    <3> QED BY <2>1, <3>1, HookStutters
  <2>3. CASE \E c \in DOMAIN conns : BeginReport(c)
        BY <2>1, <2>3, ReportKeeps
  <2> QED BY <1>5, <2>2, <2>3 DEF ServerIo
<1> QED BY <1>1, <1>2, <1>3, <1>4, <1>5 DEF ClientNext, ScriptTick, ScriptIo, Threads

\* The start: no script has been loaded, nothing is hooked or reported.
LEMMA HookInit == ClientInit => Hook!Init /\ LoadedFirst
BY DEF ClientInit, Hook!Init, Hook!NoCallback, LoadedFirst, Newest, RunsNow, Disturbed,
   Reporting, NoReport

\* With reloads, logins of both threads and the server's answers in any order, each
\* report runs the callbacks of the newest load, each once, until a reload or a
\* registration comes during one (PacketHooks.h:29-91, ScriptHandler.cpp:27-36).
THEOREM ClientKeepsReportsHolds == ClientSpec => ClientKeepsReports
<1>1. ClientInv /\ LoadedFirst /\ [ClientNext]_clientVars => LoadedFirst'
      BY LoadedFirstStep
<1>2. ClientInv /\ LoadedFirst /\ [ClientNext]_clientVars => [Hook!Next]_(Hook!vars)
      BY HookStep
<1> QED BY <1>1, <1>2, HookInit, ClientInvariance, PTL
    DEF ClientSpec, ClientKeepsReports, Hook!Spec
=============================================================================
