--------------------------- MODULE ClientLifecycle ---------------------------
(***************************************************************************)
(* The client's life from start to exit: main()'s loop over the console    *)
(* and the output queue (client/main.cpp), the commands it passes on       *)
(* (client/ConsoleCommands.h and ConsoleCommands/*.h) and the tick thread  *)
(* that serves them (client/ClientHandler.cpp).                            *)
(*                                                                         *)
(* Three threads: main, the tick thread, and the std::async thread that    *)
(* blocks in getline.  The two queues have one producer and one consumer   *)
(* each, so moodycamel's per-producer order is first in, first out.        *)
(***************************************************************************)
EXTENDS Integers, Sequences, FiniteSets

CONSTANT MaxLines \* lines the user types (bound)

ASSUME MaxLinesAssumption == MaxLines \in Nat

\* What a line from the console is to HandleCommand, in lower case:
\*   "quit"    the line is exactly that;
\*   "exit"    another line whose first word leads to QuitCommand ("quit now",
\*             or a word with the same 16-bit key: the map's keys are u16);
\*   "ping", "reload"  lead to PingCommand, and to ReloadCommand with scripts;
\*   "ignored" empty, or no command, or a reload of something else;
\*   "broken"  only blanks, or "reload" alone: element 0 of an empty vector.
Lines == {"quit", "exit", "ping", "reload", "ignored", "broken"}

\* The definitions called faults, here and below, are not part of the model:
\* each is a plausible mistake in the definition that follows it, and a run
\* whose model has the mistake must find a property violated.

\* Fault: a command passes a message that Update() has no case for.
PassesUnserved(l) == CASE l \in {"quit", "exit"}              -> <<"EXIT">>
                       [] l = "ping"                          -> <<"PING">>
                       [] l = "reload"                        -> <<"SET_CONNECTION">>
                       [] l \in {"ignored", "broken"}         -> <<>>

\* The messages a line makes the console thread pass to the tick thread.
Passes(l) == CASE l \in {"quit", "exit"}      -> <<"EXIT">>
               [] l = "ping"                  -> <<"PING">>
               [] l = "reload"                -> <<"RELOAD">>
               [] l \in {"ignored", "broken"} -> <<>>

VARIABLES
    main,    \* where main() stands
    line,    \* the future of GetLineFromCin: "reading", a line, or "none"
    typed,   \* how many lines the user has typed
    eof,     \* standard input has ended
    tick,    \* where the tick thread stands
    inputQ,  \* _inputQueue
    outputQ, \* _outputQueue
    passed,  \* every message passed to the tick thread, in order
    printed  \* how many messages main() has printed

mainVars == <<main, line, passed, printed>>
userVars == <<typed, eof>>
vars == <<main, line, typed, eof, tick, inputQ, outputQ, passed, printed>>

Init ==
    /\ main = "drain" /\ line = "reading"
    /\ typed = 0 /\ eof = FALSE
    /\ tick = "loading"
    /\ inputQ = <<>> /\ outputQ = <<>>
    /\ passed = <<>> /\ printed = 0

\* The process is there until main() has returned or a step has crashed it.
Running == main \notin {"terminated", "crashed"}

\* Fault: messages of a queue are taken in any order.
EnqueueFirst(q, m) == <<m>> \o q

\* Fault: a queue that takes a message only when it is empty.
EnqueueIfEmpty(q, m) == IF q = <<>> THEN <<m>> ELSE q

Enqueue(q, m) == Append(q, m)

-----------------------------------------------------------------------------
\* main()

\* A message to print: it is logged and its string deleted.
PrintMessage ==
    /\ main = "drain" /\ outputQ # <<>> /\ Head(outputQ) = "PRINT"
    /\ outputQ' = Tail(outputQ)
    /\ printed' = printed + 1
    /\ UNCHANGED <<main, line, userVars, tick, inputQ, passed>>

ExitConfirmed ==
    /\ main = "drain" /\ outputQ # <<>> /\ Head(outputQ) = "EXIT_CONFIRM"
    /\ outputQ' = Tail(outputQ)
    /\ main' = "stopping"
    /\ UNCHANGED <<line, userVars, tick, inputQ, passed, printed>>

Drained ==
    /\ main = "drain" /\ outputQ = <<>>
    /\ main' = "poll"
    /\ UNCHANGED <<line, userVars, tick, inputQ, outputQ, passed, printed>>

\* No line within 50 ms, or no future to wait for.
NoLine ==
    /\ main = "poll" /\ line \notin Lines
    /\ main' = "drain"
    /\ UNCHANGED <<line, userVars, tick, inputQ, outputQ, passed, printed>>

\* Fault: another line is read after every command.
ReadsAlways(l) == TRUE

\* Another line is asked for unless this one is exactly "quit".
ReadsOn(l) == l # "quit"

\* HandleCommand, and the next getline.
HandleLine ==
    /\ main = "poll" /\ line \in Lines
    /\ inputQ' = IF Passes(line) = <<>> THEN inputQ
                 ELSE Enqueue(inputQ, Passes(line)[1])
    /\ passed' = passed \o Passes(line)
    /\ line' = IF ReadsOn(line) THEN "reading" ELSE "none"
    /\ main' = "drain"
    /\ UNCHANGED <<userVars, tick, outputQ, printed>>

\* splitCommand[0] or subCommands[0] of an empty vector.
HandleBroken ==
    /\ main = "poll" /\ line = "broken"
    /\ main' = "crashed"
    /\ UNCHANGED <<line, userVars, tick, inputQ, outputQ, passed, printed>>

\* io_service.stop(); stopped() holds at once, whatever the io thread does.
StopIoService ==
    /\ main = "stopping"
    /\ main' = "returning"
    /\ UNCHANGED <<line, userVars, tick, inputQ, outputQ, passed, printed>>

\* The future's destructor waits for getline; then run_thread is destroyed
\* while joinable, which ends the process by std::terminate.
Return ==
    /\ main = "returning" /\ line # "reading"
    /\ main' = "terminated"
    /\ UNCHANGED <<line, userVars, tick, inputQ, outputQ, passed, printed>>

\* An exception on the tick or the io thread: a script directory that cannot be
\* read (ScriptHandler.cpp:67), a callback that throws (AngelBinder.cpp:360).
ThreadThrows ==
    /\ Running
    /\ main' = "crashed"
    /\ UNCHANGED <<line, userVars, tick, inputQ, outputQ, passed, printed>>

Main == PrintMessage \/ ExitConfirmed \/ Drained \/ NoLine \/ HandleLine
        \/ HandleBroken \/ StopIoService \/ Return

-----------------------------------------------------------------------------
\* GetLineFromCin, and the user

TypeLine ==
    /\ Running /\ line = "reading" /\ ~eof /\ typed < MaxLines
    /\ line' \in Lines
    /\ typed' = typed + 1
    /\ UNCHANGED <<main, eof, tick, inputQ, outputQ, passed, printed>>

EndInput ==
    /\ Running /\ ~eof
    /\ eof' = TRUE
    /\ UNCHANGED <<mainVars, typed, tick, inputQ, outputQ>>

\* At the end of input getline returns at once, with an empty line.
ReadAtEnd ==
    /\ Running /\ line = "reading" /\ eof
    /\ line' = "ignored"
    /\ UNCHANGED <<main, userVars, tick, inputQ, outputQ, passed, printed>>

User == TypeLine \/ EndInput

-----------------------------------------------------------------------------
\* ClientHandler::Run on the tick thread

\* LoadScriptDirectory, before the first tick.
LoadScripts ==
    /\ Running /\ tick = "loading"
    /\ tick' = "update"
    /\ UNCHANGED <<mainVars, userVars, inputQ, outputQ>>

\* Update() takes one message.
Take(m) ==
    /\ Running /\ tick = "update" /\ inputQ # <<>> /\ Head(inputQ) = m
    /\ inputQ' = Tail(inputQ)

ServePing ==
    /\ Take("PING")
    /\ outputQ' = Enqueue(outputQ, "PRINT")
    /\ UNCHANGED <<mainVars, userVars, tick>>

BeginReload ==
    /\ Take("RELOAD")
    /\ tick' = "reloading"
    /\ UNCHANGED <<mainVars, userVars, outputQ>>

\* ReloadScripts returns, and the loop goes on with the next message.
EndReload ==
    /\ Running /\ tick = "reloading"
    /\ tick' = "update"
    /\ UNCHANGED <<mainVars, userVars, inputQ, outputQ>>

\* Update() returns false: the rest of the queue is left alone.
ServeExit ==
    /\ Take("EXIT")
    /\ tick' = "exiting"
    /\ UNCHANGED <<mainVars, userVars, outputQ>>

\* The queue is empty; sleep for what is left of the tick.
Sleep ==
    /\ Running /\ tick = "update" /\ inputQ = <<>>
    /\ tick' = "sleep"
    /\ UNCHANGED <<mainVars, userVars, inputQ, outputQ>>

NextTick ==
    /\ Running /\ tick = "sleep"
    /\ tick' = "update"
    /\ UNCHANGED <<mainVars, userVars, inputQ, outputQ>>

ConfirmExit ==
    /\ Running /\ tick = "exiting"
    /\ tick' = "done"
    /\ outputQ' = Enqueue(outputQ, "EXIT_CONFIRM")
    /\ UNCHANGED <<mainVars, userVars, inputQ>>

Tick == LoadScripts \/ ServePing \/ BeginReload \/ EndReload \/ ServeExit
        \/ Sleep \/ NextTick \/ ConfirmExit

-----------------------------------------------------------------------------
Next == Main \/ User \/ ReadAtEnd \/ Tick \/ ThreadThrows

\* The threads are scheduled; the user need not type anything.
Fairness == WF_vars(Main) /\ WF_vars(Tick) /\ WF_vars(ReadAtEnd)

Spec == Init /\ [][Next]_vars
FairSpec == Spec /\ Fairness

-----------------------------------------------------------------------------
\* Properties

\* Every variable keeps its type.
TypeOK ==
    /\ main \in {"drain", "poll", "stopping", "returning", "terminated", "crashed"}
    /\ line \in Lines \cup {"reading", "none"}
    /\ typed \in Nat /\ eof \in BOOLEAN
    /\ tick \in {"loading", "update", "sleep", "reloading", "exiting", "done"}
    /\ inputQ \in Seq({"EXIT", "PING", "RELOAD"})
    /\ outputQ \in Seq({"PRINT", "EXIT_CONFIRM"})
    /\ passed \in Seq({"EXIT", "PING", "RELOAD"})
    /\ printed \in Nat

\* How many of the messages passed the tick thread has taken.
Taken == Len(passed) - Len(inputQ)

\* What is in the input queue is the end of what was passed.
QueueIsRest ==
    /\ Len(inputQ) <= Len(passed)
    /\ \A i \in DOMAIN inputQ : inputQ[i] = passed[Taken + i]

\* An exit is the last message that is taken.
ExitIsLast ==
    /\ \A i \in 1..Taken : passed[i] = "EXIT" => tick \in {"exiting", "done"} /\ i = Taken
    /\ tick \in {"exiting", "done"} => Taken > 0 /\ passed[Taken] = "EXIT"

\* The confirmation is the last message in the output queue, and main() leaves
\* its loop with it.
ConfirmIsLast ==
    /\ \A i \in DOMAIN outputQ :
          outputQ[i] = "EXIT_CONFIRM" <=> tick = "done" /\ i = Len(outputQ)
    /\ main \in {"drain", "poll"} /\ tick = "done" => outputQ # <<>>
    /\ main \in {"stopping", "returning", "terminated"} => tick = "done" /\ outputQ = <<>>

\* Each ping that was taken is printed or waits to be.
Unprinted == IF tick = "done" /\ outputQ # <<>> THEN Len(outputQ) - 1 ELSE Len(outputQ)
TakenPings == {i \in 1..Taken : passed[i] = "PING"}
PingsCounted == printed + Unprinted = Cardinality(TakenPings)

\* The inductive invariant behind AnsweredBeforeExit: how far the messages have
\* come on their way over the two queues (ClientHandler.cpp:81-116, main.cpp:49-85).
LifeInv == TypeOK /\ QueueIsRest /\ ExitIsLast /\ ConfirmIsLast /\ PingsCounted

\* The pings passed before the first exit: those the client must answer.
DuePings == {i \in DOMAIN passed :
                /\ passed[i] = "PING"
                /\ \A j \in 1..(i - 1) : passed[j] # "EXIT"}

\* When main() leaves its loop every ping entered before the quit has been
\* answered on the console, no other, and no string is left in the queue.
AnsweredBeforeExit ==
    main \in {"stopping", "returning", "terminated"} =>
        /\ \E i \in DOMAIN passed : passed[i] = "EXIT"
        /\ printed = Cardinality(DuePings)
        /\ outputQ = <<>>

\* A line that is exactly "quit" ends the program without another line.
QuitEnds == main = "poll" /\ line = "quit" ~> ~Running

\* Every ping that is due is answered, exit or no exit.
PingAnswered ==
    \A n \in 1..MaxLines :
        Cardinality(DuePings) >= n ~> printed >= n \/ main = "crashed"

\* Once an exit has been passed on, only the destructor of a pending getline
\* can keep the process: it waits for a line nobody has asked the user for.
ExitEnds ==
    (\E i \in DOMAIN passed : passed[i] = "EXIT") ~>
        \/ main \in {"terminated", "crashed"}
        \/ main = "returning" /\ line = "reading"
=============================================================================
