------------------------ MODULE ClientLifecycleProofs ------------------------
(***************************************************************************)
(* Proofs about ClientLifecycle, for any number of lines.                  *)
(***************************************************************************)
EXTENDS ClientLifecycle, FiniteSetTheorems, TLAPS

Messages == {"EXIT", "PING", "RELOAD"}
Answers == {"PRINT", "EXIT_CONFIRM"}
InLoop == {"drain", "poll"}
Leaving == {"stopping", "returning", "terminated"}
Ending == {"exiting", "done"}

\* What try_dequeue leaves behind (main.cpp:53, ClientHandler.cpp:91).
LEMMA FirstOut ==
    ASSUME NEW S, NEW q \in Seq(S), q # <<>>
    PROVE  /\ Tail(q) \in Seq(S) /\ Head(q) = q[1] /\ q[1] \in S
           /\ Len(q) \in Nat /\ Len(q) > 0 /\ Len(Tail(q)) = Len(q) - 1
           /\ \A i \in 1..Len(q) - 1 : Tail(q)[i] = q[i + 1]
OBVIOUS

\* What enqueue makes of a queue (ClientHandler.cpp:84-86, 104).
LEMMA LastIn ==
    ASSUME NEW S, NEW q \in Seq(S), NEW m \in S
    PROVE  /\ Append(q, m) \in Seq(S) /\ Append(q, m) # <<>>
           /\ Len(q) \in Nat /\ Len(Append(q, m)) = Len(q) + 1
           /\ \A i \in 1..Len(q) : Append(q, m)[i] = q[i]
           /\ Append(q, m)[Len(q) + 1] = m
OBVIOUS

\* The pings that were taken are finitely many (ClientHandler.cpp:99-105).
LEMMA TakenPingsFinite ==
    ASSUME LifeInv
    PROVE  Taken \in Nat /\ IsFiniteSet(TakenPings) /\ Cardinality(TakenPings) \in Nat
<1>1. Taken \in Nat
      BY DEF LifeInv, TypeOK, QueueIsRest, Taken
<1>2. IsFiniteSet(1..Taken)
      BY <1>1, FS_Interval
<1>3. TakenPings \subseteq 1..Taken
      BY DEF TakenPings
<1> QED BY <1>1, <1>2, <1>3, FS_Subset, FS_CardinalityType

\* At the start both queues are empty (ClientHandler.cpp:11-17, main.cpp:30-48).
LEMMA LifeInitInv == Init => LifeInv
<1> SUFFICES ASSUME Init PROVE LifeInv
    OBVIOUS
<1>0. <<>> \in Seq(Messages) /\ <<>> \in Seq(Answers)
      OBVIOUS
<1>1. TypeOK
      BY <1>0 DEF Init, TypeOK, Lines, Messages, Answers
<1>2. Taken = 0
      BY DEF Init, Taken
<1>3. QueueIsRest /\ ExitIsLast /\ ConfirmIsLast
      BY <1>2 DEF Init, QueueIsRest, ExitIsLast, ConfirmIsLast
<1>4. TakenPings = {}
      BY <1>2 DEF TakenPings
<1>5. PingsCounted
      BY <1>4, FS_EmptySet DEF Init, PingsCounted, Unprinted
<1> QED BY <1>1, <1>3, <1>5 DEF LifeInv

\* Every action keeps the types; HandleLine passes on at most one message, of a
\* kind that Update() has a case for (ConsoleCommands/*.h).
LEMMA PassesOne ==
    ASSUME NEW l \in Lines
    PROVE  Passes(l) = <<>> \/ \E m \in Messages : Passes(l) = <<m>>
BY DEF Lines, Passes, Messages

\* Every step of the three threads keeps the types.
LEMMA StepTypeOK == TypeOK /\ [Next]_vars => TypeOK'
<1> SUFFICES ASSUME TypeOK, [Next]_vars PROVE TypeOK'
    OBVIOUS
<1> USE DEF TypeOK
<1>1. CASE Main
  <2>1. CASE HandleLine
    <3>1. passed' \in Seq(Messages) /\ inputQ' \in Seq(Messages)
      <4>0. passed \in Seq(Messages) /\ inputQ \in Seq(Messages) /\ line \in Lines
            BY <2>1 DEF HandleLine, Messages
      <4>1. CASE Passes(line) = <<>>
            BY <2>1, <4>0, <4>1 DEF HandleLine
      <4>2. CASE \E m \in Messages : Passes(line) = <<m>>
        <5> PICK m \in Messages : Passes(line) = <<m>>
            BY <4>2
        <5>1. <<m>> # <<>> /\ <<m>>[1] = m /\ <<m>> \in Seq(Messages)
              OBVIOUS
        <5>2. inputQ' = Append(inputQ, m) /\ passed' = passed \o <<m>>
              BY <2>1, <5>1 DEF HandleLine, Enqueue
        <5> QED BY <4>0, <5>1, <5>2
      <4> QED BY <4>0, <4>1, <4>2, PassesOne
    <3> QED BY <2>1, <3>1 DEF HandleLine, userVars, Messages, ReadsOn, Lines
  <2>2. CASE PrintMessage
        BY <2>2, FirstOut DEF PrintMessage, userVars
  <2>3. CASE ExitConfirmed
        BY <2>3, FirstOut DEF ExitConfirmed, userVars
  <2>4. CASE Drained \/ NoLine \/ HandleBroken \/ StopIoService \/ Return
        BY <2>4 DEF Drained, NoLine, HandleBroken, StopIoService, Return, userVars
  <2> QED BY <1>1, <2>1, <2>2, <2>3, <2>4 DEF Main
<1>2. CASE User \/ ReadAtEnd
  <2>1. CASE TypeLine
        BY <2>1 DEF TypeLine
  <2>2. CASE EndInput
        BY <2>2 DEF EndInput, mainVars
  <2>3. CASE ReadAtEnd
        BY <2>3 DEF ReadAtEnd, userVars, Lines
  <2> QED BY <1>2, <2>1, <2>2, <2>3 DEF User
<1>3. CASE Tick
  <2>1. ASSUME NEW m, Take(m) PROVE inputQ' \in Seq(Messages)
        BY <2>1, FirstOut DEF Take, Messages
  <2>2. CASE ServePing
        BY <2>1, <2>2, LastIn DEF ServePing, Enqueue, mainVars, userVars, Messages
  <2>3. CASE BeginReload \/ ServeExit
        BY <2>1, <2>3 DEF BeginReload, ServeExit, mainVars, userVars, Messages
  <2>4. CASE ConfirmExit
        BY <2>4, LastIn DEF ConfirmExit, Enqueue, mainVars, userVars
  <2>5. CASE LoadScripts \/ EndReload \/ Sleep \/ NextTick
        BY <2>5 DEF LoadScripts, EndReload, Sleep, NextTick, mainVars, userVars
  <2> QED BY <1>3, <2>2, <2>3, <2>4, <2>5 DEF Tick
<1>4. CASE ThreadThrows
      BY <1>4 DEF ThreadThrows, userVars
<1>5. CASE UNCHANGED vars
      BY <1>5 DEF vars
<1> QED BY <1>1, <1>2, <1>3, <1>4, <1>5 DEF Next

\* A step that touches neither queue and neither ends the tick thread nor takes
\* main() out of its loop leaves the messages where they are.
LEMMA QuietStep ==
    ASSUME LifeInv, TypeOK', UNCHANGED <<passed, printed, inputQ, outputQ>>,
           tick' = tick \/ (tick \notin Ending /\ tick' \notin Ending),
           \/ main' \in InLoop /\ main \in InLoop
           \/ main' \in Leaving /\ main \in Leaving
           \/ main' = main \/ main' = "crashed"
    PROVE  LifeInv'
<1> USE DEF Ending, InLoop, Leaving
<1>0. QueueIsRest /\ ExitIsLast /\ ConfirmIsLast /\ PingsCounted
      BY DEF LifeInv
<1>1. Taken' = Taken /\ TakenPings' = TakenPings
      BY DEF Taken, TakenPings
<1>2. QueueIsRest'
      BY <1>0, <1>1 DEF QueueIsRest
<1>3. ExitIsLast'
      BY <1>0, <1>1 DEF ExitIsLast
<1>4. ConfirmIsLast'
      BY <1>0 DEF ConfirmIsLast
<1>5. PingsCounted'
      BY <1>0, <1>1 DEF PingsCounted, Unprinted
<1> QED BY <1>2, <1>3, <1>4, <1>5 DEF LifeInv

\* main() takes an answer to print from the queue, which is not the confirmation
\* (main.cpp:60-64).
LEMMA PrintMessageInv ==
    ASSUME LifeInv, TypeOK', PrintMessage PROVE LifeInv'
<1> USE DEF PrintMessage
<1>0. TypeOK /\ QueueIsRest /\ ExitIsLast /\ ConfirmIsLast /\ PingsCounted
      BY DEF LifeInv
<1>1. Taken' = Taken /\ TakenPings' = TakenPings
      BY DEF Taken, TakenPings
<1>2. QueueIsRest' /\ ExitIsLast'
      BY <1>0, <1>1 DEF QueueIsRest, ExitIsLast
<1>3. /\ Len(outputQ) \in Nat /\ Len(outputQ) > 0 /\ Len(outputQ') = Len(outputQ) - 1
      /\ outputQ' \in Seq(Answers) /\ outputQ[1] = "PRINT"
      /\ \A i \in 1..Len(outputQ) - 1 : outputQ'[i] = outputQ[i + 1]
      BY <1>0, FirstOut DEF TypeOK, Answers
<1>4. tick = "done" => Len(outputQ) > 1
      BY <1>0, <1>3 DEF ConfirmIsLast
<1>5. ConfirmIsLast'
  <2>1. ASSUME NEW i \in DOMAIN outputQ'
        PROVE  outputQ'[i] = "EXIT_CONFIRM" <=> tick = "done" /\ i = Len(outputQ')
    <3>1. i \in 1..Len(outputQ) - 1 /\ i + 1 \in DOMAIN outputQ
          BY <1>3, <2>1
    <3> QED BY <1>0, <1>3, <3>1 DEF ConfirmIsLast
  <2>2. main = "drain" /\ main' = "drain" /\ tick' = tick
        OBVIOUS
  <2>3. tick = "done" => outputQ' # <<>>
        BY <1>3, <1>4
  <2> QED BY <2>1, <2>2, <2>3 DEF ConfirmIsLast
<1>6. Unprinted \in Nat /\ Unprinted' = Unprinted - 1
  <2>1. tick' = tick /\ outputQ # <<>>
        OBVIOUS
  <2>2. tick = "done" => outputQ' # <<>>
        BY <1>3, <1>4
  <2>3. CASE tick = "done"
        BY <1>3, <2>1, <2>2, <2>3 DEF Unprinted
  <2>4. CASE tick # "done"
        BY <1>3, <2>1, <2>4 DEF Unprinted
  <2> QED BY <2>3, <2>4
<1>7. printed \in Nat /\ printed' = printed + 1
      BY <1>0 DEF TypeOK
<1>8. PingsCounted'
      BY <1>0, <1>1, <1>6, <1>7 DEF PingsCounted
<1> QED BY <1>2, <1>5, <1>8 DEF LifeInv

\* The confirmation is the last answer there is (main.cpp:55-59).
LEMMA ExitConfirmedInv ==
    ASSUME LifeInv, TypeOK', ExitConfirmed PROVE LifeInv'
<1> USE DEF ExitConfirmed
<1>0. TypeOK /\ QueueIsRest /\ ExitIsLast /\ ConfirmIsLast /\ PingsCounted
      BY DEF LifeInv
<1>1. Taken' = Taken /\ TakenPings' = TakenPings
      BY DEF Taken, TakenPings
<1>2. QueueIsRest' /\ ExitIsLast'
      BY <1>0, <1>1 DEF QueueIsRest, ExitIsLast
<1>3. /\ Len(outputQ) \in Nat /\ Len(outputQ) > 0 /\ Len(outputQ') = Len(outputQ) - 1
      /\ outputQ' \in Seq(Answers) /\ outputQ[1] = "EXIT_CONFIRM"
      BY <1>0, FirstOut DEF TypeOK, Answers
<1>4. tick = "done" /\ Len(outputQ) = 1
      BY <1>0, <1>3 DEF ConfirmIsLast
<1>5. outputQ' = <<>>
      BY <1>3, <1>4
<1>6. ConfirmIsLast'
      BY <1>4, <1>5 DEF ConfirmIsLast
<1>7. Unprinted = 0 /\ Unprinted' = 0
      BY <1>3, <1>4, <1>5 DEF Unprinted
<1>8. PingsCounted'
      BY <1>0, <1>1, <1>7 DEF PingsCounted
<1> QED BY <1>2, <1>6, <1>8 DEF LifeInv

\* A message passed on is behind all the others, and not yet taken
\* (main.cpp:72-83, ClientHandler.cpp:23-26).
LEMMA HandleLineInv ==
    ASSUME LifeInv, TypeOK', HandleLine PROVE LifeInv'
<1>0. TypeOK /\ QueueIsRest /\ ExitIsLast /\ ConfirmIsLast /\ PingsCounted
      BY DEF LifeInv
<1>1. line \in Lines /\ main \in InLoop /\ main' \in InLoop /\ tick' = tick
      /\ outputQ' = outputQ /\ printed' = printed
      BY DEF HandleLine, InLoop
<1>2. CASE Passes(line) = <<>>
  <2>1. passed' = passed /\ inputQ' = inputQ
        BY <1>0, <1>2 DEF HandleLine, TypeOK
  <2> QED BY <1>1, <2>1, QuietStep
<1>3. CASE \E m \in Messages : Passes(line) = <<m>>
  <2> PICK m \in Messages : Passes(line) = <<m>>
      BY <1>3
  <2>1. passed \in Seq(Messages) /\ inputQ \in Seq(Messages)
        BY <1>0 DEF TypeOK, Messages
  <2>2. inputQ' = Append(inputQ, m) /\ passed' = Append(passed, m)
    <3>1. <<m>> # <<>> /\ <<m>>[1] = m /\ passed \o <<m>> = Append(passed, m)
          BY <2>1
    <3> QED BY <3>1 DEF HandleLine, Enqueue
  <2>3. /\ Len(passed) \in Nat /\ Len(passed') = Len(passed) + 1
        /\ \A i \in 1..Len(passed) : passed'[i] = passed[i]
        /\ passed'[Len(passed) + 1] = m
        BY <2>1, <2>2, LastIn
  <2>4. /\ Len(inputQ) \in Nat /\ Len(inputQ') = Len(inputQ) + 1
        /\ \A i \in 1..Len(inputQ) : inputQ'[i] = inputQ[i]
        /\ inputQ'[Len(inputQ) + 1] = m /\ inputQ' \in Seq(Messages)
        BY <2>1, <2>2, LastIn
  <2>5. Len(inputQ) <= Len(passed)
        BY <1>0 DEF QueueIsRest
  <2>6. Taken' = Taken /\ Taken \in 0..Len(passed) /\ Taken + Len(inputQ) = Len(passed)
        BY <2>3, <2>4, <2>5 DEF Taken
  <2>7. \A i \in 1..Taken : passed'[i] = passed[i]
        BY <2>3, <2>6
  <2>8. QueueIsRest'
    <3>1. ASSUME NEW i \in DOMAIN inputQ' PROVE inputQ'[i] = passed'[Taken + i]
      <4>1. i \in 1..Len(inputQ) + 1
            BY <2>4, <3>1
      <4>2. CASE i = Len(inputQ) + 1
            BY <2>3, <2>4, <2>6, <4>2
      <4>3. CASE i # Len(inputQ) + 1
        <5>1. i \in 1..Len(inputQ) /\ Taken + i \in 1..Len(passed) /\ i \in DOMAIN inputQ
              BY <2>1, <2>4, <2>6, <4>1, <4>3
        <5> QED BY <1>0, <2>3, <2>4, <5>1 DEF QueueIsRest
      <4> QED BY <4>2, <4>3
    <3> QED BY <2>3, <2>4, <2>5, <2>6, <3>1 DEF QueueIsRest
  <2>9. ExitIsLast'
        BY <1>0, <1>1, <2>6, <2>7 DEF ExitIsLast
  <2>10. ConfirmIsLast'
        BY <1>0, <1>1 DEF ConfirmIsLast, InLoop
  <2>11. TakenPings' = TakenPings
        BY <2>6, <2>7 DEF TakenPings
  <2>12. PingsCounted'
        BY <1>0, <1>1, <2>11 DEF PingsCounted, Unprinted
  <2> QED BY <2>8, <2>9, <2>10, <2>12 DEF LifeInv
<1> QED BY <1>1, <1>2, <1>3, PassesOne

\* Taking a message moves the border between what is taken and what is not by
\* one; an exit is only taken last (ClientHandler.cpp:91-97).
LEMMA TakeOne ==
    ASSUME LifeInv, NEW m \in Messages, Take(m), passed' = passed,
           tick' \in Ending <=> m = "EXIT"
    PROVE  /\ Taken' = Taken + 1 /\ passed[Taken + 1] = m
           /\ QueueIsRest' /\ ExitIsLast'
<1>0. TypeOK /\ QueueIsRest /\ ExitIsLast
      BY DEF LifeInv
<1>1. inputQ \in Seq(Messages) /\ passed \in Seq(Messages)
      BY <1>0 DEF TypeOK, Messages
<1>2. /\ Len(inputQ) \in Nat /\ Len(inputQ) > 0 /\ Len(inputQ') = Len(inputQ) - 1
      /\ inputQ[1] = m /\ inputQ' \in Seq(Messages)
      /\ \A i \in 1..Len(inputQ) - 1 : inputQ'[i] = inputQ[i + 1]
      BY <1>1, FirstOut DEF Take
<1>3. Len(passed) \in Nat /\ Len(inputQ) <= Len(passed)
      BY <1>0, <1>1 DEF QueueIsRest
<1>4. Taken \in Nat /\ Taken' = Taken + 1
      BY <1>2, <1>3 DEF Taken
<1>5. \A i \in 1..Len(inputQ) : inputQ[i] = passed[Taken + i]
      BY <1>0, <1>1 DEF QueueIsRest
<1>6. passed[Taken + 1] = m
      BY <1>2, <1>4, <1>5
<1>7. QueueIsRest'
  <2>1. ASSUME NEW i \in DOMAIN inputQ' PROVE inputQ'[i] = passed'[Taken' + i]
    <3>1. i \in 1..Len(inputQ) - 1 /\ i + 1 \in 1..Len(inputQ) /\ i \in Nat
          BY <1>2, <2>1
    <3>2. Taken' + i = Taken + (i + 1)
          BY <1>4, <3>1
    <3> QED BY <1>2, <1>5, <3>1, <3>2
  <2>2. Len(inputQ') <= Len(passed')
        BY <1>2, <1>3
  <2> QED BY <2>1, <2>2 DEF QueueIsRest
<1>8. ExitIsLast'
  <2>1. tick \notin {"exiting", "done"}
        BY DEF Take
  <2>2. \A i \in 1..Taken : passed[i] # "EXIT"
        BY <1>0, <2>1 DEF ExitIsLast
  <2>3. ASSUME NEW i \in 1..Taken', passed'[i] = "EXIT" PROVE m = "EXIT" /\ i = Taken'
    <3>1. i \in 1..Taken \/ i = Taken + 1
          BY <1>4, <2>3
    <3> QED BY <1>4, <1>6, <2>2, <2>3, <3>1
  <2> QED BY <1>4, <1>6, <2>3 DEF ExitIsLast, Ending
<1> QED BY <1>4, <1>6, <1>7, <1>8

\* A ping that is taken is answered at once, behind the answers there are
\* (ClientHandler.cpp:99-105).
LEMMA ServePingInv ==
    ASSUME LifeInv, TypeOK', ServePing PROVE LifeInv'
<1>0. TypeOK /\ ConfirmIsLast /\ PingsCounted
      BY DEF LifeInv
<1>1. Take("PING") /\ tick = "update" /\ tick' = "update" /\ passed' = passed
      /\ printed' = printed /\ main' = main /\ outputQ' = Append(outputQ, "PRINT")
      BY DEF ServePing, Take, Enqueue, mainVars
<1>2. /\ Taken' = Taken + 1 /\ passed[Taken + 1] = "PING"
      /\ QueueIsRest' /\ ExitIsLast'
      BY <1>1, TakeOne DEF Messages, Ending
<1>3. /\ Len(outputQ) \in Nat /\ Len(outputQ') = Len(outputQ) + 1
      /\ outputQ' \in Seq(Answers) /\ outputQ' # <<>>
      /\ \A i \in 1..Len(outputQ) : outputQ'[i] = outputQ[i]
      /\ outputQ'[Len(outputQ) + 1] = "PRINT"
      /\ DOMAIN outputQ = 1..Len(outputQ) /\ DOMAIN outputQ' = 1..Len(outputQ) + 1
  <2>1. outputQ \in Seq(Answers) /\ "PRINT" \in Answers
        BY <1>0 DEF TypeOK, Answers
  <2> QED BY <1>1, <2>1, LastIn
<1>4. ConfirmIsLast'
  <2>1. ASSUME NEW i \in DOMAIN outputQ' PROVE outputQ'[i] # "EXIT_CONFIRM"
    <3>1. i = Len(outputQ) + 1 \/ i \in DOMAIN outputQ
          BY <1>3, <2>1
    <3>2. i \in DOMAIN outputQ => outputQ'[i] = outputQ[i]
          BY <1>3
    <3> QED BY <1>0, <1>1, <1>3, <3>1, <3>2 DEF ConfirmIsLast
  <2> QED BY <1>0, <1>1, <2>1 DEF ConfirmIsLast
<1>5. Taken \in Nat /\ IsFiniteSet(TakenPings) /\ Cardinality(TakenPings) \in Nat
      BY TakenPingsFinite
<1>6. TakenPings' = TakenPings \cup {Taken + 1} /\ Taken + 1 \notin TakenPings
      BY <1>1, <1>2, <1>5 DEF TakenPings
<1>7. Cardinality(TakenPings') = Cardinality(TakenPings) + 1
      BY <1>5, <1>6, FS_AddElement
<1>8. Unprinted = Len(outputQ) /\ Unprinted' = Len(outputQ) + 1
      BY <1>1, <1>3 DEF Unprinted
<1>9. PingsCounted'
      BY <1>0, <1>1, <1>3, <1>5, <1>7, <1>8 DEF PingsCounted, TypeOK
<1> QED BY <1>2, <1>4, <1>9 DEF LifeInv

\* Taking a reload or the exit answers nothing (ClientHandler.cpp:96, 107-110).
LEMMA TakeOtherInv ==
    ASSUME LifeInv, TypeOK', BeginReload \/ ServeExit PROVE LifeInv'
<1>0. TypeOK /\ ConfirmIsLast /\ PingsCounted
      BY DEF LifeInv
<1>1. /\ passed' = passed /\ printed' = printed /\ main' = main /\ outputQ' = outputQ
      /\ tick = "update" /\ tick' \in {"reloading", "exiting"}
      BY DEF BeginReload, ServeExit, Take, mainVars
<1> PICK m \in {"RELOAD", "EXIT"} : Take(m) /\ (tick' \in Ending <=> m = "EXIT")
    BY DEF BeginReload, ServeExit, Ending
<1>2. Taken' = Taken + 1 /\ passed[Taken + 1] = m /\ QueueIsRest' /\ ExitIsLast'
      BY <1>1, TakeOne DEF Messages
<1>3. ConfirmIsLast'
      BY <1>0, <1>1 DEF ConfirmIsLast
<1>4. TakenPings' = TakenPings
      BY <1>1, <1>2, TakenPingsFinite DEF TakenPings
<1>5. PingsCounted'
      BY <1>0, <1>1, <1>4 DEF PingsCounted, Unprinted
<1> QED BY <1>2, <1>3, <1>5 DEF LifeInv

\* The confirmation goes behind every answer (ClientHandler.cpp:81-86).
LEMMA ConfirmExitInv ==
    ASSUME LifeInv, TypeOK', ConfirmExit PROVE LifeInv'
<1>0. TypeOK /\ QueueIsRest /\ ExitIsLast /\ ConfirmIsLast /\ PingsCounted
      BY DEF LifeInv
<1>1. /\ passed' = passed /\ printed' = printed /\ main' = main /\ inputQ' = inputQ
      /\ tick = "exiting" /\ tick' = "done" /\ outputQ' = Append(outputQ, "EXIT_CONFIRM")
      BY DEF ConfirmExit, Enqueue, mainVars
<1>2. Taken' = Taken /\ TakenPings' = TakenPings
      BY <1>1 DEF Taken, TakenPings
<1>3. QueueIsRest' /\ ExitIsLast'
      BY <1>0, <1>1, <1>2 DEF QueueIsRest, ExitIsLast
<1>4. /\ Len(outputQ) \in Nat /\ Len(outputQ') = Len(outputQ) + 1
      /\ outputQ' \in Seq(Answers) /\ outputQ' # <<>>
      /\ \A i \in 1..Len(outputQ) : outputQ'[i] = outputQ[i]
      /\ outputQ'[Len(outputQ) + 1] = "EXIT_CONFIRM"
      /\ DOMAIN outputQ = 1..Len(outputQ) /\ DOMAIN outputQ' = 1..Len(outputQ) + 1
  <2>1. outputQ \in Seq(Answers) /\ "EXIT_CONFIRM" \in Answers
        BY <1>0 DEF TypeOK, Answers
  <2> QED BY <1>1, <2>1, LastIn
<1>5. ConfirmIsLast'
  <2>1. ASSUME NEW i \in DOMAIN outputQ'
        PROVE  outputQ'[i] = "EXIT_CONFIRM" <=> i = Len(outputQ')
    <3>1. i = Len(outputQ) + 1 \/ (i \in DOMAIN outputQ /\ i # Len(outputQ) + 1)
          BY <1>4, <2>1
    <3>2. i \in DOMAIN outputQ => outputQ'[i] = outputQ[i]
          BY <1>4
    <3> QED BY <1>0, <1>1, <1>4, <3>1, <3>2 DEF ConfirmIsLast
  <2>2. main \notin Leaving
        BY <1>0, <1>1 DEF ConfirmIsLast, Leaving
  <2> QED BY <1>1, <1>4, <2>1, <2>2 DEF ConfirmIsLast, Leaving
<1>6. Unprinted = Len(outputQ) /\ Unprinted' = Len(outputQ)
      BY <1>1, <1>4 DEF Unprinted
<1>7. PingsCounted'
      BY <1>0, <1>1, <1>2, <1>6 DEF PingsCounted
<1> QED BY <1>3, <1>5, <1>7 DEF LifeInv

\* Every step of the three threads and of the user keeps the invariant.
LEMMA StepKeepsLife == LifeInv /\ [Next]_vars => LifeInv'
<1> SUFFICES ASSUME LifeInv, [Next]_vars PROVE LifeInv'
    OBVIOUS
<1>0. TypeOK'
      BY StepTypeOK DEF LifeInv
<1>1. CASE Main
  <2>1. CASE Drained \/ NoLine \/ HandleBroken \/ StopIoService \/ Return
        BY <1>0, <2>1, QuietStep
        DEF Drained, NoLine, HandleBroken, StopIoService, Return, InLoop, Leaving
  <2> QED BY <1>0, <1>1, <2>1, PrintMessageInv, ExitConfirmedInv, HandleLineInv DEF Main
<1>2. CASE User \/ ReadAtEnd
      BY <1>0, <1>2, QuietStep DEF User, TypeLine, EndInput, ReadAtEnd, mainVars
<1>3. CASE Tick
  <2>1. CASE LoadScripts \/ EndReload \/ Sleep \/ NextTick
        BY <1>0, <2>1, QuietStep
        DEF LoadScripts, EndReload, Sleep, NextTick, mainVars, Ending
  <2> QED BY <1>0, <1>3, <2>1, ServePingInv, TakeOtherInv, ConfirmExitInv DEF Tick
<1>4. CASE ThreadThrows
      BY <1>0, <1>4, QuietStep DEF ThreadThrows
<1>5. CASE UNCHANGED vars
      BY <1>0, <1>5, QuietStep DEF vars
<1> QED BY <1>1, <1>2, <1>3, <1>4, <1>5 DEF Next

\* Where the messages stand between the three threads (main.cpp:46-85,
\* ClientHandler.cpp:52-115), for any number of lines.
THEOREM LifeInvariance == Spec => []LifeInv
<1> QED BY LifeInitInv, StepKeepsLife, PTL DEF Spec

\* Every variable keeps its type.
THEOREM LifeTypeCorrect == Spec => []TypeOK
<1>1. LifeInv => TypeOK
      BY DEF LifeInv
<1> QED BY <1>1, LifeInvariance, PTL

\* When main() leaves its loop, every ping passed before the exit has been
\* printed, and nothing else (main.cpp:49-68).
THEOREM AnsweredBeforeExitHolds == Spec => []AnsweredBeforeExit
<1>1. ASSUME LifeInv, main \in Leaving
      PROVE  /\ \E i \in DOMAIN passed : passed[i] = "EXIT"
             /\ printed = Cardinality(DuePings) /\ outputQ = <<>>
  <2>0. TypeOK /\ QueueIsRest /\ ExitIsLast /\ ConfirmIsLast /\ PingsCounted
        BY <1>1 DEF LifeInv
  <2>1. tick = "done" /\ outputQ = <<>>
        BY <1>1, <2>0 DEF ConfirmIsLast, Leaving
  <2>2. Taken \in 1..Len(passed) /\ DOMAIN passed = 1..Len(passed) /\ Len(passed) \in Nat
        BY <2>0, <2>1 DEF TypeOK, QueueIsRest, ExitIsLast, Taken
  <2>3. passed[Taken] = "EXIT" /\ \A i \in 1..Taken : passed[i] = "EXIT" => i = Taken
        BY <2>0, <2>1 DEF ExitIsLast
  <2>4. DuePings = TakenPings
    <3>1. ASSUME NEW i \in DuePings PROVE i \in TakenPings
      <4>1. i \in 1..Len(passed) /\ passed[i] = "PING" /\ \A j \in 1..i - 1 : passed[j] # "EXIT"
            BY <2>2, <3>1 DEF DuePings
      <4>2. i <= Taken
            BY <2>2, <2>3, <4>1
      <4> QED BY <2>2, <4>1, <4>2 DEF TakenPings
    <3>2. ASSUME NEW i \in TakenPings PROVE i \in DuePings
      <4>1. i \in 1..Taken /\ passed[i] = "PING"
            BY <3>2 DEF TakenPings
      <4>2. \A j \in 1..i - 1 : j \in 1..Taken /\ j # Taken
            BY <2>2, <4>1
      <4> QED BY <2>2, <2>3, <4>1, <4>2 DEF DuePings
    <3> QED BY <3>1, <3>2
  <2>5. printed = Cardinality(TakenPings)
        BY <2>0, <2>1, <1>1, TakenPingsFinite DEF PingsCounted, Unprinted, TypeOK
  <2> QED BY <2>1, <2>2, <2>3, <2>4, <2>5
<1>2. LifeInv => AnsweredBeforeExit
      BY <1>1 DEF AnsweredBeforeExit, Leaving
<1> QED BY <1>2, LifeInvariance, PTL
=============================================================================
