------------------------------ MODULE Commands ------------------------------
(***************************************************************************)
(* Console lines: lower case (client/main.cpp:73), words and their hash    *)
(* (Utils/StringUtils.h), the look-up and the handlers                     *)
(* (ConsoleCommands.h, ConsoleCommands/*.h).                               *)
(*                                                                         *)
(* A line is a sequence of bytes, typed in pieces.  A hash has 32 bits and *)
(* is written as a pair of 16-bit halves, the high one first.              *)
(***************************************************************************)
EXTENDS Integers, Sequences, SequencesExt, Bitwise, TLC

CONSTANTS
    Pieces,   \* what the user types at a time: sequences of bytes
    MaxPieces \* pieces in a line (bound)

ASSUME PiecesAssumption == (\A p \in Pieces : p \in Seq(0..255 \ {10})) /\ MaxPieces \in Nat

VARIABLES
    line,    \* the line as far as it has been typed
    count,   \* of how many pieces it consists
    entered, \* the line main() has just taken from the console
    effect   \* what HandleCommand has done with it

vars == <<line, count, entered, effect>>

Init == line = <<>> /\ count = 0 /\ entered = <<>> /\ effect = "none"

(***************************************************************************)
(* fnv1a_32                                                                *)
(***************************************************************************)
Word16 == 65536
Basis == <<33052, 40389>> \* 2166136261

\* h ^ c for a char c, which is signed: from 128 on it flips the high bits.
Xored(h, c) == IF c < 128 THEN <<h[1], h[2] ^^ c>>
               ELSE <<h[1] ^^ 65535, h[2] ^^ (65280 + c)>>

\* h * 16777619 in 32 bits; 16777619 is 256 * 2^16 + 403.
TimesPrime(h) ==
    <<(h[1] * 403 + h[2] * 256 + (h[2] * 403) \div Word16) % Word16, (h[2] * 403) % Word16>>

Mix(h, c) == TimesPrime(Xored(h, c))

\* The recursion goes down to s[0] and up to s[count], the terminating zero.
fnv1a_32(s) ==
    LET At(n) == IF n < Len(s) THEN s[n + 1] ELSE 0
        hash[n \in 0..Len(s)] == Mix(IF n = 0 THEN Basis ELSE hash[n - 1], At(n))
    IN  hash[Len(s)]

(***************************************************************************)
(* Commands and their handlers                                             *)
(***************************************************************************)
Quit == <<113, 117, 105, 116>>
Ping == <<112, 105, 110, 103>>
Reload == <<114, 101, 108, 111, 97, 100>>
Script == <<115, 99, 114, 105, 112, 116>>
Scripts == Append(Script, 115)

\* The map's keys are u16, so that only the low half of a hash is kept.
Key(word) == fnv1a_32(word)[2]

commandHandlers ==
    Key(Reload) :> "ReloadCommand" @@ Key(Ping) :> "PingCommand" @@ Key(Quit) :> "QuitCommand"

\* Fault: the line is taken as it was typed.
tolowerNothing(s) == s

\* ::tolower on every byte; those from 128 on are left as they are.
tolower(s) == [i \in DOMAIN s |-> IF s[i] \in 65..90 THEN s[i] + 32 ELSE s[i]]

IsSpace(c) == c = 32 \/ c \in 9..13

\* SplitString: the runs of bytes that are not blanks, in order.
SplitString(s) ==
    LET Starts == {i \in DOMAIN s : ~IsSpace(s[i]) /\ (i = 1 \/ IsSpace(s[i - 1]))}
        WordAt(i) == LET ends == {j \in i..Len(s) : \A k \in i..j : ~IsSpace(s[k])}
                     IN  SubSeq(s, i, CHOOSE j \in ends : \A k \in ends : k <= j)
        order == SetToSortSeq(Starts, <)
    IN  [n \in DOMAIN order |-> WordAt(order[n])]

\* The message each handler passes.
QuitCommand == "MSG_IN_EXIT"
PingCommand == "MSG_IN_PING"

\* The message passed, "none", "unhandled", or "undefined" where the code
\* takes the first element of an empty vector.
ReloadCommand(subCommands) ==
    IF subCommands = <<>> THEN "undefined"
    ELSE IF fnv1a_32(subCommands[1]) \in {fnv1a_32(Script), fnv1a_32(Scripts)}
         THEN "MSG_IN_RELOAD_SCRIPTS"
         ELSE "none"

HandleCommand(command) ==
    LET words == SplitString(command)
        handler == commandHandlers[Key(words[1])]
    IN  CASE command = <<>> -> "none"
          [] command # <<>> /\ words = <<>> -> "undefined"
          [] words # <<>> /\ Key(words[1]) \notin DOMAIN commandHandlers -> "unhandled"
          [] OTHER -> CASE handler = "QuitCommand" -> QuitCommand
                        [] handler = "PingCommand" -> PingCommand
                        [] handler = "ReloadCommand" -> ReloadCommand(Tail(words))

(***************************************************************************)
(* The console                                                             *)
(***************************************************************************)
Type(p) ==
    /\ effect # "undefined" /\ count < MaxPieces
    /\ line' = line \o p /\ count' = count + 1
    /\ entered' = <<>> /\ effect' = "none"

Enter ==
    /\ effect # "undefined"
    /\ entered' = line /\ effect' = HandleCommand(tolower(line))
    /\ line' = <<>> /\ count' = 0

Next == (\E p \in Pieces : Type(p)) \/ Enter

Spec == Init /\ [][Next]_vars

(***************************************************************************)
(* Properties                                                              *)
(***************************************************************************)

\* FNV-1a by its definition: each byte is folded in, the first one first.
FNV1a(s) == FoldLeft(LAMBDA h, c : TimesPrime(<<h[1], h[2] ^^ c>>), Basis, s)

\* A word's hash is what the comment on fnv1a_32 calls it: "FNV-1a 32bit hashing
\* algorithm." (StringUtils.h:9-13).
HashIsFNV1a == \A i \in DOMAIN SplitString(line) :
                  LET word == SplitString(line)[i] IN fnv1a_32(word) = FNV1a(word)

\* A word as it was typed is the command c, capitals or not.
Is(word, c) == Len(word) = Len(c) /\ \A i \in DOMAIN c : word[i] \in {c[i], c[i] - 32}

\* What the words of a line ask for, compared as words and not as hashes.
Asked(s, words) ==
    CASE s = <<>> -> "none"
      [] s # <<>> /\ words = <<>> -> "undefined"
      [] OTHER ->
         CASE Is(words[1], Quit) -> "MSG_IN_EXIT"
           [] Is(words[1], Ping) -> "MSG_IN_PING"
           [] Is(words[1], Reload) ->
              IF Len(words) = 1 THEN "undefined"
              ELSE IF Is(words[2], Script) \/ Is(words[2], Scripts) THEN "MSG_IN_RELOAD_SCRIPTS"
              ELSE "none"
           [] OTHER -> "unhandled"

\* A line whose first word is a command does what it asks for, however it is
\* spaced, capitalised or followed by other words, although only hashes are
\* compared (ConsoleCommands.h:26-44, ReloadCommand.h:29-38).
CommandsAct ==
    LET asked == Asked(entered, SplitString(entered))
    IN  asked # "unhandled" => effect = asked

\* A line whose first word is not a command is reported as unhandled
\* (ConsoleCommands.h:40-43).
OnlyCommandsAct ==
    LET words == SplitString(entered)
    IN  (words # <<>> /\ ~ \E c \in {Quit, Ping, Reload} : Is(words[1], c)) => effect = "unhandled"
==============================================================================
