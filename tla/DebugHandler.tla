----------------------------- MODULE DebugHandler -----------------------------
(***************************************************************************)
(* The log (DebugHandler.h, DebugHandler.cpp): any thread prints, nothing  *)
(* is locked.  The first message, from whichever thread, initialises the   *)
(* handler with the colour the console has at that moment, and every       *)
(* coloured print leaves the console in that colour.                       *)
(***************************************************************************)
EXTENDS Naturals

CONSTANTS
    MainThread, OtherThreads,
    MaxMessages \* messages of one thread (bound)

ASSUME DebugAssumption == MaxMessages \in Nat /\ MainThread \notin OtherThreads

VARIABLES
    isInitialized,
    _defaultColor,  \* "none" until Initialize
    console,        \* the console's colour
    printing,       \* per thread, where its message stands, "no" without one
    messages,       \* per thread, how many it has begun
    started,        \* main has started the other threads
    asserted        \* PrintFatal has ended the process

debugVars == <<isInitialized, _defaultColor, console, printing, messages, started, asserted>>

Printers == OtherThreads \cup {MainThread}
Original == "original"

DebugInit ==
    /\ isInitialized = FALSE /\ _defaultColor = "none" /\ console = Original
    /\ printing = [t \in Printers |-> "no"]
    /\ messages = [t \in Printers |-> 0]
    /\ started = FALSE /\ asserted = FALSE

\* Thread t goes on from one stage of its message to the next.
Goes(t, from, to) ==
    /\ ~asserted /\ printing[t] = from
    /\ printing' = [printing EXCEPT ![t] = to]

\* NC_LOG_...: main logs from the start, the other threads once they run.
Log(t) ==
    /\ t = MainThread \/ started
    /\ messages[t] < MaxMessages
    /\ Goes(t, "no", "check")
    /\ messages' = [messages EXCEPT ![t] = @ + 1]
    /\ UNCHANGED <<isInitialized, _defaultColor, console, started, asserted>>

Check(t) ==
    /\ Goes(t, "check", IF isInitialized THEN "ready" ELSE "initialize")
    /\ UNCHANGED <<isInitialized, _defaultColor, console, messages, started, asserted>>

Initialize(t) ==
    /\ Goes(t, "initialize", "ready")
    /\ _defaultColor' = console /\ isInitialized' = TRUE
    /\ UNCHANGED <<console, messages, started, asserted>>

\* Print, without a colour.
PrintPlain(t) ==
    /\ Goes(t, "ready", "no")
    /\ UNCHANGED <<isInitialized, _defaultColor, console, messages, started, asserted>>

-----------------------------------------------------------------------------
\* PrintColor, for the tag and then for the text.

SetTag(t) ==
    /\ Goes(t, "ready", "tag") /\ console' = "tag colour"
    /\ UNCHANGED <<isInitialized, _defaultColor, messages, started, asserted>>

ResetTag(t) ==
    /\ Goes(t, "tag", "untagged") /\ console' = _defaultColor
    /\ UNCHANGED <<isInitialized, _defaultColor, messages, started, asserted>>

SetText(t) ==
    /\ Goes(t, "untagged", "text") /\ console' = "text colour"
    /\ UNCHANGED <<isInitialized, _defaultColor, messages, started, asserted>>

\* Fault: the colour is put back after the tag only.
ResetTextKeeps(t, fatal) ==
    /\ Goes(t, "text", "no") /\ asserted' = fatal
    /\ UNCHANGED <<isInitialized, _defaultColor, console, messages, started>>

\* The end of a message; PrintFatal asserts after it.
ResetText(t, fatal) ==
    /\ Goes(t, "text", "no") /\ console' = _defaultColor /\ asserted' = fatal
    /\ UNCHANGED <<isInitialized, _defaultColor, messages, started>>

PrintColor(t) == SetTag(t) \/ ResetTag(t) \/ SetText(t) \/ \E fatal \in BOOLEAN : ResetText(t, fatal)

\* Fault: the threads are started before the configuration is loaded.
AtOnce == TRUE

\* ConfigHandler::Load has logged that it is done.
LoadLogged == messages[MainThread] > 0 /\ printing[MainThread] = "no"

StartThreads ==
    /\ ~asserted /\ ~started /\ LoadLogged
    /\ started' = TRUE
    /\ UNCHANGED <<isInitialized, _defaultColor, console, printing, messages, asserted>>

DebugNext == \/ StartThreads
             \/ \E t \in Printers : Log(t) \/ Check(t) \/ Initialize(t) \/ PrintPlain(t) \/ PrintColor(t)

DebugSpec == DebugInit /\ [][DebugNext]_debugVars
-----------------------------------------------------------------------------
\* Properties

\* Whatever the threads print at the same time, when nobody is printing the
\* console has the colour it had when the program was started: main logs before
\* it starts the threads, so that no message is being coloured when Initialize
\* asks for the colour, and the last print to end puts it back
\* (DebugHandler.h:109-114, DebugHandler.cpp:7-19, main.cpp:24-42).
ColorKept ==
    /\ isInitialized => _defaultColor = Original
    /\ (\A t \in Printers : printing[t] = "no") => console = Original
===============================================================================
