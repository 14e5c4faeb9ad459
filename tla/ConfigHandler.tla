----------------------------- MODULE ConfigHandler -----------------------------
(***************************************************************************)
(* The configuration (ConfigHandler.cpp, ConfigHandler.h): GetOption looks *)
(* for a name anywhere in the file.  A JSON value is a scalar of a type,   *)
(* null, or a structure: the sequence of its items, in the order of their  *)
(* keys.                                                                   *)
(***************************************************************************)
EXTENDS Naturals, Sequences, FiniteSets

CONSTANTS
    Files,      \* the files there may be
    Names       \* the options that are asked for

VARIABLES
    file,           \* what client_configuration.json holds
    _configFile,    \* what has been loaded; "nothing" before
    asked, type,    \* GetOption<type>(asked, default)
    option          \* what it has returned, "none" before and "default" for the default

configVars == <<file, _configFile, asked, type, option>>

Null == [kind |-> "null"]
Scalar(t, id) == [kind |-> t, id |-> id]
Structure(items) == [kind |-> "structure", items |-> items]
Item(k, v) == [key |-> k, value |-> v]
NotLoaded == [kind |-> "nothing"]

Types == {"string", "number"}
is_structured(v) == v.kind = "structure"

ConfigInit ==
    /\ file \in Files
    /\ _configFile = NotLoaded
    /\ asked \in Names /\ type \in Types /\ option = [kind |-> "none"]

\* What items() iterates; a scalar has one item without a key.
Items(v) == IF is_structured(v) THEN v.items ELSE <<Item("", v)>>

\* size(): null and an empty structure have none.
Size(v) == IF v = Null THEN 0 ELSE Len(Items(v))

\* The index of the first item that satisfies P, 0 without one.
FirstIndex(items, P(_)) ==
    LET S == {i \in DOMAIN items : P(items[i])} IN
    IF S = {} THEN 0 ELSE CHOOSE i \in S : \A j \in S : i <= j

\* Fault: the search does not go down into structures.
FindHere(name, v) ==
    LET i == FirstIndex(Items(v), LAMBDA it : it.key = name) IN
    IF i = 0 THEN Null ELSE Items(v)[i].value

\* The search returns from the first item that has the name or is a structure.
RECURSIVE FindOptionInArray(_, _)
FindOptionInArray(name, v) ==
    LET i == FirstIndex(Items(v), LAMBDA it : it.key = name \/ is_structured(it.value)) IN
    IF i = 0 THEN Null
    ELSE LET it == Items(v)[i] IN
         IF it.key = name THEN it.value ELSE FindOptionInArray(name, it.value)

\* What the item has for the name, null for nothing.
InItem(name, it) ==
    IF it.key = name THEN it.value
    ELSE IF is_structured(it.value) THEN FindOptionInArray(name, it.value) ELSE Null

\* The top level goes on to the next item after a null that is found below, but
\* not after one of its own.
Found(name) ==
    LET i == FirstIndex(Items(_configFile),
                        LAMBDA it : it.key = name \/ InItem(name, it) # Null) IN
    IF i = 0 THEN Null ELSE InItem(name, Items(_configFile)[i])

\* Load; a file without an option ends the process.
Load ==
    /\ _configFile = NotLoaded
    /\ Size(file) > 0
    /\ _configFile' = file
    /\ UNCHANGED <<file, asked, type, option>>

\* get<T> throws for a value of another type.
Converts(v) == v.kind = type

GetOption ==
    /\ _configFile # NotLoaded /\ option.kind = "none"
    /\ option' = LET v == Found(asked) IN IF Converts(v) THEN v ELSE [kind |-> "default"]
    /\ UNCHANGED <<file, _configFile, asked, type>>

ConfigNext == Load \/ GetOption

ConfigSpec == ConfigInit /\ [][ConfigNext]_configVars
-----------------------------------------------------------------------------
\* Properties

Answered == option.kind # "none"

\* The value an item search in document order must come to.
Answer(v) == IF v.kind = type THEN v ELSE [kind |-> "default"]

\* The paths that lead to a value of the name, at most three levels down, and
\* that FindOptionInArray can take: below the top level it never passes a structure.
Below(items, i) == IF is_structured(items[i].value) THEN items[i].value.items ELSE <<>>
Free(items, i) == /\ i \in DOMAIN items
                  /\ \A j \in 1..i - 1 : items[j].key # asked /\ ~is_structured(items[j].value)
Reachable ==
    LET top == Items(_configFile)
        mid(i) == Below(top, i)
        low(i, j) == Below(mid(i), j)
        other(it) == it.key # asked
    IN  {v \in {<<i, top[i].value>> : i \in DOMAIN top} : ~other(top[v[1]])}
        \cup UNION {{<<i, mid(i)[j].value>> : j \in {k \in DOMAIN mid(i) :
                            other(top[i]) /\ Free(mid(i), k) /\ ~other(mid(i)[k])}} : i \in DOMAIN top}
        \cup UNION {UNION {{<<i, low(i, j)[k].value>> : k \in {l \in DOMAIN low(i, j) :
                            other(top[i]) /\ other(mid(i)[j]) /\ Free(mid(i), j)
                            /\ Free(low(i, j), l) /\ ~other(low(i, j)[l])}}
                            : j \in DOMAIN mid(i)} : i \in DOMAIN top}

\* Whatever the file, an option that the search can reach is not missed for a
\* later item: a default is returned only when nothing reachable has the type,
\* or the first that is reachable is null or of another type
\* (ConfigHandler.cpp:35-46, ConfigHandler.h:54-84).
ReachableFound ==
    Answered =>
        LET Stops == {v \in Reachable : v[2] # Null \/ Items(_configFile)[v[1]].key = asked} IN
        IF Stops = {} THEN option.kind = "default"
        ELSE \E v \in Stops : /\ \A w \in Stops : v[1] <= w[1]
                              /\ option = Answer(v[2])
===============================================================================
