----------------------------- MODULE ScriptHooks -----------------------------
(***************************************************************************)
(* Script modules and packet hooks: ScriptHandler::ReloadScripts and       *)
(* LoadScriptDirectory on the tick thread, PacketHooks::CallHook on the io *)
(* thread, and the context pool of the io thread's engine.                 *)
(*                                                                         *)
(* The two threads share the vector of hooked functions with no lock.      *)
(* AngelScript counts the references to a function atomically and keeps a  *)
(* discarded module as long as one of its functions is referenced.  A      *)
(* script has one callback here, named by the number of its module: one    *)
(* for each time a file was loaded.                                        *)
(*                                                                         *)
(* An access to freed memory sets corrupt, and nothing is said of what     *)
(* follows.  What is promised is promised while raced is false: while no   *)
(* thread has changed the vector under the other's loop.  A context that   *)
(* lets go of the last reference to a function still reads the function    *)
(* afterwards; that is a step of its own, as a load on the tick thread may *)
(* delete the function in between.                                         *)
(***************************************************************************)
EXTENDS Integers, Sequences, FiniteSets

CONSTANTS
    Files,    \* the script files on disk
    NameOf,   \* a file's name without its directory: its module's name
    MaxLoads, \* how often the directory is loaded (bound)
    MaxCalls, \* logins that are reported to the hooks (bound)
    MaxHooks, \* registered callbacks at a time (bound)
    AfterRace \* how many of each of these once there has been a race (bound)

ASSUME FilesAssumption == IsFiniteSet(Files) /\ NameOf \in [Files -> STRING]
ASSUME BoundsAssumption == {MaxLoads, MaxCalls, MaxHooks, AfterRace} \subseteq Nat

VARIABLES
    hooks,   \* _hooks[HOOK_ONLOGIN_CHALLENGE]: its buffer, size and cells
    mods,    \* the modules built so far: their state and their callback
    tick,    \* where the tick thread stands
    loads,   \* how often it has begun to load the directory
    todo,    \* the files the directory iterator has left
    walk,    \* its loop over the hooks in ClearHooks
    io,      \* where the io thread stands
    calls,   \* how often it has entered CallHook
    call,    \* its loop over the hooks in CallHook
    fn,      \* the function the loop has fetched
    pool,    \* ContextPool: each context's function, the free contexts
    ctx,     \* the context in use, 0 if none
    losing,  \* the function it has let go of and is still to read, 0 if none
    pushing, \* per thread, the buffer and size its push_back has read
    crashed, \* an exception has left the io thread: std::terminate
    corrupt, \* freed memory has been used
    raced    \* the vector was changed under a loop over it (history)

tickVars == <<tick, loads, todo, walk>>
ioVars == <<io, calls, call, fn, pool, ctx, losing, crashed>>
vars == <<hooks, mods, tickVars, ioVars, pushing, corrupt, raced>>

NoLoop == [buf |-> 0, next |-> 1, end |-> 0]
NotPushing == [buf |-> 0, size |-> 0]

Init ==
    /\ hooks = [buf |-> 0, size |-> 0, cells |-> <<>>] /\ mods = <<>>
    /\ tick = "boot" /\ loads = 0 /\ todo = {} /\ walk = NoLoop
    /\ io = "idle" /\ calls = 0 /\ call = NoLoop /\ fn = 0
    /\ pool = [of |-> <<>>, free |-> <<>>] /\ ctx = 0 /\ losing = 0
    /\ pushing = [t \in {"tick", "io"} |-> NotPushing]
    /\ crashed = FALSE /\ corrupt = FALSE /\ raced = FALSE

(***************************************************************************)
(* The vector of hooked functions.  A range-for takes begin and end once,  *)
(* so a loop is over the buffer and the size it has seen.                  *)
(***************************************************************************)

Loop == [buf |-> hooks.buf, next |-> 1, end |-> hooks.size]

\* Fault: CallHook counts to the capacity instead of the size.
CallLoopTooFar == [Loop EXCEPT !.end = Len(hooks.cells)]

CallLoop == Loop

\* The loop l reads memory that is still the vector's.
InBuffer(l) == l.buf = hooks.buf /\ l.next <= Len(hooks.cells)

\* push_back of the function m when it has read the size n: it grows the
\* buffer by a half when that is full.  Cells not yet written hold nothing, 0.
Pushed(m, n) ==
    LET old == Len(hooks.cells)
        cap == IF old + old \div 2 > n THEN old + old \div 2 ELSE n + 1
    IN  IF n < old
        THEN [hooks EXCEPT !.size = n + 1, !.cells[n + 1] = m]
        ELSE [buf |-> hooks.buf + 1, size |-> n + 1,
              cells |-> [i \in 1..cap |-> IF i <= n THEN hooks.cells[i]
                                          ELSE IF i = n + 1 THEN m ELSE 0]]

(***************************************************************************)
(* Script modules, as AngelScript keeps them.                              *)
(***************************************************************************)
Alive(m) == m \in 1..Len(mods) /\ mods[m].state # "deleted"

\* AddRef and Release of a function: both change the count in one step.
AddRef(ms, m) == [ms EXCEPT ![m].refs = @ + 1]
Release(ms, m) == [ms EXCEPT ![m].refs = @ - 1]

\* GetModule(name, asGM_ALWAYS_CREATE): a module of that name is discarded, and
\* with it all discarded modules without references are deleted; a new one is
\* appended.
Replaced(f) ==
    LET Named(m) == m.state = "live" /\ NameOf[m.file] = NameOf[f]
        Discarded(m) == \/ Named(m)
                        \/ m.state = "discarded" /\ \E i \in DOMAIN mods : Named(mods[i])
    IN  Append([i \in DOMAIN mods |->
                  IF ~Discarded(mods[i]) THEN mods[i]
                  ELSE [mods[i] EXCEPT !.state = IF mods[i].refs = 0 THEN "deleted"
                                                 ELSE "discarded"]],
               [file |-> f, load |-> loads, state |-> "live", refs |-> 0])

(***************************************************************************)
(* Who is using the vector, and the history of what went wrong.            *)
(***************************************************************************)
Overlap == io # "idle" /\ tick \in {"clear", "push"}

\* The last conjunct of every action: a change under the other thread's loop,
\* or a larger buffer under the loop of the callback that registers.
Watch == raced' = (raced \/ Overlap' \/ (io # "idle" /\ hooks'.buf # hooks.buf))

Running ==
    /\ ~crashed /\ ~corrupt
    /\ raced => loads <= AfterRace /\ calls <= AfterRace /\ hooks.size <= AfterRace

\* Freed memory has been used; where the code stands no longer matters.
Corrupt ==
    /\ corrupt' = TRUE
    /\ UNCHANGED <<hooks, mods, tickVars, ioVars, pushing>>

(***************************************************************************)
(* RegisterPacketCallback: the handle a script passes is owned by the      *)
(* vector, Register does not count it again.                               *)
(***************************************************************************)

\* Fault: the handle is borrowed (PacketCallback @+ in the declaration).
BeginPushBorrows(t, m) ==
    /\ hooks.size < MaxHooks
    /\ pushing' = [pushing EXCEPT ![t] = [buf |-> hooks.buf, size |-> hooks.size]]
    /\ UNCHANGED mods

BeginPush(t, m) ==
    /\ hooks.size < MaxHooks
    /\ mods' = AddRef(mods, m)
    /\ pushing' = [pushing EXCEPT ![t] = [buf |-> hooks.buf, size |-> hooks.size]]

\* The second half writes to the buffer that the first half has read.
EndPush(t, m) ==
    /\ pushing[t].buf = hooks.buf
    /\ hooks' = Pushed(m, pushing[t].size)
    /\ pushing' = [pushing EXCEPT ![t] = NotPushing]

(***************************************************************************)
(* The tick thread.                                                        *)
(***************************************************************************)

\* LoadScriptDirectory at the start: the files it finds, in any order.
FirstLoad ==
    /\ Running /\ tick = "boot" /\ loads < MaxLoads
    /\ tick' = "load" /\ loads' = loads + 1
    /\ todo' \in SUBSET Files
    /\ UNCHANGED <<hooks, mods, walk, ioVars, pushing, corrupt>> /\ Watch

\* A reload message: ReloadScripts enters ClearHooks.
BeginReload ==
    /\ Running /\ tick = "idle" /\ loads < MaxLoads
    /\ tick' = "clear" /\ walk' = Loop
    /\ UNCHANGED <<hooks, mods, loads, todo, ioVars, pushing, corrupt>> /\ Watch

\* function->Release() for one hook.  What Release reads behind a count of 0 only
\* this thread could have deleted.
ReleaseHook ==
    /\ Running /\ tick = "clear" /\ walk.next <= walk.end
    /\ IF InBuffer(walk) /\ Alive(hooks.cells[walk.next])
       THEN /\ mods' = Release(mods, hooks.cells[walk.next])
            /\ walk' = [walk EXCEPT !.next = @ + 1]
            /\ UNCHANGED <<hooks, tick, loads, todo, ioVars, pushing, corrupt>>
       ELSE Corrupt
    /\ Watch

\* _hooks[i].clear() keeps the buffer; LoadScriptDirectory starts again.
ForgetHooks(cleared) ==
    /\ Running /\ tick = "clear" /\ walk.next > walk.end
    /\ hooks' = cleared
    /\ tick' = "load" /\ walk' = NoLoop /\ loads' = loads + 1
    /\ todo' \in SUBSET Files
    /\ UNCHANGED <<mods, ioVars, pushing, corrupt>> /\ Watch

\* Fault: the released functions stay in the vector.
ClearHooksKeeps == ForgetHooks(hooks)

ClearHooks == ForgetHooks([hooks EXCEPT !.size = 0])

\* LoadScript up to main(): a new module, whether or not it can be built.
LoadScript(f) ==
    /\ Running /\ tick = "load" /\ f \in todo
    /\ mods' = Replaced(f) /\ todo' = todo \ {f}
    /\ tick' \in {"main", "load"}
    /\ UNCHANGED <<hooks, loads, walk, ioVars, pushing, corrupt>> /\ Watch

\* main() calls RegisterPacketCallback.
MainRegisters ==
    /\ Running /\ tick = "main"
    /\ BeginPush("tick", Len(mods)) /\ tick' = "push"
    /\ UNCHANGED <<hooks, loads, todo, walk, ioVars, corrupt>> /\ Watch

MainRegistered ==
    /\ Running /\ tick = "push"
    /\ \/ /\ EndPush("tick", Len(mods)) /\ tick' = "main"
          /\ UNCHANGED <<mods, loads, todo, walk, ioVars, corrupt>>
       \/ pushing["tick"].buf # hooks.buf /\ Corrupt
    /\ Watch

\* main() returns, or ends with an exception, which LoadScript reports.
MainReturns ==
    /\ Running /\ tick = "main" /\ tick' = "load"
    /\ UNCHANGED <<hooks, mods, loads, todo, walk, ioVars, pushing, corrupt>> /\ Watch

EndLoad ==
    /\ Running /\ tick = "load" /\ todo = {} /\ tick' = "idle"
    /\ UNCHANGED <<hooks, mods, loads, todo, walk, ioVars, pushing, corrupt>> /\ Watch

(***************************************************************************)
(* The io thread.                                                          *)
(***************************************************************************)

\* A login that some main() has begun reaches CallHook.
BeginCall ==
    /\ Running /\ io = "idle" /\ mods # <<>> /\ calls < MaxCalls
    /\ io' = "loop" /\ call' = CallLoop /\ calls' = calls + 1
    /\ UNCHANGED <<hooks, mods, tickVars, fn, pool, ctx, losing, crashed, pushing, corrupt>> /\ Watch

\* for (auto function : _hooks[id])
FetchHook ==
    /\ Running /\ io = "loop" /\ call.next <= call.end
    /\ IF InBuffer(call)
       THEN /\ io' = "fetched" /\ fn' = hooks.cells[call.next]
            /\ UNCHANGED <<hooks, mods, tickVars, calls, call, pool, ctx, losing, crashed, pushing, corrupt>>
       ELSE Corrupt
    /\ Watch

\* ContextPool::get(): a free context, or a new one without a function.
Taken(p) ==
    IF p.free = <<>> THEN [of |-> Append(p.of, 0), free |-> <<>>]
    ELSE [p EXCEPT !.free = Tail(@)]
TakenId(p) == IF p.free = <<>> THEN Len(p.of) + 1 ELSE Head(p.free)

\* Fault: a context that changes its function forgets to release the old one.
PreparedLeaks(ms, old, new) == IF old = new THEN ms ELSE AddRef(ms, new)

\* Fault: a context does not count itself as an owner of its function.
PreparedUncounted(ms, old, new) == ms

\* asCContext::Prepare: the context keeps its function till it gets another.
Prepared(ms, old, new) ==
    IF old = new THEN ms
    ELSE AddRef(IF old = 0 THEN ms ELSE Release(ms, old), new)

\* Is the context the last owner of its function, and about to change it?
DropsLast(old) == old # fn /\ Alive(old) /\ mods[old].refs = 1

\* GetScriptContext() and Context::prepare(), when nothing is left behind.
PrepareHook ==
    /\ Running /\ io = "fetched" /\ ~DropsLast(Taken(pool).of[TakenId(pool)])
    /\ LET c == TakenId(pool)
           p == Taken(pool)
       IN  IF Alive(fn) /\ p.of[c] \in {m \in DOMAIN mods : Alive(m)} \cup {0}
           THEN /\ mods' = Prepared(mods, p.of[c], fn)
                /\ pool' = [p EXCEPT !.of[c] = fn] /\ ctx' = c
                /\ io' = "run"
                /\ UNCHANGED <<hooks, tickVars, calls, call, fn, losing, crashed, pushing, corrupt>>
           ELSE Corrupt
    /\ Watch

\* Else the function that Release has counted down to 0 ...
ReleaseLast ==
    /\ Running /\ io = "fetched"
    /\ LET c == TakenId(pool)
           p == Taken(pool)
       IN  /\ DropsLast(p.of[c])
           /\ mods' = Release(mods, p.of[c]) /\ losing' = p.of[c]
           /\ pool' = [p EXCEPT !.of[c] = 0] /\ ctx' = c
    /\ io' = "release"
    /\ UNCHANGED <<hooks, tickVars, calls, call, fn, crashed, pushing, corrupt>> /\ Watch

\* ... is read once more before Prepare goes on: its kind and its other count.
ReleasedLast ==
    /\ Running /\ io = "release"
    /\ IF Alive(losing) /\ Alive(fn)
       THEN /\ mods' = Prepared(mods, 0, fn) /\ pool' = [pool EXCEPT !.of[ctx] = fn]
            /\ losing' = 0 /\ io' = "run"
            /\ UNCHANGED <<hooks, tickVars, calls, call, fn, ctx, crashed, pushing, corrupt>>
       ELSE Corrupt
    /\ Watch

\* The callback calls RegisterPacketCallback.
CallbackRegisters ==
    /\ Running /\ io = "run"
    /\ BeginPush("io", fn) /\ io' = "push"
    /\ UNCHANGED <<hooks, tickVars, calls, call, fn, pool, ctx, losing, crashed, corrupt>> /\ Watch

CallbackRegistered ==
    /\ Running /\ io = "push"
    /\ \/ /\ EndPush("io", fn) /\ io' = "run"
          /\ UNCHANGED <<mods, tickVars, calls, call, fn, pool, ctx, losing, crashed, corrupt>>
       \/ pushing["io"].buf # hooks.buf /\ Corrupt
    /\ Watch

\* execute() returns, release() gives the context back to its pool.
CallbackReturns(returned) ==
    /\ Running /\ io = "run" /\ io' = "loop"
    /\ pool' = returned /\ ctx' = 0 /\ fn' = 0
    /\ call' = [call EXCEPT !.next = @ + 1]
    /\ UNCHANGED <<hooks, mods, tickVars, calls, losing, crashed, pushing, corrupt>> /\ Watch

\* Fault: the context is not given back.
ReturnsKeeping == CallbackReturns(pool)

ReturnsContext == CallbackReturns([pool EXCEPT !.free = Append(@, ctx)])

\* exceptionCallback throws, and nothing on the io thread catches.
CallbackThrows ==
    /\ Running /\ io = "run" /\ crashed' = TRUE
    /\ UNCHANGED <<hooks, mods, tickVars, io, calls, call, fn, pool, ctx, losing, pushing, corrupt>> /\ Watch

EndCall ==
    /\ Running /\ io = "loop" /\ call.next > call.end
    /\ io' = "idle" /\ call' = NoLoop
    /\ UNCHANGED <<hooks, mods, tickVars, calls, fn, pool, ctx, losing, crashed, pushing, corrupt>> /\ Watch

Tick == \/ FirstLoad \/ BeginReload \/ ReleaseHook \/ ClearHooks
        \/ \E f \in Files : LoadScript(f)
        \/ MainRegisters \/ MainRegistered \/ MainReturns \/ EndLoad

Io == \/ BeginCall \/ FetchHook \/ PrepareHook \/ ReleaseLast \/ ReleasedLast
      \/ CallbackRegisters \/ CallbackRegistered \/ ReturnsContext \/ CallbackThrows
      \/ EndCall

Next == Tick \/ Io

Spec == Init /\ [][Next]_vars

(***************************************************************************)
(* Properties                                                              *)
(***************************************************************************)
Modules == [file : Files, load : 1..MaxLoads, state : {"live", "discarded", "deleted"}, refs : Int]
LoopsOver == [buf : Nat, next : Nat \ {0}, end : Nat]
Hooked == {hooks.cells[i] : i \in 1..hooks.size}

\* The types of the variables; a count falls below zero only in a race.
TypeOK ==
    /\ hooks \in [buf : Nat, size : 0..MaxHooks + 1, cells : Seq(Nat)]
    /\ hooks.size <= Len(hooks.cells)
    /\ mods \in Seq(Modules) /\ \A m \in DOMAIN mods : mods[m].refs >= 0 \/ raced
    /\ tick \in {"boot", "idle", "clear", "load", "main", "push"}
    /\ loads \in 0..MaxLoads /\ todo \subseteq Files /\ walk \in LoopsOver
    /\ io \in {"idle", "loop", "fetched", "release", "run", "push"}
    /\ calls \in 0..MaxCalls /\ call \in LoopsOver /\ fn \in Nat
    /\ pool \in [of : Seq(Nat), free : Seq(Nat)] /\ {ctx, losing} \subseteq Nat
    /\ pushing \in [{"tick", "io"} -> [buf : Nat, size : Nat]]
    /\ {crashed, corrupt, raced} \subseteq BOOLEAN

\* A context has let go of a callback of an older load, the last to refer to it,
\* and a script that was loaded after the one whose callback it is to run has
\* taken the module away before Release has read it.
ReleasedLate ==
    /\ io = "release" /\ ~Alive(losing) /\ mods[losing].load < loads
    /\ \E k \in fn + 1..Len(mods) : mods[k].load = loads

\* Freed memory is used in two ways only.  Either one thread has changed the vector
\* under a loop over it, or a context has changed its function, from one of an older
\* load, in the middle of the load: reloading when nobody logs in, discarding
\* modules of the same name and callbacks that register are safe by themselves, and
\* with a single script in the directory so is a context that changes its function
\* (PacketHooks.h, ScriptHandler.cpp:88, AngelBinder.cpp:465, as_scriptfunction.cpp:509).
SafeUnlessRaced == corrupt => raced \/ ReleasedLate

\* The owners of function m: the hooks that are not yet released, each context
\* that was last prepared with it, and a handle on its way into the vector.
Owners(m) ==
    LET first == IF tick = "clear" THEN walk.next ELSE 1
    IN  Cardinality({i \in first..hooks.size : hooks.cells[i] = m})
        + Cardinality({c \in DOMAIN pool.of : pool.of[c] = m})
        + (IF tick = "push" /\ m = Len(mods) THEN 1 ELSE 0)
        + (IF io = "push" /\ m = fn THEN 1 ELSE 0)

\* A function is counted once for each of its owners: nothing is released
\* twice, and no reference is left behind that would keep an old module for
\* ever (PacketHooks.h:19, 81-91, AngelBinder.cpp:465-469).
RefsExact == raced \/ \A m \in DOMAIN mods : mods[m].refs = Owners(m)

\* The parts of the inductive invariant.  A push_back knows a size that its buffer has.
PushInBounds ==
    \A t \in {"tick", "io"} :
        /\ pushing[t].buf <= hooks.buf /\ pushing[t].size <= MaxHooks
        /\ pushing[t].buf = hooks.buf => pushing[t].size <= Len(hooks.cells)

\* There is one context: free, prepared with the function that runs, or in between.
ContextKept ==
    /\ CASE io \in {"run", "push"} ->
              ctx = 1 /\ pool = [of |-> <<fn>>, free |-> <<>>] /\ fn \in DOMAIN mods
         [] io = "release" ->
              ctx = 1 /\ pool = [of |-> <<0>>, free |-> <<>>] /\ losing \in DOMAIN mods
         [] OTHER -> ctx = 0 /\ \/ pool = [of |-> <<>>, free |-> <<>>]
                                \/ Len(pool.of) = 1 /\ pool.free = <<1>>
    /\ io # "release" => losing = 0

\* Nothing is loaded or called before the first load; main() is the newest module's.
LoadOrder ==
    /\ tick = "boot" => mods = <<>> /\ hooks.size = 0 /\ io = "idle"
    /\ tick # "boot" => loads > 0
    /\ tick = "clear" => loads < MaxLoads
    /\ tick \in {"main", "push"} =>
          mods # <<>> /\ mods[Len(mods)].load = loads /\ mods[Len(mods)].state = "live"

\* What a thread has read of the vector is still so.
LoopsCurrent ==
    /\ io # "idle" => /\ call.buf = hooks.buf /\ call.end <= hooks.size
                      /\ call.next \in 1..call.end + 1
    /\ io \in {"fetched", "release", "run", "push"} =>
          call.next <= call.end /\ fn = hooks.cells[call.next]
    /\ tick = "clear" => /\ walk.buf = hooks.buf /\ walk.end = hooks.size
                         /\ walk.next \in 1..walk.end + 1
    /\ tick = "push" => pushing["tick"] = [buf |-> hooks.buf, size |-> hooks.size]
    /\ io = "push" => pushing["io"] = [buf |-> hooks.buf, size |-> hooks.size]

\* What is hooked is of the newest load and there; a context holds what is hooked, or
\* what is there of an older load.
HookedAlive ==
    /\ \A i \in 1..hooks.size : Alive(hooks.cells[i]) /\ mods[hooks.cells[i]].load = loads
    /\ \A c \in DOMAIN pool.of :
          \/ pool.of[c] = 0
          \/ /\ Alive(pool.of[c])
             /\ pool.of[c] \in Hooked \/ mods[pool.of[c]].load < loads

\* What a context is letting go of is of an older load, and there unless a script has
\* been loaded after the one whose callback it is to run.
LosesOld ==
    io = "release" =>
        /\ mods[losing].load < loads
        /\ Alive(losing) \/ \E k \in fn + 1..Len(mods) : mods[k].load = loads

\* The inductive invariant: what holds after a race too, and what holds before one
\* (PacketHooks.h:19-91, ScriptHandler.cpp:27-142, AngelBinder.cpp:465-533).
HooksInv ==
    /\ TypeOK /\ PushInBounds /\ ContextKept /\ LoadOrder
    /\ SafeUnlessRaced /\ (Overlap => raced)
    /\ ~raced => LoopsCurrent /\ HookedAlive /\ LosesOld
    /\ RefsExact

\* What the io thread fetches, prepares or runs is still hooked, and its module
\* has not been deleted: a file of the same name that is loaded meanwhile
\* discards the module but does not take it away (ScriptHandler.cpp:88).
RunsHooked ==
    io \in {"fetched", "release", "run", "push"} /\ ~raced =>
        fn \in Hooked /\ Alive(fn) /\ call.next <= hooks.size

\* The io thread gets by with one context: it is back in the pool before the
\* next is wanted, and no two calls share it (AngelBinder.cpp:504-533).
OneContext ==
    /\ Len(pool.of) <= 1
    /\ io = "idle" => Len(pool.free) = Len(pool.of)
    /\ ctx # 0 => pool.free = <<>>

\* Is a thread changing the hooks?
Changing == tick \in {"clear", "push"} \/ io = "push"

\* The cells from l to n of a buffer, as a sequence.
Stretch(cells, l, n) == [i \in 1..n + 1 - l |-> cells[l + i - 1]]

\* What the scripts see of that, while nothing has raced: the callbacks of the
\* newest load, those that are hooked, those CallHook has left, and the one it runs.
Newest == {m \in DOMAIN mods : mods[m].load = loads}
HookedNow == IF raced THEN <<>> ELSE Stretch(hooks.cells, 1, hooks.size)
LeftToRun == IF raced \/ io = "idle" THEN <<>> ELSE Stretch(hooks.cells, call.next, call.end)
RunsNow == IF io \in {"run", "push"} THEN fn ELSE 0

\* Loops over a vector that grows, moves and keeps stale cells, modules that come
\* and go and counted functions amount to what HookReports promises, until there
\* is a race (PacketHooks.h:19-91, ScriptHandler.cpp:27-142).
Hook == INSTANCE HookReports
        WITH current <- Newest, hooked <- HookedNow, reporting <- io # "idle",
             left <- LeftToRun, running <- RunsNow, changing <- Changing, broken <- raced
HooksKeepReports == Hook!Spec
==============================================================================
