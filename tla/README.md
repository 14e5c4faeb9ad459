# A verification project for the NovusCore headless client

NovusCore-Headless is a World of Warcraft client without a window, made to be driven by
scripts and a console in automatic tests. This directory holds TLA+ models of its code under
`src/client`, the TLC configurations that check them, and proofs that TLAPS checks.
`PROJECT.json` lists components, runs, mutants, the map from definitions to source lines,
findings, hazards and theorems.

## 1. The system

| Part | State it keeps | Operations | Source |
|---|---|---|---|
| main loop | the getline future, whether it is armed | drain the output queue, poll the console, exit | `main.cpp` |
| console commands | a map from 16-bit keys to handlers | look a line up, pass a message | `ConsoleCommands.h`, `ConsoleCommands/*.h`, `Utils/StringUtils.h` |
| tick thread | two message queues, tick timing | load scripts, serve ping / reload / exit, confirm the exit | `ClientHandler.*`, `Message.h`, `Utils/ConcurrentQueue.h` (vendored) |
| login connection | status, one buffer with read and write positions, credentials, proof | connect, send, read, parse, prove, compare, close | `Connection/NovusConnection.*`, `Networking/BaseSocket.h`, `Networking/ByteBuffer.h` |
| scripts and hooks | modules, hooked functions, a thread-local engine, a context pool | load, reload, register a callback, call the hooks | `Scripting/ScriptHandler.*`, `PacketHooks.h`, `ScriptEngine.*`, `AngelBinder.*`, `PacketFunctions.h`, `GlobalFunctions.h` |
| SRP6 | big numbers, the session key, the expected proof | the client's side of the exchange, byte conversions | `NovusConnection.cpp`, `Cryptography/BigNumber.*`, `SHA1.*` |
| stream encryption | two RC4 ciphers per end, whether they are set up | set up, encrypt, decrypt | `Cryptography/StreamCrypto.*`, `ArcFour.*`, `HMAC.*` |
| configuration | one JSON document | find an option, with a default | `Config/*` |
| log | whether it is initialised, the console's colour | messages with and without colours, from any thread | `Utils/DebugHandler.*` |
| lock check | two counters per type | take and release a write or a read lock | `Utils/AtomicLock.h` |
| object pool | a stack of objects, a weak pointer to itself | add, acquire, return by deleter, destroy | `Utils/SharedPool.h` |
| other utilities | a clock, a tagged value, a table of opcodes | | `Utils/Timer.*`, `Utils/Any.h`, `Networking/Opcode/*` |

Threads and how the parts meet:

* **main** reads console lines (a `std::async` thread blocks in `getline`) and passes messages
  to the **tick thread** through `_inputQueue`; answers come back through `_outputQueue`.
* The **tick thread** loads scripts; a script's `main()` registers packet callbacks and logs in
  (`SendLoginChallenge`), which runs `NovusConnection::Start` on the tick thread.
* The **io thread** runs asio's completions: `HandleRead` parses the server's bytes, calls the
  hooked script functions, computes the proof and sends it. A callback may itself log in, so
  `Start` also runs on the io thread.
* The tick and io threads share the connection object, the hooks, the list of connections and
  the script functions without a lock.

What is hard: TCP cuts and joins messages; completions run concurrently with `Start`; a
completion may already be queued when the socket is closed; the positions of the buffer are
32-bit differences; an exit crosses three threads and two queues and may wait for a line that
is never typed; a reload releases functions another thread is calling. The `hazards` of
`PROJECT.json` name each at its line.

What makes each part correct:

* *connection*: one owner of the buffer at a time and room for every read; the phases of the
  login in order, whatever the server sends; authenticated only if both proofs are right; one
  report to the scripts; a closed connection stays closed; the reason given for closing is the
  true one; every login ends.
* *main and tick thread*: every ping entered before the quit is answered before main leaves its
  loop, nothing is left in the output queue; a quit ends the process.
* *scripts*: no function is called after its last release; contexts are handed out once and
  returned; a report runs the callbacks that are hooked when it begins, each once and in order, and
  all of them are of the newest load; no connection is lost from the list.
* *SRP6*: the right password logs in whatever the secrets; an authenticated client shares the
  whole secret with the server.
* *stream encryption*: what one end encrypts the other decrypts, however it is cut into calls.
* *configuration*: an option the search can reach is not missed for a later one.
* *byte buffer*: values are read back as they were appended, across compaction and growth.
* *lock check*: a conflict is noticed, except where the code cannot; the counters come back to 0.
* *object pool*: an object has one owner and is deleted once, whenever the pool goes; what is
  returned goes to a pool that is still there.
* *log*: the console is left in the colour it had.

## 2. The modules

| Module | What it is |
|---|---|
| `LoginProtocol` | abstract: the phases offline, challenge, proof, authed, ended, and whether the server has been proved |
| `HookReports` | abstract: which callbacks a packet hook has, and which of them the report of a login runs |
| `Connection` | `NovusConnection`, `BaseSocket` and `ByteBuffer`'s positions, with the network and the server |
| `MCConnection` | `Connection` for TLC with cuts where a part of a message is enough for `HandleRead` |
| `ConnectionProofs` | the theorems about `Connection` and their proofs |
| `ClientLifecycle` | main's loop, the console thread and the tick thread, from start to exit |
| `ClientLifecycleProofs` | the theorems about `ClientLifecycle` and their proofs |
| `ScriptHooks` | loading and reloading scripts on the tick thread, calling their callbacks on the io thread, with the memory they share |
| `ScriptHooksProofs` | the theorems about `ScriptHooks` and their proofs |
| `MCScriptHooks` | `ScriptHooks` for TLC with two files of the same name |
| `HeadlessClient` | the composition: `ClientLifecycle` with its loads opened up, the hooks, and connections that keep to `LoginProtocol` |
| `HeadlessClientProofs` | the theorems about `HeadlessClient`, among them the safety of its three refinements, and their proofs |
| `Commands` | console lines: words, the hash, the look-up, the handlers |
| `MCCommands` | `Commands` for TLC with the pieces lines are typed in |
| `AtomicLock` | the reader-writer check and its two counters |
| `AtomicLockProofs` | the theorems about `AtomicLock` and their proofs |
| `SharedPool` | the object pool, its deleter and its destructor |
| `DebugHandler` | the log: lazy initialisation and the console's colour |
| `UtilitiesProofs` | the theorems about `SharedPool` and `DebugHandler` and their proofs |
| `ConfigHandler` | loading the configuration and looking an option up |
| `ByteBuffer` | the values that go through a buffer and the bytes they are in it |
| `ByteBufferProofs` | the theorems about `ByteBuffer` and their proofs |
| `Srp6` | the exchange of keys and proofs, with a server that keeps to the protocol |
| `StreamCrypto` | the key streams on both ends of a connection |
| `StreamCryptoProofs` | the theorems about `StreamCrypto` and their proofs |
| `MCParts` | the eight parts that stand alone for TLC, one at a time: configuration, byte buffer, SRP6, stream encryption, console lines, lock, pool, log |

Most modules also hold definitions whose comment begins with *Fault*. They are not part of the
model: each is a plausible mistake in the definition that follows it, used to see that a run
notices the mistake (the `mutants` of `PROJECT.json`).

### Connection

`spc` says how far `Start()` has come, with one action per effect another thread can see:
`Connect` / `ConnectFails`, `ArmFirstRead`, `SendChallenge`, `StoreUsername`,
`StorePasswordKey`. `onIo` says which thread runs it; when it is the io thread, no completion
runs in between (`IoFree`). `ipc` says where the io thread stands in `HandleRead`: `idle`, at the
head of the loop (`parse`), or between the script callbacks and the rest of
`HandleCommandChallenge` (`prove`). Each way through the loop's body is one action, named for its
outcome; the calls it makes (`AsyncRead` with `CleanBuffer` and `RecalculateSize`, `Close`,
`CallHook`, `Send`) are part of it.

Bytes are counted, not stored. The message whose first byte is at the start of the buffer is
`head`: the code takes the command from there (`NovusConnection.cpp:87`), and not from the read
position. `ActualSize` is the u32 difference of `ByteBuffer.h:241` with its wrap. `B` may be a
multiple of `N`, the server's own or what the buffer held. What a handler gets from bytes that have
not arrived is left open, within what the code can then do: the proof is wrong, `M2` does not
compare equal. SRP6's arithmetic is `proof`:
right when the whole challenge and the password's key were there, wrong otherwise.

`_username` is read on the io thread while the tick thread may be assigning it; the value seen is
then any (`UsernamesSeen`). The buffer given to `async_write_some` is a local of the caller, and
the count of bytes written is ignored, so with `Lossy` a packet may arrive `damaged`.

The server is external. It answers the challenge packet with a challenge or a refusal, and the
proof packet with its own proof, a forged one or a refusal; it sends up to `MaxStray` messages
out of turn; with `Lossy` it may close its end, and the network may reset the connection. The
network delivers the messages in order, cut at the offsets in `Cuts`.

### ClientLifecycle

`main` is main's position in its loop, `line` the getline future, `tick` the tick thread's
position, `inputQ` and `outputQ` the two queues. Each queue has one producer, for which the
queue keeps the order. A console line is its kind, after the look-up: `exit` stands for every
line that reaches `QuitCommand` without being exactly `quit`, `broken` for one that makes the
code index an empty vector, which either crashes or leads to no handler. At the end of standard
input `getline` returns empty lines for ever. The destructors at the end of `main` are the action
`Return`: the pending getline is waited for, then the joinable `run_thread` ends the process
through `std::terminate`. `ThreadThrows` is an exception that nobody catches on the tick or the io
thread; it ends the process from any state. Script loading and reloading are single steps here,
and `HeadlessClient` shows that they may be.

### ScriptHooks

`tick` is the tick thread's position (before the first load, idle, in `ClearHooks`, in
`LoadScriptDirectory`, in a script's `main()`, in `push_back`), `io` the io thread's (between
calls, at the head of `CallHook`'s loop, with a function fetched, in the callback, in
`push_back`). `hooks` is the vector as memory: the number of its buffer, its size and its cells,
of which those beyond the size keep what was in them. A loop holds the buffer and the end it has
seen; `push_back` has a first half, which reads the size, and a second, which writes. `mods` has
one entry for each time a file was loaded, with the count of references to its callback; a
discarded module is deleted when the next module is discarded and nothing refers to it.
`pool` has the function each context was last prepared with, which the context goes on owning
(`as_context.cpp:411-452`).

`AddRef` and `Release` count atomically, but `Release` reads the function after it has counted it
down to 0 (`as_scriptfunction.cpp:512-518`). When a context changes its function and was the last
owner of the old one, that is therefore two steps, `ReleaseLast` and `ReleasedLast`, with the io
thread at `release` and `losing` the function in between: a load on the tick thread may delete it
there. Only loads delete. The tick thread's own releases in `ClearHooks` need no second step.

Two definitions are not the program's. `corrupt` is set by an access to freed memory and ends the
behaviour. `raced` is a history: `Watch`, the last conjunct of each action, sets it when one
thread is in `ClearHooks` or `push_back` while the other is in `CallHook`, and when a callback
makes the vector grow that its own loop is over. A callback's effect is to register itself again,
to throw, or nothing; what else it does does not touch the hooks. A main function that throws and
one that returns are alike to the loader.

What the scripts see of all this is `HookReports`, which has a sequence of callbacks and the part of
it a report has left, and neither buffers nor counts. `Newest` are the modules of the last load,
`HookedNow` the cells up to the size, `LeftToRun` the cells the loop has still to come to, `RunsNow`
the function of the context that executes, `Changing` a vector that is being cleared or pushed to.
`HooksKeepReports` says that the module implements `HookReports` by this mapping. A race is the step
`Break` of `HookReports`, after which it promises nothing; `Break` is possible only while a report
is under way and the hooks change.

### HeadlessClient

Extends `ClientLifecycle` and replaces its steps `LoadScripts`, `BeginReload` and `EndReload` by
what happens in them: `LoadsScript` (with `ClearHooks` on a reload), `RegisterPacketCallback` and
`SendLoginChallenge` in the script's `main()`, and `LoadOver`. `SendLoginChallenge` is four steps, on
either thread: a connection is made, `Start()` returns, and `push_back` on the list of connections
reads the vector and writes it. The io thread reports a challenge or a refusal to the hooks it
finds (`BeginReport`, `RunCallback`, `CallbackReturns`, `EndReport`); a callback may log in again.
A connection is here what `LoginProtocol` says of it; `Connection` is shown to implement the
same module, so that its detail is not repeated.

Four fields of a connection are history, for the properties only: the callbacks that have heard of
it, the newest load when it was reported, whether the hooks changed during the report, whether two
threads were in `push_back` at once. What goes wrong in memory when they are is in `ScriptHooks`;
here an entry may be lost, or the process end (`ClientThrows`).

The hooks are the numbers of the loads here, where `ScriptHooks` has the vector. That they may be is
what `HookReports` is for: `ClientKeepsReports` says that the composition implements it too, with
the loads as callbacks, and `Disturbed` as what ends the promise.

### Commands

The one place where bytes count: a line is a sequence of bytes, typed in pieces and entered.
`HandleCommand` gives what the code does with it: the message it passes, nothing, the warning, or
`undefined` where it takes the first element of an empty vector. A hash is a pair of 16-bit
halves, because TLC's integers do not hold 32 bits without a sign; `Xored` and `TimesPrime` are
the two operations of the code on it, `Xored` with the sign extension of `char`. The classes of
lines that `ClientLifecycle` has as input are the values of `HandleCommand`. `FNV1a` is the
algorithm the comment names, written from its definition, and the reference for `HashIsFNV1a`. The
module reaches recursive operators of the community modules, so nothing is proved about it.

### AtomicLock, SharedPool, DebugHandler

The *lock* blocks nobody: a constructor counts itself and looks at the counts, and asserts. Each of
the two is an atomic operation of its own in the code and an action here; `aborted` is a failed
assertion. `window` is history: the readers that had looked for writers and not yet counted
themselves while a writer was in its constructor.

In the *pool*, `acquire` and `add` are one step under the mutex, a deleter three (it locks the weak
pointer, adds, and gives its `shared_ptr` up), the destructor three, in the order members are
destroyed: mutex, stack, `_thisPtr`. The weak pointer can be locked (`Lockable`) till `_thisPtr` is
gone, and beyond as long as any deleter still has its `shared_ptr` (`HasPoolPtr`). `threw` has the
objects whose `add` threw because memory ran out; `outlived` is history, an object in use when the
destructor began; `undefined` is set when a member is used after its destruction and ends the
behaviour.

In the *log*, each access to `isInitialized` and to the console's colour is a step. `StartThreads`
is where `main` starts the threads: after the configuration was loaded and that was logged.

Nothing in the program uses the lock and the pool yet; they are checked as the classes they are.

### ConfigHandler, ByteBuffer, Srp6, StreamCrypto

*Configuration*: a JSON document is a scalar of a type, null, or a structure of items.
`FindOptionInArray` returns from the first item that has the name *or is a structure*; at the top
level `GetOption` goes on behind a structure in which nothing was found.

*ByteBuffer*: the vector, its two positions, and beside them the queue of values that have been
appended and not read. A byte is a digit below `Radix`, a GUID has `GuidBytes` of them. `Connection`
has the positions with their wrap, this module the contents. The first byte of a packed GUID has a
bit for each byte that follows: `Bits` are the bits of a byte, and `BitsAssumption` says that there
is a byte for each set of places, as there is for 8 bytes of 8 bits.

*SRP6*: numbers are numbers, and travel as little-endian digits of base `Base`; what is hashed is as
many digits as the number has, which is where `BigNumber`'s conversions could go wrong. `Hash` is a
parameter. Where a digest is only compared, the sequence that was hashed stands for it, which
assumes that SHA-1 does not collide. The server is external and keeps to the protocol; its account
may have another password than the client.

*StreamCrypto*: a byte is encrypted with a key and a position in that key's stream, and comes out
right if it is decrypted with the same two. The bytes that RC4 makes are left out.

The look-up in the configuration is a recursive operator, and `Srp6` reaches recursive operators of
the community modules, so nothing is proved about these two.

## 3. The runs

| Run | Checks | Bounds |
|---|---|---|
| `login` | `IInv` (with `TypeOK`), `OneRead`, `ReadHasRoom`, `MutualAuth`, `CredentialsOnIo`, `LoginResolves` | a proof reply of 32 bytes, cuts after 2, 3, 21 and 59 bytes, one stray message, damaged and failing writes, closing and reset, fairness |
| `strays` | `HookOnce`, `StepErrorIsReal`, `RefusalIsReal`, `InvalidProofIsReal`, `ClosingIsFinal`, `LoginSpec` | a proof reply of 36 bytes, a cut after 2 bytes, two messages out of turn, the same losses |
| `proof_size` | `StepErrorIsReal` (violated) | no cuts, a proof reply of 32 bytes |
| `refusal_cut` | `RefusalIsReal` (violated) | a cut after 3 bytes |
| `proof_cut` | `InvalidProofIsReal` (violated) | a cut after 21 bytes |
| `lifecycle` | `LifeInv` (with `TypeOK`), `AnsweredBeforeExit`, `QuitEnds`, `PingAnswered`, `ExitEnds` | five console lines of any kind, fairness |
| `hooks` | `HooksInv` (with `TypeOK`), `SafeUnlessRaced`, `RefsExact`, `RunsHooked`, `HooksKeepReports` | two files of one name, three loads, three reported logins, three hooks at a time; two loads and two logins, and two hooks, when a race is behind (`AfterRace`) |
| `client` | `ClientInv` (with `ClientTypeOK`), `HeardByCurrent`, `ListKeepsAll`, `LifecycleImplemented`, `LoginsImplemented`, `ClientKeepsReports` | one console line of any kind, so two loads; two logins; fairness |
| `parts` | `ReachableFound`, `ReadsBack`, `RightPasswordLogsIn`, `AuthedSharesSecret`, `MisreadOnlyAcrossSetup` | files of up to three levels with two items each; three values in a buffer; a group of 79 elements, numbers of four digits of base 3; four bytes in each direction |
| | `CommandsAct` | lines of up to four of nine pieces: commands, parts of them, capitals, blanks, a letter that is not ASCII |
| | `LockInv`, `WritersExclude`, `MissedOnlyInWindow`, `OneOwner`, `CleanEnd`, `ColorKept` | three threads with locks; three users, three objects; three threads with three messages each |
| `pool_end` | `ReturnsToExisting` (violated) | two users, two objects |
| `hash` | `HashIsFNV1a` (violated) | two letters |
| `alias` | `OnlyCommandsAct` (violated) | two letters |

The bounds are enough for what they check.

* A conversation has two answers, so two stray messages can come before, between and after them.
  The cuts are those behind which `HandleRead` decides differently: one byte less than the header
  of a challenge and exactly that header, one byte less than what a proof's comparison reads, and
  the middle of a challenge. (The theorems hold for any set of cuts.)
* `U32Wrap` is 2^16 instead of 2^32 because TLC's integers have 32 bits; the positions stay below
  2^13, so that no two values the code tells apart meet.
* Three loads are what it takes to hook a function, to discard its module while a context still
  owns it, and to delete it after that; three hooks make the vector grow twice and leave room once.
  `AfterRace` keeps what follows a race smaller: most properties say nothing of it.
  The two files differ in nothing, so states that differ by exchanging them count as one
  (`FilesAlike`); all that this run checks is safety.
* In `client` a login of the first load can be reported before, during and after the second, and
  two logins are what two threads need to meet in `push_back`.
* A lock misses a conflict between two threads; the third is a witness that the counters hold with
  more than two. A pool's stack is empty, has one object, and has more.
* In a file of three levels the search passes a structure below the top level, which is where it
  gives up. In a group of 79 elements B is a multiple of N for some keys, the difference is negative
  for about half, and S, salt and key have leading zeros for many. The server's key is any.

Deadlock is not checked where the system may stop: a login that is over, a client whose user types
nothing, a process that has ended, a reader of bytes after the last one.

What the runs show of the code:

* With the 32-byte proof reply that `NovusConnection.h:165-173` describes, **no login stays
  authenticated**: `HandleRead` takes 36 bytes, the size wraps, and the connection is closed as
  out of step right after the proof was accepted (`proof_size`). With 36 bytes the reasons are
  all true as long as no challenge or proof is cut where `HandleRead` decides (`strays`).
* A message that arrives in pieces can be taken for something else: three bytes of a challenge
  for a refusal (`refusal_cut`), an honest proof for a forged one (`proof_cut`).
* All the same, authentication is never granted wrongly (`MutualAuth`, also with strays).
* After one message without a handler the connection is deaf: `Clean()` leaves a buffer of size
  0, every later read is empty and completes at once. And a write that sends part of a packet leaves
  the login waiting for ever, for nobody looks at the count and nothing times out. `LoginResolves`
  says that there is no third way to be kept from an end, once connected.
* A tick-thread login can be answered before its credentials are stored; the proof is then wrong
  and the login fails. It cannot happen to a login made from a callback (`CredentialsOnIo`).
* A quit typed in any other form than `quit` ends the process only after one more line
  (`ExitEnds` names the wait).
* Words that are no commands can act: `iv` quits the client, because the map keeps 16 bits of a
  hash (`alias`); the commands themselves always do what they say (`CommandsAct`).
* `fnv1a_32`, which its comment calls FNV-1a, is not: it hashes the terminating zero too and takes
  chars as signed (`hash`). All hashes it is compared with are its own, so nothing comes of it.
* A reload while a login is being reported does reach freed memory, and so does a callback that
  registers another when the vector is full. `SafeUnlessRaced` says that there is one other way: a
  context that was last used for a callback of an older load changes to one of the newest load while
  that load has scripts left to load. It lets go of the last reference, and `Release` reads the
  function that a module of the same name, or of another one discarded then, has taken away. Reloads
  while no login is under way are safe, whatever the files are called; so are reports while nothing
  is loaded, if no callback registers; and with a single script in the directory, contexts that
  change their function.
* Until such a race, a report runs the callbacks that were hooked when it began, each once and in
  the order of their registration, and a reload leaves none of the old ones (`HooksKeepReports`). A
  callback that registers itself again while there is room is not called twice by that report: the
  loop has read the end before.
* A login keeps no tie to the script that made it: after a reload its challenge is reported to the
  new callbacks (`HeardByCurrent`), beside the new login the reloaded `main()` has made.
* A connection can be lost from the list of connections; it takes a login from a callback while a
  script's `main()` logs in, and nothing else does it (`ListKeepsAll`).
* The lock misses a reader and a writer whose constructors overlap in one way, and no other; two
  writers it never misses.
* The pool does not keep its promise while it is destroyed: a deleter may lock a pool whose mutex
  and stack are gone and add to it, even after the destructor has ended if another deleter still has
  the pointer (`pool_end`). Up to there objects have one owner (`OneOwner`), and a pool of which no
  object is in use when its destructor begins comes to a clean end, whichever deleters are still on
  their way out (`CleanEnd`). When `add` throws an object is deleted twice: by the pointer made for
  `add`, and by the deleter that swallows the exception.
* Below the top level of a configuration an option behind a structure is not found, and the default
  is used instead; `ReachableFound` says exactly which options are.
* The two ends of an encrypted connection have to be set up at the same byte of each direction. One
  byte in between, and everything after it is misread.

### Fairness

`Connection!Fairness`: both threads run; completions are served in the order they were posted, so
a write's completion is not passed over for ever by the reads of a deaf connection (the strong
fairness); the network delivers and the server answers what reaches it whole. That the peer closes
or resets, that a write fails or is cut short may happen or not, and no fairness is assumed of it;
`LoginResolves` counts a damaged packet among its outcomes, because the code has no timeout.
`ClientLifecycle!Fairness`: the scheduler runs main and the tick thread, and getline returns at
the end of input. The user is not fair.
`HeadlessClient!ClientFairness`: the same threads, the tick thread with its script steps, and the io
thread inside a report; `Start()` blocks until the connect is decided, which the operating system
bounds. That a script ends its `main()` and a callback returns is assumed with it: the model has no
script that loops. The server need not answer. `LifecycleImplemented` is `ClientLifecycle`'s
specification with its fairness, so its liveness holds of the composition too.

## 4. What is proved

`ConnectionProofs` proves, for every proof reply size from 23 to 4096, every set of cuts, every
number of stray messages, with and without losses:

* `Invariance`: `Spec => []IInv`, from `InitInv` and `StepKeepsInv`;
* from it `TypeCorrect`, `OneReadHolds`, `ReadHasRoomHolds`, `MutualAuthHolds`,
  `HookOnceHolds`, `CredentialsOnIoHolds`;
* `ClosingIsFinalHolds`, an action property;
* `LoginImplemented`: `Connection` implements `LoginProtocol`, by the mapping `LoginPhase`.

The assumptions are the named ones in `Connection`: the sizes of a reply, a wrap of at least
2^16, offsets that are positive.

Three more theorems are about what the connection says of the server, and hold where the network
cuts no message at which `HandleRead` is misled. Each has the hypothesis it needs and no other:

* `RefusalIsRealHolds`: if no message is cut after 3 bytes;
* `InvalidProofIsRealHolds`: if none is cut after 5 to 21 bytes, that is behind a proof's header
  and before the end of its M2;
* `StepErrorIsRealHolds`: if a proof's reply has the 36 bytes `HandleRead` takes and no message is
  cut after 4 to 118 bytes (`WholeSuccess`).

None of these hypotheses can be weaker: a single cut at an offset they exclude, or a proof's reply of
35 or 37 bytes, is enough to break the property. The violated runs `refusal_cut`, `proof_cut` and
`proof_size` each have one such network; the run `strays` has one inside of all three.

None of the safety properties is inductive. `TypeOK` alone fails where `AsyncRead` subtracts the
positions: after a handler has run, `readPos` may be beyond `writePos`. `BufferInv` says why
that is never moved to the front: the first byte in the buffer is then still the command of the
phase that has just passed, which the status check refuses. `LogInv` ties what has been reported
and proved to the status; `WireInv` says that what arrives has been sent, which `MutualAuth`
needs for its last conjunct; `OfflineInv` says that nothing has happened to a connection before
it is made, which the refinement needs. The step lemma has one case for each action and one step
for each part of the invariant.

The three theorems about what is said need a second invariant (`TurnInvariance`), which says
something only as long as the server has sent nothing out of turn. `Replied` and `Advanced` tie
what has been written, answered and computed to the status; `Positioned` says where the bytes of
the one reply under way are: the first ones in the buffer, those that follow in the kernel, the rest
on the wire or lost (`ReplyUnderWay`). So the first byte of the buffer is that of the reply the
status waits for, unless the challenge was cut and `HandleRead` took 119 bytes of it all the same.
The cases of the step lemma are grouped by what they do to that reply: leave it, move it from wire
to kernel or from kernel to buffer, lose it, begin it, use it up, or stop reading. `StepErrorIsReal`
needs `AuthedQuiet` besides: nothing comes any more after an accepted proof.

`ClientLifecycleProofs` proves, for any number of console lines:

* `LifeInvariance`: `Spec => []LifeInv`, from `LifeInitInv` and `StepKeepsLife`;
* from it `LifeTypeCorrect` and `AnsweredBeforeExitHolds`.

`AnsweredBeforeExit` is not inductive: that a ping has been answered when main leaves its loop rests
on where it was before. `LifeInv` follows the messages: the input queue is the end of what was
passed that is not taken yet (`QueueIsRest`); an exit is the last message that is taken
(`ExitIsLast`); its confirmation is the last answer and takes main out of the loop
(`ConfirmIsLast`); the pings taken are as many as were printed and wait to be (`PingsCounted`). When
the confirmation is taken, nothing waits, and the pings taken are those before the first exit.
The only assumption is that `MaxLines` is a natural number.

`AtomicLockProofs` proves, for any finite set of threads:

* `LockInvariance`: `LockSpec => []LockInv`, with one lemma for each of the six actions;
* from it `WritersExcludeHolds` and `MissedOnlyInWindowHolds`.

The inductive part is `Passed`, that of two writers one has read a count that is not 0, and
`Known`, that a reader who has seen no writer is in the window of every writer there is. They need
`CountsExact`, which counts threads by the cardinality of a set.

`ScriptHooksProofs` proves, for any finite set of files with any names and any number of loads,
logins and hooks:

* `HooksInvariance`: `Spec => []HooksInv`, with one lemma for each action of the two threads;
* from it `HooksTypeCorrect`, `SafeUnlessRacedHolds`, `RefsExactHolds`, `RunsHookedHolds` and
  `OneContextHolds`, that the thread-local pool never hands out a second context;
* `HooksKeepReportsHolds`: `ScriptHooks` implements `HookReports`.

`HooksInv` has two halves. What holds after a race too: the types, a `push_back` that writes
inside the vector it has measured (`PushInBounds`), the one context (`ContextKept`), and the order
of a load (`LoadOrder`). And what holds as long as nothing has overlapped: each thread's loop still
sees the vector it has read (`LoopsCurrent`), and the hooked functions and those contexts own are of
modules that are there (`HookedAlive`), and what a context is letting go of is of an older load, and
there unless a later script has been loaded (`LosesOld`). That a module is there follows from
`RefsExact` in the other direction: a count of 0 means that no hook, no context and no registration
has the function.
The counts are cardinalities of sets of places, and the lemmas about them (one owner more, one
less) are stated once.

The refinement has one lemma for each action that the scripts see, named for the two actions it
relates (`MainRegisteredRegisters`, `PrepareHookCalls`); the others stutter (`OthersStutter`). Where
an action sets `raced`, the step is `Break`: `RaceBreaks` shows that the io thread is then in a
report and that the hooks change, whatever the action was. Where it does not, the loop's buffer is the
vector's and nothing has been moved (`LoopsCurrent`), so the cells are as they were up to the end the
loop has seen; `StretchKept` and `StretchAppended` say what becomes of the sequence they stand for.
`ClearHooksReloads` shows that no module of the newest load before a reload is one of the newest after
it: a module keeps the number of its load, and the number of loads has grown.

`HeadlessClientProofs` proves, for any number of console lines and logins:

* `ClientImplementsLifecycle`: every step of the composition is one of `ClientLifecycle` or leaves
  its variables alone, so `ClientAnswersBeforeExit` follows from `ClientLifecycleProofs`;
* `ClientInvariance`: `ClientSpec => []ClientInv`;
* from it `ClientTypeCorrect`, `HeardByCurrentHolds`, `ListKeepsAllHolds`;
* `LoginsImplementedHolds`: every connection implements `LoginProtocol`;
* `ClientKeepsReportsHolds`: the composition implements `HookReports`.

`HeardByCurrent` needs what a report in progress has said and has left to say (`HeardSoFar`), and
that only the newest script is hooked (`ScriptInPhase`). `ListKeepsAll` needs what a thread that is
inside `push_back` has read of the list (`SeenKeepsAll`), and that the threads log in with
connections of their own (`LoginsApart`). That there is one load more than lines at most
(`LoadsCounted`) is counted along the queue with `ClientLifecycle`'s invariant.
`ClientKeepsReports` needs one thing that the invariant does not say, that there is no connection
before the first load (`LoadedFirst`); that the report under way is undisturbed when the client is
follows from the one connection it belongs to (`ReportUndisturbed`).

`StreamCryptoProofs` proves `CryptoInvariance` and `MisreadOnlyHolds`, for any number of bytes in
any pieces: each byte under way bears the mark of its place in the sender's stream (`UnderWay`),
and each cipher stands where the bytes since its end's setup have moved it (`InStream`).
`UtilitiesProofs` proves `PoolInvariance`, `OneOwnerHolds` and `CleanEndHolds`, for any users and any
finite set of objects: an object is on the stack or with a user, once, or has left both and been
deleted; a deleter that has not added its object still holds it, so that one which comes too late is
of an object that was in use when the destructor began. After a step that uses a destroyed member
nothing is claimed. And it proves `ColorInvariance` and `ColorKeptHolds`, for any threads and messages.

`ByteBufferProofs` proves `BufferInvariance` and `ReadsBackHolds`, for bytes and GUIDs of any size that
satisfy `BitsAssumption`, any words and characters, any number of values. The inductive part is
`UnreadIsQueue`: there are positions, the first at the read position and the last at the write
position, between which lie the bytes of each waiting value in turn. `ReadsValue` says that a value is
read back from any place where its bytes lie, whatever lies behind them; for a string that is
that its terminator is the first zero, for a GUID that the mark has the bits of its bytes and that the
k-th packed byte is the one with k packed before it (`PlacesApart`). The lemmas `LaidBehind`,
`LaidFirst` and `LaidMoved` say what becomes of the positions when a value is appended, read, or moved
to the front.

The assumptions of all these are the named ones of the modules: sets that are finite, bounds that
are natural numbers, a mark for no object that is not an object, a main thread that is not one of
the others. TLC evaluates them in the runs.

Only model-checked:

* all liveness (`LoginResolves`, `QuitEnds`, `PingAnswered`, `ExitEnds`, and the fairness in
  `LifecycleImplemented`), which is beyond the prover;
* `ReachableFound` of `ConfigHandler`: the search is a recursion over a document of any depth, and that
  it agrees with its reference needs an induction over documents;
* `RightPasswordLogsIn` and `AuthedSharesSecret` of `Srp6`: they rest on powers modulo a prime and on
  the digits of a number, each a recursion over data with laws that need induction;
* `CommandsAct` of `Commands`: the hash is a recursion of exclusive-ors over a word, and the property
  compares its values on single lines.

## 5. Not modelled, and the plan

* Third-party code: AngelScript and its add-ons, asio, json, OpenSSL, the concurrent queue,
  robin-hood hashing, amy. It is most of the repository's lines. asio, the queue, and the
  reference counts of AngelScript's functions and contexts appear as the program uses them.
* The function tables of the two script engines. A callback that was compiled in the tick thread's
  engine runs in the io thread's, and a call of another function of its script is looked up by
  number in the wrong engine; what it then does depends on byte code that is not modelled.
* The memory errors of two single statements, which one state shows as well as all: a username
  longer than 16 bytes is copied past the end of a packet (`NovusConnection.h:83`), and a hook
  number from a script indexes an array of one element (`PacketHooks.h:21`). The models take names
  that fit and the one hook there is.
* A second `Start()` of the client handler: `main` makes one.
* Three more hazards of `PROJECT.json` that no property catches; each has a note there: the first
  element of an empty vector (`ConsoleCommands.h:32`) is an outcome the properties accept, a string
  without a terminator (`ByteBuffer.h:80`) is not among the values of `ByteBuffer`, and
  `ReachableFound` takes the option lost behind a structure (`ConfigHandler.cpp:42`) as given.
* SHA-1, HMAC and RC4 as calculations; the hexadecimal output of big numbers.
* Timers, `any`, the table of opcodes: no other part depends on a state of theirs. The tick's timing
  is the step `Sleep`.

What is left: the two engines' function tables, if callbacks that call functions of their scripts come
into use, and the induction that `Srp6` and `ConfigHandler` need, if the prover comes to have it.
