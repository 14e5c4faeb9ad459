------------------------------ MODULE AtomicLock ------------------------------
(***************************************************************************)
(* WriteLock and ReadLock (AtomicLock.h).  They block nobody: two counters *)
(* say who is in, and an assertion ends the process when a lock is taken   *)
(* against another.  Each constructor makes two steps on the counters, and *)
(* the steps of other threads may come in between.  A thread takes one     *)
(* lock at a time.                                                         *)
(***************************************************************************)
EXTENDS Integers, FiniteSets

CONSTANT LockThreads

ASSUME LockThreadsAssumption == IsFiniteSet(LockThreads)

VARIABLES
    writers, readers,   \* GetWriters<T>() and GetReaders<T>()
    at,                 \* where each thread stands
    writercount,        \* the number of writers its constructor has read
    window,             \* per writer, the readers whose look for writers came before
                        \* the writer's count and whose own count was still to come
    aborted             \* an assertion has failed

lockVars == <<writers, readers, at, writercount, window, aborted>>

LockInit ==
    /\ writers = 0 /\ readers = 0
    /\ at = [t \in LockThreads |-> "idle"]
    /\ writercount = [t \in LockThreads |-> 0]
    /\ window = [t \in LockThreads |-> {}]
    /\ aborted = FALSE

Looking == {t \in LockThreads : at[t] = "looked"}

-----------------------------------------------------------------------------
\* WriteLock(): fetch_add, then a load of the readers and the assertions.

CountWriter(t) ==
    /\ ~aborted /\ at[t] = "idle"
    /\ writers' = writers + 1
    /\ writercount' = [writercount EXCEPT ![t] = writers]
    /\ at' = [at EXCEPT ![t] = "counted"]
    /\ window' = [window EXCEPT ![t] = Looking]
    /\ UNCHANGED <<readers, aborted>>

\* Fault: a writer does not look for other writers.
ReadersOnly(t) == readers = 0

AloneAsWriter(t) == writercount[t] = 0 /\ readers = 0

LookForReaders(t) ==
    /\ ~aborted /\ at[t] = "counted"
    /\ IF AloneAsWriter(t)
       THEN /\ at' = [at EXCEPT ![t] = "writing"]
            /\ window' = [window EXCEPT ![t] = @ \cap Looking]
            /\ UNCHANGED aborted
       ELSE aborted' = TRUE /\ UNCHANGED <<at, window>>
    /\ UNCHANGED <<writers, readers, writercount>>

UnlockWrite(t) ==
    /\ ~aborted /\ at[t] = "writing"
    /\ writers' = writers - 1
    /\ at' = [at EXCEPT ![t] = "idle"]
    /\ UNCHANGED <<readers, writercount, window, aborted>>

-----------------------------------------------------------------------------
\* ReadLock(): a load of the writers, then the count and the assertion.

LookForWriters(t) ==
    /\ ~aborted /\ at[t] = "idle"
    /\ writercount' = [writercount EXCEPT ![t] = writers]
    /\ at' = [at EXCEPT ![t] = "looked"]
    /\ UNCHANGED <<writers, readers, window, aborted>>

\* Fault: a reader's assertion is left out.
AnyReader(t) == TRUE

NoWriterSeen(t) == writercount[t] = 0

CountReader(t) ==
    /\ ~aborted /\ at[t] = "looked"
    /\ readers' = readers + 1
    /\ IF NoWriterSeen(t) THEN at' = [at EXCEPT ![t] = "reading"] /\ UNCHANGED aborted
                          ELSE aborted' = TRUE /\ UNCHANGED at
    /\ UNCHANGED <<writers, writercount, window>>

\* Fault: a reader's destructor leaves the count as it is.
UnlockReadKeeps(t) ==
    /\ ~aborted /\ at[t] = "reading"
    /\ at' = [at EXCEPT ![t] = "idle"]
    /\ UNCHANGED <<writers, readers, writercount, window, aborted>>

UnlockRead(t) ==
    /\ ~aborted /\ at[t] = "reading"
    /\ readers' = readers - 1
    /\ at' = [at EXCEPT ![t] = "idle"]
    /\ UNCHANGED <<writers, writercount, window, aborted>>

-----------------------------------------------------------------------------
WriteLock(t) == CountWriter(t) \/ LookForReaders(t) \/ UnlockWrite(t)
ReadLock(t) == LookForWriters(t) \/ CountReader(t) \/ UnlockRead(t)

LockNext == \E t \in LockThreads : WriteLock(t) \/ ReadLock(t)

LockSpec == LockInit /\ [][LockNext]_lockVars
-----------------------------------------------------------------------------
\* Properties

Writers == {t \in LockThreads : at[t] \in {"counted", "writing"}}
Readers == {t \in LockThreads : at[t] = "reading"}

LockTypeOK ==
    /\ writers \in Nat /\ readers \in Nat /\ aborted \in BOOLEAN
    /\ at \in [LockThreads -> {"idle", "counted", "writing", "looked", "reading"}]
    /\ writercount \in [LockThreads -> Nat]
    /\ window \in [LockThreads -> SUBSET LockThreads]

\* Nobody has passed an assertion it should not have.
Passed ==
    /\ \A t \in LockThreads : at[t] \in {"writing", "reading"} => writercount[t] = 0
    /\ \A t, u \in Writers : t # u => writercount[t] # 0 \/ writercount[u] # 0

\* A reader who may still pass, or has passed, is known to the writer.
Known ==
    /\ \A r \in Looking, w \in Writers : writercount[r] = 0 => r \in window[w]
    /\ \A r \in Readers, w \in Writers : at[w] = "writing" => r \in window[w]

\* Until an assertion fails the counters count exactly the threads that are in.
CountsExact == ~aborted => writers = Cardinality(Writers) /\ readers = Cardinality(Readers)

\* The inductive invariant: types, exact counts, and what each passed
\* assertion says of the other threads.
LockInv == LockTypeOK /\ CountsExact /\ (~aborted => Passed /\ Known)

\* Two writers are never in at once: the second one's assertion has failed
\* (AtomicLock.h:26-33).
WritersExclude == ~aborted => \A t, u \in LockThreads :
                     at[t] = "writing" /\ at[u] = "writing" => t = u

\* A reader and a writer are in at once, unnoticed, only if the writer's whole
\* constructor ran between the reader's look for writers and the reader's count
\* (AtomicLock.h:43-49).
MissedOnlyInWindow == ~aborted => \A r, w \in LockThreads :
                         at[r] = "reading" /\ at[w] = "writing" => r \in window[w]
===============================================================================
