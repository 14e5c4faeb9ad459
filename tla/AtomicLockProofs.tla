--------------------------- MODULE AtomicLockProofs ---------------------------
(***************************************************************************)
(* Proofs about AtomicLock, for any finite set of threads.                 *)
(***************************************************************************)
EXTENDS AtomicLock, FiniteSetTheorems, TLAPS

\* The threads that are in are finitely many, and when there is one its counter
\* is not 0 (AtomicLock.h:28-32).
LEMMA Counting ==
    /\ IsFiniteSet(Writers) /\ Cardinality(Writers) \in Nat
    /\ IsFiniteSet(Readers) /\ Cardinality(Readers) \in Nat
    /\ Cardinality(Writers) = 0 <=> Writers = {}
    /\ Cardinality(Readers) = 0 <=> Readers = {}
<1>1. Writers \subseteq LockThreads /\ Readers \subseteq LockThreads
      BY DEF Writers, Readers
<1>2. IsFiniteSet(Writers) /\ IsFiniteSet(Readers)
      BY <1>1, FS_Subset, LockThreadsAssumption
<1> QED BY <1>2, FS_CardinalityType, FS_EmptySet

\* One thread more or one less makes a difference of one.
LEMMA OneMore ==
    ASSUME NEW S, NEW x, IsFiniteSet(S), x \notin S
    PROVE  Cardinality(S \cup {x}) = Cardinality(S) + 1
BY FS_AddElement

\* A lock's end takes one thread from the counts (AtomicLock.h).
LEMMA OneLess ==
    ASSUME NEW S, NEW x, IsFiniteSet(S), x \in S
    PROVE  Cardinality(S \ {x}) = Cardinality(S) - 1
BY FS_RemoveElement

\* The counters start at 0 with nobody in.
LEMMA LockInitInv == LockInit => LockInv
<1> SUFFICES ASSUME LockInit PROVE LockInv
    OBVIOUS
<1>1. LockTypeOK
      BY DEF LockInit, LockTypeOK
<1>2. Writers = {} /\ Readers = {} /\ Looking = {}
      BY DEF LockInit, Writers, Readers, Looking
<1>3. Cardinality(Writers) = 0 /\ Cardinality(Readers) = 0
      BY <1>2, FS_EmptySet
<1>4. CountsExact
      BY <1>3 DEF LockInit, CountsExact
<1>5. Passed /\ Known
      BY <1>2 DEF LockInit, Passed, Known
<1> QED BY <1>1, <1>4, <1>5 DEF LockInv

\* A writer's count: the readers that are looking at that moment are its window,
\* and a second writer reads a count that is not 0 (AtomicLock.h:28).
LEMMA CountWriterInv ==
    ASSUME LockInv, NEW t \in LockThreads, CountWriter(t) PROVE LockInv'
<1> USE DEF CountWriter
<1>0. LockTypeOK /\ CountsExact /\ Passed /\ Known
      BY DEF LockInv
<1>1. LockTypeOK'
  <2>1. writers + 1 \in Nat /\ writers \in Nat /\ Looking \subseteq LockThreads
        BY <1>0 DEF LockTypeOK, Looking
  <2> QED BY <1>0, <2>1 DEF LockTypeOK
<1>2. t \notin Writers /\ Writers' = Writers \cup {t}
      BY <1>0 DEF LockTypeOK, Writers
<1>3. Readers' = Readers /\ Looking' = Looking
      BY <1>0 DEF LockTypeOK, Readers, Looking
<1>4. CountsExact'
  <2>1. Cardinality(Writers') = Cardinality(Writers) + 1
        BY <1>2, Counting, OneMore
  <2> QED BY <1>0, <1>3, <2>1 DEF CountsExact
<1>5. ASSUME NEW u \in Writers PROVE writercount'[t] # 0
  <2>1. writers # 0
        BY <1>0, <1>5, Counting DEF CountsExact
  <2> QED BY <1>0, <2>1 DEF LockTypeOK
<1>6. Passed'
  <2>1. \A u \in LockThreads : u # t => writercount'[u] = writercount[u] /\ at'[u] = at[u]
        BY <1>0 DEF LockTypeOK
  <2>2. at'[t] = "counted"
        BY <1>0 DEF LockTypeOK
  <2>3. \A u \in LockThreads : at'[u] \in {"writing", "reading"} => writercount'[u] = 0
        BY <1>0, <2>1, <2>2 DEF Passed
  <2>4. \A u, v \in Writers' : u # v => writercount'[u] # 0 \/ writercount'[v] # 0
    <3>1. Writers \subseteq LockThreads
          BY DEF Writers
    <3> QED BY <1>0, <1>2, <1>5, <2>1, <3>1 DEF Passed
  <2> QED BY <2>3, <2>4 DEF Passed
<1>7. Known'
  <2>1. window'[t] = Looking /\ at'[t] = "counted"
        BY <1>0 DEF LockTypeOK
  <2>2. \A u \in LockThreads : u # t => window'[u] = window[u] /\ at'[u] = at[u]
                                        /\ writercount'[u] = writercount[u]
        BY <1>0 DEF LockTypeOK
  <2>3. Writers \subseteq LockThreads /\ Looking \subseteq LockThreads /\ t \notin Looking
        BY DEF Writers, Looking
  <2>4. \A r \in Looking', w \in Writers' : writercount'[r] = 0 => r \in window'[w]
        BY <1>0, <1>2, <1>3, <2>1, <2>2, <2>3 DEF Known
  <2>5. \A r \in Readers', w \in Writers' : at'[w] = "writing" => r \in window'[w]
        BY <1>0, <1>2, <1>3, <2>1, <2>2, <2>3 DEF Known
  <2> QED BY <2>4, <2>5 DEF Known
<1> QED BY <1>1, <1>4, <1>6, <1>7 DEF LockInv

\* A writer that passes its assertions is the only one to have done so, and finds
\* no reader in: those still to come were looking before it counted itself
\* (AtomicLock.h:29-33).
LEMMA LookForReadersInv ==
    ASSUME LockInv, NEW t \in LockThreads, LookForReaders(t) PROVE LockInv'
<1> USE DEF LookForReaders
<1>0. LockTypeOK /\ CountsExact /\ Passed /\ Known
      BY DEF LockInv
<1>1. CASE ~AloneAsWriter(t)
      BY <1>0, <1>1 DEF LockInv, LockTypeOK, CountsExact
<1>2. CASE AloneAsWriter(t)
  <2>1. LockTypeOK'
        BY <1>0, <1>2 DEF LockTypeOK, Looking
  <2>2. Writers' = Writers /\ Readers' = Readers /\ Looking' = Looking /\ t \in Writers
        BY <1>0, <1>2 DEF LockTypeOK, Writers, Readers, Looking
  <2>3. CountsExact'
        BY <1>0, <1>2, <2>2 DEF CountsExact
  <2>4. Readers = {}
        BY <1>0, <1>2, Counting DEF CountsExact, AloneAsWriter
  <2>5. Passed'
        BY <1>0, <1>2, <2>2 DEF LockTypeOK, Passed, AloneAsWriter
  <2>6. Known'
    <3>1. window'[t] = window[t] \cap Looking
          BY <1>0, <1>2 DEF LockTypeOK
    <3>2. \A u \in LockThreads : u # t => window'[u] = window[u]
          BY <1>0, <1>2 DEF LockTypeOK
    <3>3. Writers \subseteq LockThreads
          BY DEF Writers
    <3>4. \A r \in Looking, w \in Writers : writercount[r] = 0 => r \in window'[w]
          BY <1>0, <3>1, <3>2, <3>3 DEF Known
    <3> QED BY <1>2, <2>2, <2>4, <3>4 DEF Known
  <2> QED BY <2>1, <2>3, <2>5, <2>6 DEF LockInv
<1> QED BY <1>1, <1>2

\* A writer leaves (AtomicLock.h:34-37).
LEMMA UnlockWriteInv ==
    ASSUME LockInv, NEW t \in LockThreads, UnlockWrite(t) PROVE LockInv'
<1> USE DEF UnlockWrite
<1>0. LockTypeOK /\ CountsExact /\ Passed /\ Known
      BY DEF LockInv
<1>1. t \in Writers /\ Writers' = Writers \ {t}
      BY <1>0 DEF LockTypeOK, Writers
<1>2. Readers' = Readers /\ Looking' = Looking
      BY <1>0 DEF LockTypeOK, Readers, Looking
<1>3. writers # 0
      BY <1>0, <1>1, Counting DEF CountsExact
<1>4. LockTypeOK'
  <2>1. writers - 1 \in Nat
        BY <1>0, <1>3 DEF LockTypeOK
  <2> QED BY <1>0, <2>1 DEF LockTypeOK
<1>5. CountsExact'
  <2>1. Cardinality(Writers') = Cardinality(Writers) - 1
        BY <1>1, Counting, OneLess
  <2> QED BY <1>0, <1>2, <2>1 DEF CountsExact
<1>6. \A u \in LockThreads : u # t => at'[u] = at[u]
      BY <1>0 DEF LockTypeOK
<1>7. at'[t] = "idle"
      BY <1>0 DEF LockTypeOK
<1>8. Passed'
      BY <1>0, <1>1, <1>6, <1>7 DEF Passed
<1>9. Known'
  <2>1. Writers \subseteq LockThreads
        BY DEF Writers
  <2> QED BY <1>0, <1>1, <1>2, <1>6, <2>1 DEF Known
<1> QED BY <1>4, <1>5, <1>8, <1>9 DEF LockInv

\* A reader that looks while a writer is in reads a count that is not 0
\* (AtomicLock.h:45).
LEMMA LookForWritersInv ==
    ASSUME LockInv, NEW t \in LockThreads, LookForWriters(t) PROVE LockInv'
<1> USE DEF LookForWriters
<1>0. LockTypeOK /\ CountsExact /\ Passed /\ Known
      BY DEF LockInv
<1>1. LockTypeOK'
      BY <1>0 DEF LockTypeOK
<1>2. Writers' = Writers /\ Readers' = Readers /\ t \notin Writers
      BY <1>0 DEF LockTypeOK, Writers, Readers
<1>3. CountsExact'
      BY <1>0, <1>2 DEF CountsExact
<1>4. \A u \in LockThreads : u # t => at'[u] = at[u] /\ writercount'[u] = writercount[u]
      BY <1>0 DEF LockTypeOK
<1>5. at'[t] = "looked" /\ writercount'[t] = writers
      BY <1>0 DEF LockTypeOK
<1>6. Writers \subseteq LockThreads
      BY DEF Writers
<1>7. Passed'
  <2>1. \A u \in LockThreads : at'[u] \in {"writing", "reading"} => writercount'[u] = 0
        BY <1>0, <1>4, <1>5 DEF Passed
  <2>2. \A u, v \in Writers' : u # v => writercount'[u] # 0 \/ writercount'[v] # 0
        BY <1>0, <1>2, <1>4, <1>6 DEF Passed
  <2> QED BY <2>1, <2>2 DEF Passed
<1>8. Known'
  <2>1. \A w \in Writers : writers # 0
        BY <1>0, Counting DEF CountsExact
  <2>2. \A r \in Looking' : r = t \/ r \in Looking
        BY <1>4 DEF Looking
  <2>3. Looking \subseteq LockThreads /\ t \notin Looking
        BY DEF Looking
  <2>4. \A r \in Looking', w \in Writers : writercount'[r] = 0 => r \in window[w]
        BY <1>0, <1>4, <1>5, <2>1, <2>2, <2>3 DEF Known
  <2>5. \A r \in Readers, w \in Writers : at'[w] = "writing" => r \in window[w]
        BY <1>0, <1>2, <1>4, <1>6 DEF Known
  <2> QED BY <1>2, <2>4, <2>5 DEF Known
<1> QED BY <1>1, <1>3, <1>7, <1>8 DEF LockInv

\* A reader that passes was looking when every writer that is in counted itself
\* (AtomicLock.h:46-49).
LEMMA CountReaderInv ==
    ASSUME LockInv, NEW t \in LockThreads, CountReader(t) PROVE LockInv'
<1> USE DEF CountReader
<1>0. LockTypeOK /\ CountsExact /\ Passed /\ Known
      BY DEF LockInv
<1>1. CASE ~NoWriterSeen(t)
      BY <1>0, <1>1 DEF LockInv, LockTypeOK, CountsExact
<1>2. CASE NoWriterSeen(t)
  <2>1. LockTypeOK'
        BY <1>0, <1>2 DEF LockTypeOK
  <2>2. t \notin Readers /\ Readers' = Readers \cup {t}
        BY <1>0, <1>2 DEF LockTypeOK, Readers
  <2>3. Writers' = Writers /\ Looking' = Looking \ {t} /\ t \in Looking
        BY <1>0, <1>2 DEF LockTypeOK, Writers, Looking
  <2>4. CountsExact'
    <3>1. Cardinality(Readers') = Cardinality(Readers) + 1
          BY <2>2, Counting, OneMore
    <3> QED BY <1>0, <1>2, <2>3, <3>1 DEF CountsExact
  <2>5. \A u \in LockThreads : u # t => at'[u] = at[u]
        BY <1>0, <1>2 DEF LockTypeOK
  <2>6. Writers \subseteq LockThreads /\ t \notin Writers
        BY DEF Writers
  <2>7. Passed'
    <3>1. \A u \in LockThreads : at'[u] \in {"writing", "reading"} => writercount'[u] = 0
          BY <1>0, <1>2, <2>5 DEF Passed, NoWriterSeen
    <3>2. \A u, v \in Writers' : u # v => writercount'[u] # 0 \/ writercount'[v] # 0
          BY <1>0, <2>3 DEF Passed
    <3> QED BY <3>1, <3>2 DEF Passed
  <2>8. Known'
    <3>1. \A w \in Writers : t \in window[w]
          BY <1>0, <1>2, <2>3 DEF Known, NoWriterSeen
    <3>2. \A r \in Looking', w \in Writers' : writercount'[r] = 0 => r \in window'[w]
          BY <1>0, <2>3 DEF Known
    <3>3. \A r \in Readers', w \in Writers' : at'[w] = "writing" => r \in window'[w]
          BY <1>0, <2>2, <2>3, <2>5, <2>6, <3>1 DEF Known
    <3> QED BY <3>2, <3>3 DEF Known
  <2> QED BY <2>1, <2>4, <2>7, <2>8 DEF LockInv
<1> QED BY <1>1, <1>2

\* A reader leaves (AtomicLock.h:50-53).
LEMMA UnlockReadInv ==
    ASSUME LockInv, NEW t \in LockThreads, UnlockRead(t) PROVE LockInv'
<1> USE DEF UnlockRead
<1>0. LockTypeOK /\ CountsExact /\ Passed /\ Known
      BY DEF LockInv
<1>1. t \in Readers /\ Readers' = Readers \ {t}
      BY <1>0 DEF LockTypeOK, Readers
<1>2. Writers' = Writers /\ Looking' = Looking /\ t \notin Writers
      BY <1>0 DEF LockTypeOK, Writers, Looking
<1>3. readers # 0
      BY <1>0, <1>1, Counting DEF CountsExact
<1>4. LockTypeOK'
  <2>1. readers - 1 \in Nat
        BY <1>0, <1>3 DEF LockTypeOK
  <2> QED BY <1>0, <2>1 DEF LockTypeOK
<1>5. CountsExact'
  <2>1. Cardinality(Readers') = Cardinality(Readers) - 1
        BY <1>1, Counting, OneLess
  <2> QED BY <1>0, <1>2, <2>1 DEF CountsExact
<1>6. \A u \in LockThreads : u # t => at'[u] = at[u]
      BY <1>0 DEF LockTypeOK
<1>7. at'[t] = "idle"
      BY <1>0 DEF LockTypeOK
<1>8. Passed'
      BY <1>0, <1>2, <1>6, <1>7 DEF Passed
<1>9. Known'
  <2>1. Writers \subseteq LockThreads
        BY DEF Writers
  <2> QED BY <1>0, <1>1, <1>2, <1>6, <2>1 DEF Known
<1> QED BY <1>4, <1>5, <1>8, <1>9 DEF LockInv

\* The inductive invariant holds of any number of threads: until an assertion
\* fails the counters are exact (AtomicLock.h:5-54).
THEOREM LockInvariance == LockSpec => []LockInv
<1>1. LockInv /\ [LockNext]_lockVars => LockInv'
  <2> SUFFICES ASSUME LockInv, [LockNext]_lockVars PROVE LockInv'
      OBVIOUS
  <2>1. CASE LockNext
        BY <2>1, CountWriterInv, LookForReadersInv, UnlockWriteInv, LookForWritersInv,
           CountReaderInv, UnlockReadInv DEF LockNext, WriteLock, ReadLock
  <2>2. CASE UNCHANGED lockVars
        BY <2>2 DEF lockVars, LockInv, LockTypeOK, CountsExact, Passed, Known,
           Writers, Readers, Looking
  <2> QED BY <2>1, <2>2
<1> QED BY <1>1, LockInitInv, PTL DEF LockSpec

\* Two threads never write at once (AtomicLock.h:26-33).
THEOREM WritersExcludeHolds == LockSpec => []WritersExclude
<1>1. LockInv => WritersExclude
      BY DEF LockInv, Passed, Writers, WritersExclude
<1> QED BY <1>1, LockInvariance, PTL

\* A writer goes unnoticed by a reader only inside the reader's constructor, for
\* any number of threads (AtomicLock.h:43-49).
THEOREM MissedOnlyInWindowHolds == LockSpec => []MissedOnlyInWindow
<1>1. LockInv => MissedOnlyInWindow
      BY DEF LockInv, Known, Writers, Readers, MissedOnlyInWindow
<1> QED BY <1>1, LockInvariance, PTL
===============================================================================
