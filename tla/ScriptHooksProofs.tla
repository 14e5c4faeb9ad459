------------------------- MODULE ScriptHooksProofs -------------------------
(***************************************************************************)
(* Proofs about ScriptHooks, for any finite set of script files, any names *)
(* and any bounds.                                                         *)
(***************************************************************************)
EXTENDS ScriptHooks, FiniteSetTheorems, SequenceTheorems, TLAPS

(***************************************************************************)
(* What the helpers do.                                                    *)
(***************************************************************************)
Vectors == [buf : Nat, size : 0..MaxHooks + 1, cells : Seq(Nat)]

\* push_back keeps the cells before the new one, and allocates a larger buffer
\* or none at all (PacketHooks.h:19-22).
LEMMA PushedFacts ==
    ASSUME NEW m \in Nat, NEW n \in 0..MaxHooks,
           hooks \in Vectors, n <= Len(hooks.cells)
    PROVE  /\ Pushed(m, n) \in Vectors
           /\ Pushed(m, n).size = n + 1
           /\ n + 1 <= Len(Pushed(m, n).cells)
           /\ Pushed(m, n).cells[n + 1] = m
           /\ \A i \in 1..n : Pushed(m, n).cells[i] = hooks.cells[i]
           /\ \/ /\ Pushed(m, n).buf = hooks.buf
                 /\ Len(Pushed(m, n).cells) = Len(hooks.cells)
              \/ Pushed(m, n).buf = hooks.buf + 1
<1>0. /\ hooks.cells \in Seq(Nat) /\ Len(hooks.cells) \in Nat /\ hooks.buf \in Nat
      /\ n \in Nat /\ n + 1 \in 0..MaxHooks + 1
      BY BoundsAssumption DEF Vectors
<1>1. CASE n < Len(hooks.cells)
  <2>1. n + 1 \in 1..Len(hooks.cells)
        BY <1>0, <1>1
  <2>2. Pushed(m, n) = [hooks EXCEPT !.size = n + 1, !.cells[n + 1] = m]
        BY <1>1 DEF Pushed
  <2>3. Pushed(m, n) = [buf |-> hooks.buf, size |-> n + 1,
                        cells |-> [hooks.cells EXCEPT ![n + 1] = m]]
        BY <2>2 DEF Vectors
  <2> HIDE DEF Vectors
  <2>4. /\ [hooks.cells EXCEPT ![n + 1] = m] \in Seq(Nat)
        /\ Len([hooks.cells EXCEPT ![n + 1] = m]) = Len(hooks.cells)
        /\ \A j \in 1..Len(hooks.cells) : [hooks.cells EXCEPT ![n + 1] = m][j]
                                          = IF j = n + 1 THEN m ELSE hooks.cells[j]
        BY <1>0, <2>1, ExceptSeq
  <2> QED BY <1>0, <2>1, <2>3, <2>4 DEF Vectors
<1>2. CASE ~(n < Len(hooks.cells))
  <2> DEFINE old == Len(hooks.cells)
             cap == IF old + old \div 2 > n THEN old + old \div 2 ELSE n + 1
             grown == [i \in 1..cap |-> IF i <= n THEN hooks.cells[i]
                                        ELSE IF i = n + 1 THEN m ELSE 0]
  <2>1. n = old /\ old \in Nat
        BY <1>0, <1>2
  <2>2. cap \in Nat /\ n + 1 <= cap
    <3>1. \A k \in Nat : k + k \div 2 \in Nat
          BY Z3
    <3>2. old + old \div 2 \in Nat
          BY <2>1, <3>1
    <3> DEFINE more == old + old \div 2
    <3> HIDE DEF more
    <3>3. cap = (IF more > n THEN more ELSE n + 1) /\ more \in Nat
          BY <3>2 DEF more
    <3> HIDE DEF cap
    <3> QED BY <1>0, <3>3
  <2>3. Pushed(m, n) = [buf |-> hooks.buf + 1, size |-> n + 1, cells |-> grown]
        BY <1>2 DEF Pushed
  <2> HIDE DEF cap
  <2>4. \A i \in 1..cap : (IF i <= n THEN hooks.cells[i]
                           ELSE IF i = n + 1 THEN m ELSE 0) \in Nat
        BY <1>0, <2>1, <2>2
  <2>5. grown \in Seq(Nat) /\ Len(grown) = cap
        BY <2>2, <2>4, Z3
  <2>6. \A i \in 1..n : grown[i] = hooks.cells[i]
        BY <2>2
  <2>7. grown[n + 1] = m
        BY <2>2
  <2> HIDE DEF grown
  <2> QED BY <1>0, <2>2, <2>3, <2>5, <2>6, <2>7 DEF Vectors
<1> QED BY <1>0, <1>1, <1>2

\* AddRef and Release change one count and nothing else of a module.
LEMMA RefFacts ==
    ASSUME NEW ms \in Seq(Modules), NEW m \in 1..Len(ms)
    PROVE  /\ AddRef(ms, m) \in Seq(Modules) /\ Release(ms, m) \in Seq(Modules)
           /\ Len(AddRef(ms, m)) = Len(ms) /\ Len(Release(ms, m)) = Len(ms)
           /\ \A k \in 1..Len(ms) :
                 /\ AddRef(ms, m)[k].refs = ms[k].refs + (IF k = m THEN 1 ELSE 0)
                 /\ AddRef(ms, m)[k].state = ms[k].state
                 /\ AddRef(ms, m)[k].load = ms[k].load
                 /\ Release(ms, m)[k].refs = ms[k].refs - (IF k = m THEN 1 ELSE 0)
                 /\ Release(ms, m)[k].state = ms[k].state
                 /\ Release(ms, m)[k].load = ms[k].load
<1> DEFINE more == [ms[m] EXCEPT !.refs = @ + 1]
           less == [ms[m] EXCEPT !.refs = @ - 1]
<1>1. \A k \in 1..Len(ms) : ms[k] \in Modules
      BY ElementOfSeq
<1>2. more \in Modules /\ less \in Modules
  <2>1. \A r \in Modules, k \in Int : [r EXCEPT !.refs = k] \in Modules
        BY DEF Modules
  <2>2. \A r \in Modules : r.refs + 1 \in Int /\ r.refs - 1 \in Int
        BY DEF Modules
  <2> QED BY <1>1, <2>1, <2>2
<1>3. /\ more.refs = ms[m].refs + 1 /\ less.refs = ms[m].refs - 1
      /\ more.state = ms[m].state /\ less.state = ms[m].state
      /\ more.load = ms[m].load /\ less.load = ms[m].load
      BY <1>1 DEF Modules
<1>4. AddRef(ms, m) = [ms EXCEPT ![m] = more] /\ Release(ms, m) = [ms EXCEPT ![m] = less]
      BY DEF AddRef, Release
<1>5. \A k \in 1..Len(ms) : ms[k].refs \in Int
      BY <1>1 DEF Modules
<1> HIDE DEF more, less
<1>6. /\ AddRef(ms, m) \in Seq(Modules) /\ Len(AddRef(ms, m)) = Len(ms)
      /\ \A k \in 1..Len(ms) : AddRef(ms, m)[k] = IF k = m THEN more ELSE ms[k]
      BY <1>2, <1>4, ExceptSeq
<1>7. /\ Release(ms, m) \in Seq(Modules) /\ Len(Release(ms, m)) = Len(ms)
      /\ \A k \in 1..Len(ms) : Release(ms, m)[k] = IF k = m THEN less ELSE ms[k]
      BY <1>2, <1>4, ExceptSeq
<1> QED BY <1>3, <1>5, <1>6, <1>7

\* GetModule appends a module without references, and deletes none that has one
\* (ScriptHandler.cpp:88).
LEMMA ReplacedFacts ==
    ASSUME NEW f \in Files, mods \in Seq(Modules), loads \in 1..MaxLoads
    PROVE  /\ Replaced(f) \in Seq(Modules) /\ Len(Replaced(f)) = Len(mods) + 1
           /\ Replaced(f)[Len(mods) + 1] =
                 [file |-> f, load |-> loads, state |-> "live", refs |-> 0]
           /\ \A m \in 1..Len(mods) :
                 /\ Replaced(f)[m].load = mods[m].load
                 /\ Replaced(f)[m].refs = mods[m].refs
                 /\ Replaced(f)[m].state = "deleted" =>
                       mods[m].state = "deleted" \/ mods[m].refs = 0
<1> DEFINE Named(m) == m.state = "live" /\ NameOf[m.file] = NameOf[f]
           Gone(m) == \/ Named(m)
                      \/ m.state = "discarded" /\ \E i \in DOMAIN mods : Named(mods[i])
           Left(m) == IF ~Gone(m) THEN m
                      ELSE [m EXCEPT !.state = IF m.refs = 0 THEN "deleted" ELSE "discarded"]
           new == [file |-> f, load |-> loads, state |-> "live", refs |-> 0]
           old == [m \in DOMAIN mods |-> Left(mods[m])]
<1>1. \A m \in 1..Len(mods) : mods[m] \in Modules
      BY ElementOfSeq
<1>2. ASSUME NEW m \in Modules
      PROVE  /\ Left(m) \in Modules /\ Left(m).load = m.load /\ Left(m).refs = m.refs
             /\ Left(m).state = "deleted" => m.state = "deleted" \/ m.refs = 0
  <2>1. CASE Gone(m)
        BY <2>1 DEF Modules
  <2>2. CASE ~Gone(m)
        BY <2>2
  <2> QED BY <2>1, <2>2
<1>3. new \in Modules
      BY DEF Modules
<1>4. Replaced(f) = Append(old, new)
  <2>1. Replaced(f) = Append([i \in DOMAIN mods |->
                        IF ~Gone(mods[i]) THEN mods[i]
                        ELSE [mods[i] EXCEPT !.state = IF mods[i].refs = 0 THEN "deleted"
                                                       ELSE "discarded"]], new)
        BY DEF Replaced
  <2> QED BY <2>1
<1> HIDE DEF Named, Gone, Left, new
<1>5. DOMAIN mods = 1..Len(mods) /\ Len(mods) \in Nat
      OBVIOUS
<1>6. old \in Seq(Modules) /\ Len(old) = Len(mods)
  <2>1. \A m \in 1..Len(mods) : Left(mods[m]) \in Modules
        BY <1>1, <1>2
  <2> QED BY <1>5, <2>1
<1>7. \A m \in 1..Len(mods) : old[m] = Left(mods[m])
      BY <1>5
<1> HIDE DEF old
<1>8. /\ Replaced(f) \in Seq(Modules) /\ Len(Replaced(f)) = Len(mods) + 1
      /\ \A m \in 1..Len(mods) : Replaced(f)[m] = old[m]
      /\ Replaced(f)[Len(mods) + 1] = new
      BY <1>3, <1>4, <1>6, AppendProperties
<1> QED BY <1>1, <1>2, <1>7, <1>8 DEF new

(***************************************************************************)
(* Counting the owners of a function.                                      *)
(***************************************************************************)
Cells(l, n, cs, m) == {i \in l..n : cs[i] = m}
FirstOwned == IF tick = "clear" THEN walk.next ELSE 1
HookCount(m) == Cardinality(Cells(FirstOwned, hooks.size, hooks.cells, m))
Contexts(of, m) == {c \in DOMAIN of : of[c] = m}
ContextCount(m) == Cardinality(Contexts(pool.of, m))
TickHand(m) == IF tick = "push" /\ m = Len(mods) THEN 1 ELSE 0
IoHand(m) == IF io = "push" /\ m = fn THEN 1 ELSE 0

\* The cells of a stretch of the vector that hold one function are finitely many.
LEMMA CellsFinite ==
    ASSUME NEW l \in Nat, NEW n \in Nat, NEW cs, NEW m
    PROVE  /\ IsFiniteSet(Cells(l, n, cs, m)) /\ Cardinality(Cells(l, n, cs, m)) \in Nat
<1>1. IsFiniteSet(l..n)
      BY FS_Interval
<1>2. IsFiniteSet(Cells(l, n, cs, m))
      BY <1>1, FS_Subset DEF Cells
<1> QED BY <1>2, FS_CardinalityType

\* push_back hooks one function once more (PacketHooks.h:19-22).
LEMMA OneCellMore ==
    ASSUME NEW l \in Nat, NEW n \in Nat, l <= n + 1, NEW cs, NEW ds, NEW m,
           \A i \in l..n : ds[i] = cs[i]
    PROVE  Cardinality(Cells(l, n + 1, ds, m)) =
           Cardinality(Cells(l, n, cs, m)) + (IF ds[n + 1] = m THEN 1 ELSE 0)
<1> DEFINE S == Cells(l, n, cs, m)
           T == Cells(l, n + 1, ds, m)
<1>1. IsFiniteSet(S) /\ Cardinality(S) \in Nat
      BY CellsFinite
<1>2. \A i : i \in l..n + 1 <=> i \in l..n \/ i = n + 1
      OBVIOUS
<1>3. n + 1 \notin l..n
      OBVIOUS
<1>4. n + 1 \notin S
      BY <1>3 DEF Cells
<1>5. ASSUME ds[n + 1] = m PROVE Cardinality(T) = Cardinality(S) + 1
  <2>1. T = S \cup {n + 1}
        BY <1>2, <1>5, Zenon DEF Cells
  <2> HIDE DEF S, T
  <2> QED BY <1>1, <1>4, <2>1, FS_AddElement
<1>6. ASSUME ds[n + 1] # m PROVE Cardinality(T) = Cardinality(S)
  <2>1. \A i : i \in T <=> i \in S
        BY <1>2, <1>6 DEF Cells
  <2>2. T = S
        BY <2>1 DEF Cells
  <2> HIDE DEF S, T
  <2> QED BY <2>2
<1> QED BY <1>1, <1>5, <1>6

\* ClearHooks has one hook less to release (PacketHooks.h:83-88).
LEMMA OneCellLess ==
    ASSUME NEW l \in Nat, NEW n \in Nat, l <= n, NEW cs, NEW m
    PROVE  Cardinality(Cells(l + 1, n, cs, m)) =
           Cardinality(Cells(l, n, cs, m)) - (IF cs[l] = m THEN 1 ELSE 0)
<1> DEFINE S == Cells(l, n, cs, m)
           T == Cells(l + 1, n, cs, m)
<1>1. IsFiniteSet(S) /\ Cardinality(S) \in Nat
      BY CellsFinite
<1>2. \A i : i \in l + 1..n <=> i \in l..n /\ i # l
      OBVIOUS
<1>3. l \in l..n
      OBVIOUS
<1>4. ASSUME cs[l] = m PROVE Cardinality(T) = Cardinality(S) - 1
  <2>1. T = S \ {l} /\ l \in S
        BY <1>2, <1>3, <1>4, Zenon DEF Cells
  <2> HIDE DEF S, T
  <2> QED BY <1>1, <2>1, FS_RemoveElement
<1>5. ASSUME cs[l] # m PROVE Cardinality(T) = Cardinality(S)
  <2>1. \A i : i \in T <=> i \in S
        BY <1>2, <1>5 DEF Cells
  <2>2. T = S
        BY <2>1 DEF Cells
  <2> HIDE DEF S, T
  <2> QED BY <2>2
<1> QED BY <1>1, <1>4, <1>5

\* The one context owns the function that it was last prepared with
\* (AngelBinder.cpp:465-469).
LEMMA OneContextCounts ==
    ASSUME NEW of, NEW m
    PROVE  /\ of = <<>> => Cardinality(Contexts(of, m)) = 0
           /\ \A x : of = <<x>> => Cardinality(Contexts(of, m)) = IF x = m THEN 1 ELSE 0
<1>1. ASSUME of = <<>> PROVE Cardinality(Contexts(of, m)) = 0
  <2>1. Contexts(of, m) = {}
        BY <1>1 DEF Contexts
  <2> QED BY <2>1, FS_EmptySet
<1>2. ASSUME NEW x, of = <<x>>
      PROVE  Cardinality(Contexts(of, m)) = IF x = m THEN 1 ELSE 0
  <2>1. CASE x = m
    <3>1. Contexts(of, m) = {1}
          BY <1>2, <2>1 DEF Contexts
    <3> QED BY <2>1, <3>1, FS_Singleton
  <2>2. CASE x # m
    <3>1. Contexts(of, m) = {}
          BY <1>2, <2>2 DEF Contexts
    <3> QED BY <2>2, <3>1, FS_EmptySet
  <2> QED BY <2>1, <2>2
<1> QED BY <1>1, <1>2

\* The owners are hooks, contexts and handles on their way.
LEMMA OwnersAre ==
    \A m : Owners(m) = HookCount(m) + ContextCount(m) + TickHand(m) + IoHand(m)
BY DEF Owners, HookCount, ContextCount, TickHand, IoHand, FirstOwned, Cells,
   Contexts

\* So they are after a step.
LEMMA OwnersAreNext ==
    \A m : Owners(m)' = HookCount(m)' + ContextCount(m)' + TickHand(m)' + IoHand(m)'
BY DEF Owners, HookCount, ContextCount, TickHand, IoHand, FirstOwned, Cells,
   Contexts

(***************************************************************************)
(* The steps, one by one.                                                  *)
(***************************************************************************)

\* The parts of TypeOK.
VectorOK == hooks \in Vectors /\ hooks.size <= Len(hooks.cells)
ModsOK == mods \in Seq(Modules)
Counted == \A m \in DOMAIN mods : mods[m].refs >= 0 \/ raced
TickOK ==
    /\ tick \in {"boot", "idle", "clear", "load", "main", "push"}
    /\ loads \in 0..MaxLoads /\ todo \subseteq Files /\ walk \in LoopsOver
IoOK ==
    /\ io \in {"idle", "loop", "fetched", "release", "run", "push"}
    /\ calls \in 0..MaxCalls /\ call \in LoopsOver /\ fn \in Nat
PoolOK ==
    pool \in [of : Seq(Nat), free : Seq(Nat)] /\ ctx \in Nat /\ losing \in Nat
PushingOK == pushing \in [{"tick", "io"} -> [buf : Nat, size : Nat]]
FlagsOK == crashed \in BOOLEAN /\ corrupt \in BOOLEAN /\ raced \in BOOLEAN
Types == VectorOK /\ ModsOK /\ TickOK /\ IoOK /\ PoolOK /\ PushingOK /\ FlagsOK
Kept == PushInBounds /\ ContextKept /\ LoadOrder
Unraced ==
    /\ LoopsCurrent /\ HookedAlive /\ LosesOld
    /\ \A m \in DOMAIN mods : mods[m].refs = Owners(m)

\* The types are these parts.
LEMMA TypesAre == TypeOK <=> Types /\ Counted
<1>1. {crashed, corrupt, raced} \subseteq BOOLEAN <=> FlagsOK
      BY DEF FlagsOK
<1>2. {ctx, losing} \subseteq Nat <=> ctx \in Nat /\ losing \in Nat
      OBVIOUS
<1> QED BY <1>1, <1>2 DEF TypeOK, Types, Counted, VectorOK, ModsOK, TickOK, IoOK, PoolOK,
   PushingOK, Vectors

\* So is the invariant one of what holds always and what holds before a race.
LEMMA InvariantIs ==
    HooksInv <=> /\ Types /\ Counted /\ Kept /\ (Overlap => raced)
                 /\ corrupt => raced \/ ReleasedLate
                 /\ ~raced => Unraced
BY TypesAre DEF HooksInv, Kept, Unraced, SafeUnlessRaced, RefsExact

\* What Watch records.
LEMMA WatchFacts ==
    ASSUME Watch
    PROVE  /\ raced' \in BOOLEAN /\ (raced => raced') /\ (Overlap' => raced')
           /\ ~raced' => io = "idle" \/ hooks'.buf = hooks.buf
BY Zenon DEF Watch

\* A function has a number of owners.
LEMMA CountsNat == Types => \A m : HookCount(m) \in Nat /\ ContextCount(m) \in Nat
<1> SUFFICES ASSUME Types, NEW m PROVE HookCount(m) \in Nat /\ ContextCount(m) \in Nat
    OBVIOUS
<1>1. HookCount(m) \in Nat
      BY CellsFinite DEF Types, TickOK, VectorOK, Vectors, LoopsOver, HookCount, FirstOwned
<1>2. ContextCount(m) \in Nat
  <2>1. DOMAIN pool.of = 1..Len(pool.of) /\ Len(pool.of) \in Nat
        BY DEF Types, PoolOK
  <2>2. IsFiniteSet(DOMAIN pool.of)
        BY <2>1, FS_Interval
  <2>3. IsFiniteSet(Contexts(pool.of, m))
        BY <2>2, FS_Subset DEF Contexts
  <2> QED BY <2>3, FS_CardinalityType DEF ContextCount
<1> QED BY <1>1, <1>2

\* A module is owned a number of times (Owners: the references the module's
\* objects take, PacketHooks.h:19-22, 81-91, AngelBinder.cpp:465-469).
LEMMA OwnersNat == Types => \A m : Owners(m) \in Nat
<1> SUFFICES ASSUME Types, NEW m PROVE Owners(m) \in Nat
    OBVIOUS
<1>1. TickHand(m) \in Nat /\ IoHand(m) \in Nat
      BY DEF TickHand, IoHand
<1>2. HookCount(m) \in Nat /\ ContextCount(m) \in Nat
      BY CountsNat
<1>3. Owners(m) = HookCount(m) + ContextCount(m) + TickHand(m) + IoHand(m)
      BY OwnersAre
<1> QED BY <1>1, <1>2, <1>3

\* What is left to show of a step that uses no freed memory.
LEMMA StepInv ==
    ASSUME HooksInv, Watch, Running, corrupt' = corrupt, Types', Kept', ~raced' => Unraced'
    PROVE  HooksInv'
<1>1. ~corrupt' /\ (Overlap' => raced')
      BY WatchFacts DEF Running
<1>2. Types' => (\A m : Owners(m) \in Nat)'
      BY OwnersNat, PTL
<1>3. Counted'
      BY <1>2 DEF Counted, Unraced
<1>4. TypeOK'
      BY <1>3, TypesAre, PTL
<1> QED BY <1>1, <1>4 DEF HooksInv, Kept, Unraced, SafeUnlessRaced, RefsExact

\* A step that touches neither modules nor vector nor what contexts hold keeps
\* the counts exact.
LEMMA SameRefs ==
    ASSUME mods' = mods, hooks' = hooks, pool'.of = pool.of, FirstOwned' = FirstOwned,
           \A m : TickHand(m)' = TickHand(m) /\ IoHand(m)' = IoHand(m)
    PROVE  \A m : Owners(m)' = Owners(m)
<1> TAKE m
<1>1. HookCount(m)' = HookCount(m)
      BY DEF HookCount
<1>2. ContextCount(m)' = ContextCount(m)
      BY DEF ContextCount
<1> QED BY <1>1, <1>2, OwnersAre, OwnersAreNext

\* Where no variable of the threads changes, only what went wrong can differ.
LEMMA FrozenInv ==
    ASSUME HooksInv, UNCHANGED <<hooks, mods, tickVars, ioVars, pushing>>,
           corrupt' \in BOOLEAN, raced' \in BOOLEAN, raced => raced', Overlap' => raced',
           corrupt' => raced' \/ ReleasedLate
    PROVE  HooksInv'
<1>1. UNCHANGED <<hooks, mods, tick, loads, todo, walk, io, calls, call, fn, pool, ctx,
                  losing, crashed, pushing>>
      BY DEF tickVars, ioVars
<1>2. Types /\ Counted /\ Kept /\ (~raced => Unraced)
      BY InvariantIs
<1>3. Types' /\ Counted'
      BY <1>1, <1>2 DEF Types, Counted, VectorOK, ModsOK, TickOK, IoOK, PoolOK, PushingOK,
         FlagsOK
<1>4. Kept' /\ (corrupt' => raced' \/ ReleasedLate')
      BY <1>1, <1>2 DEF Kept, PushInBounds, ContextKept, LoadOrder, ReleasedLate, Alive
<1>5. ASSUME ~raced' PROVE Unraced'
  <2>1. LoopsCurrent' /\ HookedAlive' /\ LosesOld'
        BY <1>1, <1>2, <1>5 DEF Unraced, LoopsCurrent, HookedAlive, Hooked, LosesOld, Alive
  <2>2. \A m : Owners(m)' = Owners(m)
        BY <1>1, SameRefs DEF FirstOwned, TickHand, IoHand
  <2> QED BY <1>1, <1>2, <1>5, <2>1, <2>2 DEF Unraced
<1> QED BY <1>3, <1>4, <1>5, InvariantIs, PTL

\* Freed memory is used after a race, or by a release that comes too late, and nothing
\* follows from it.
LEMMA CorruptInv ==
    ASSUME HooksInv, raced \/ ReleasedLate, Corrupt, Watch PROVE HooksInv'
<1>1. /\ raced' \in BOOLEAN /\ (raced => raced') /\ (Overlap' => raced')
      /\ corrupt' = TRUE /\ UNCHANGED <<hooks, mods, tickVars, ioVars, pushing>>
      BY WatchFacts, Zenon DEF Corrupt
<1> QED BY <1>1, FrozenInv

\* The start: nothing is hooked, loaded or running.
LEMMA InitInv == Init => HooksInv
<1> SUFFICES ASSUME Init PROVE HooksInv
    OBVIOUS
<1>1. <<>> \in Seq(Nat) /\ <<>> \in Seq(Modules)
      OBVIOUS
<1>2. VectorOK /\ ModsOK
      BY <1>1, BoundsAssumption DEF Init, VectorOK, ModsOK, Vectors
<1>3. TickOK /\ IoOK
      BY BoundsAssumption DEF Init, TickOK, IoOK, NoLoop, LoopsOver
<1>4. PoolOK /\ PushingOK /\ FlagsOK
      BY <1>1 DEF Init, PoolOK, PushingOK, FlagsOK, NotPushing
<1>5. PushInBounds /\ ContextKept /\ LoadOrder
      BY BoundsAssumption DEF Init, PushInBounds, ContextKept, LoadOrder, NotPushing
<1>6. corrupt = FALSE /\ raced = FALSE /\ ~Overlap
      BY DEF Init, Overlap
<1>7. LoopsCurrent /\ HookedAlive /\ LosesOld
      BY DEF Init, LoopsCurrent, HookedAlive, LosesOld
<1>8. Counted /\ \A m \in DOMAIN mods : mods[m].refs = Owners(m)
      BY DEF Init, Counted
<1> QED BY <1>2, <1>3, <1>4, <1>5, <1>6, <1>7, <1>8, InvariantIs DEF Types, Kept, Unraced

\* The first load (ScriptHandler.cpp:54-67).
LEMMA FirstLoadInv == ASSUME HooksInv, FirstLoad PROVE HooksInv'
<1> USE DEF FirstLoad, ioVars
<1>0. /\ Types /\ Kept /\ (~raced => Unraced) /\ Watch /\ Running
      /\ (raced => raced') /\ raced' \in BOOLEAN
      BY InvariantIs, WatchFacts, Zenon
<1>1. Types'
  <2>1. VectorOK' /\ ModsOK' /\ PoolOK' /\ PushingOK'
        BY <1>0 DEF Types, VectorOK, ModsOK, PoolOK, PushingOK
  <2>2. TickOK' /\ IoOK'
        BY <1>0, BoundsAssumption DEF Types, TickOK, IoOK
  <2>3. FlagsOK'
        BY <1>0 DEF Types, FlagsOK
  <2> QED BY <2>1, <2>2, <2>3 DEF Types
<1>2. Kept'
      BY <1>0, BoundsAssumption
         DEF Types, TickOK, Kept, PushInBounds, ContextKept, LoadOrder
<1>3. ASSUME ~raced' PROVE Unraced'
  <2>1. LoopsCurrent' /\ HookedAlive' /\ LosesOld'
        BY <1>0, <1>3 DEF Kept, LoadOrder, Unraced, LoopsCurrent, HookedAlive, Hooked, LosesOld, Alive
  <2>2. \A m : Owners(m)' = Owners(m)
        BY SameRefs DEF FirstOwned, TickHand, IoHand
  <2> QED BY <1>0, <1>3, <2>1, <2>2 DEF Unraced
<1> QED BY <1>0, <1>1, <1>2, <1>3, StepInv

\* ReloadScripts enters ClearHooks (ScriptHandler.cpp:27-30).
LEMMA BeginReloadInv == ASSUME HooksInv, BeginReload PROVE HooksInv'
<1> USE DEF BeginReload, ioVars
<1>0. /\ Types /\ Kept /\ (~raced => Unraced) /\ Watch /\ Running
      /\ (raced => raced') /\ raced' \in BOOLEAN
      BY InvariantIs, WatchFacts, Zenon
<1>1. Types'
  <2>1. VectorOK' /\ ModsOK' /\ PoolOK' /\ PushingOK' /\ IoOK'
        BY <1>0 DEF Types, VectorOK, ModsOK, PoolOK, PushingOK, IoOK
  <2>2. TickOK'
        BY <1>0, BoundsAssumption DEF Types, TickOK, VectorOK, Vectors, LoopsOver, Loop
  <2>3. FlagsOK'
        BY <1>0 DEF Types, FlagsOK
  <2> QED BY <2>1, <2>2, <2>3 DEF Types
<1>2. Kept'
      BY <1>0 DEF Types, TickOK, Kept, PushInBounds, ContextKept, LoadOrder
<1>3. ASSUME ~raced' PROVE Unraced'
  <2>1. LoopsCurrent' /\ HookedAlive' /\ LosesOld'
        BY <1>0, <1>3 DEF Types, VectorOK, Vectors, Kept, LoadOrder, Unraced, LoopsCurrent,
           HookedAlive, Hooked, LosesOld, Alive, Loop
  <2>2. \A m : Owners(m)' = Owners(m)
        BY SameRefs DEF FirstOwned, TickHand, IoHand, Loop
  <2> QED BY <1>0, <1>3, <2>1, <2>2 DEF Unraced
<1> QED BY <1>0, <1>1, <1>2, <1>3, StepInv

\* main() returns (ScriptHandler.cpp:127-141).
LEMMA MainReturnsInv == ASSUME HooksInv, MainReturns PROVE HooksInv'
<1> USE DEF MainReturns, ioVars
<1>0. /\ Types /\ Kept /\ (~raced => Unraced) /\ Watch /\ Running
      /\ (raced => raced') /\ raced' \in BOOLEAN
      BY InvariantIs, WatchFacts, Zenon
<1>1. Types'
  <2>1. VectorOK' /\ ModsOK' /\ PoolOK' /\ PushingOK' /\ IoOK'
        BY <1>0 DEF Types, VectorOK, ModsOK, PoolOK, PushingOK, IoOK
  <2>2. TickOK'
        BY <1>0 DEF Types, TickOK
  <2>3. FlagsOK'
        BY <1>0 DEF Types, FlagsOK
  <2> QED BY <2>1, <2>2, <2>3 DEF Types
<1>2. Kept'
      BY <1>0 DEF Types, TickOK, Kept, PushInBounds, ContextKept, LoadOrder
<1>3. ASSUME ~raced' PROVE Unraced'
  <2>1. LoopsCurrent' /\ HookedAlive' /\ LosesOld'
        BY <1>0, <1>3 DEF Kept, LoadOrder, Unraced, LoopsCurrent, HookedAlive, Hooked, LosesOld,
           Alive
  <2>2. \A m : Owners(m)' = Owners(m)
        BY SameRefs DEF FirstOwned, TickHand, IoHand
  <2> QED BY <1>0, <1>3, <2>1, <2>2 DEF Unraced
<1> QED BY <1>0, <1>1, <1>2, <1>3, StepInv

\* The directory has been loaded (ScriptHandler.cpp:67-79).
LEMMA EndLoadInv == ASSUME HooksInv, EndLoad PROVE HooksInv'
<1> USE DEF EndLoad, ioVars
<1>0. /\ Types /\ Kept /\ (~raced => Unraced) /\ Watch /\ Running
      /\ (raced => raced') /\ raced' \in BOOLEAN
      BY InvariantIs, WatchFacts, Zenon
<1>1. Types'
  <2>1. VectorOK' /\ ModsOK' /\ PoolOK' /\ PushingOK' /\ IoOK'
        BY <1>0 DEF Types, VectorOK, ModsOK, PoolOK, PushingOK, IoOK
  <2>2. TickOK'
        BY <1>0 DEF Types, TickOK
  <2>3. FlagsOK'
        BY <1>0 DEF Types, FlagsOK
  <2> QED BY <2>1, <2>2, <2>3 DEF Types
<1>2. Kept'
      BY <1>0 DEF Types, TickOK, Kept, PushInBounds, ContextKept, LoadOrder
<1>3. ASSUME ~raced' PROVE Unraced'
  <2>1. LoopsCurrent' /\ HookedAlive' /\ LosesOld'
        BY <1>0, <1>3 DEF Kept, LoadOrder, Unraced, LoopsCurrent, HookedAlive, Hooked, LosesOld,
           Alive
  <2>2. \A m : Owners(m)' = Owners(m)
        BY SameRefs DEF FirstOwned, TickHand, IoHand
  <2> QED BY <1>0, <1>3, <2>1, <2>2 DEF Unraced
<1> QED BY <1>0, <1>1, <1>2, <1>3, StepInv

\* CallHook takes begin and end of the vector (PacketHooks.h:32).
LEMMA BeginCallInv == ASSUME HooksInv, BeginCall PROVE HooksInv'
<1> USE DEF BeginCall, tickVars, CallLoop, Loop
<1>0. /\ Types /\ Kept /\ (~raced => Unraced) /\ Watch /\ Running
      /\ (raced => raced') /\ raced' \in BOOLEAN
      BY InvariantIs, WatchFacts, Zenon
<1>1. Types'
  <2>1. VectorOK' /\ ModsOK' /\ PoolOK' /\ PushingOK' /\ TickOK'
        BY <1>0 DEF Types, VectorOK, ModsOK, PoolOK, PushingOK, TickOK
  <2>2. IoOK'
        BY <1>0, BoundsAssumption DEF Types, IoOK, VectorOK, Vectors, LoopsOver, Loop
  <2>3. FlagsOK'
        BY <1>0 DEF Types, FlagsOK
  <2> QED BY <2>1, <2>2, <2>3 DEF Types
<1>2. Kept'
      BY <1>0 DEF Types, IoOK, Kept, PushInBounds, ContextKept, LoadOrder
<1>3. ASSUME ~raced' PROVE Unraced'
  <2>1. LoopsCurrent' /\ HookedAlive' /\ LosesOld'
        BY <1>0, <1>3 DEF Types, VectorOK, Vectors, Kept, LoadOrder, Unraced, LoopsCurrent,
           HookedAlive, Hooked, LosesOld, Alive
  <2>2. \A m : Owners(m)' = Owners(m)
        BY SameRefs DEF FirstOwned, TickHand, IoHand
  <2> QED BY <1>0, <1>3, <2>1, <2>2 DEF Unraced
<1> QED BY <1>0, <1>1, <1>2, <1>3, StepInv

\* The loop over the hooks ends (PacketHooks.h:77-79).
LEMMA EndCallInv == ASSUME HooksInv, EndCall PROVE HooksInv'
<1> USE DEF EndCall, tickVars, NoLoop
<1>0. /\ Types /\ Kept /\ (~raced => Unraced) /\ Watch /\ Running
      /\ (raced => raced') /\ raced' \in BOOLEAN
      BY InvariantIs, WatchFacts, Zenon
<1>1. Types'
  <2>1. VectorOK' /\ ModsOK' /\ PoolOK' /\ PushingOK' /\ TickOK'
        BY <1>0 DEF Types, VectorOK, ModsOK, PoolOK, PushingOK, TickOK
  <2>2. IoOK'
        BY <1>0 DEF Types, IoOK, LoopsOver, Loop
  <2>3. FlagsOK'
        BY <1>0 DEF Types, FlagsOK
  <2> QED BY <2>1, <2>2, <2>3 DEF Types
<1>2. Kept'
      BY <1>0 DEF Types, IoOK, Kept, PushInBounds, ContextKept, LoadOrder
<1>3. ASSUME ~raced' PROVE Unraced'
  <2>1. LoopsCurrent' /\ HookedAlive' /\ LosesOld'
        BY <1>0, <1>3 DEF Types, TickOK, IoOK, Kept, LoadOrder, Unraced, LoopsCurrent,
           HookedAlive, Hooked, LosesOld, Alive
  <2>2. \A m : Owners(m)' = Owners(m)
        BY SameRefs DEF FirstOwned, TickHand, IoHand
  <2> QED BY <1>0, <1>3, <2>1, <2>2 DEF Unraced
<1> QED BY <1>0, <1>1, <1>2, <1>3, StepInv

\* An exception leaves the io thread (AngelBinder.cpp:354-361).
LEMMA CallbackThrowsInv == ASSUME HooksInv, CallbackThrows PROVE HooksInv'
<1> USE DEF CallbackThrows, tickVars
<1>0. /\ Types /\ Kept /\ (~raced => Unraced) /\ Watch /\ Running
      /\ (raced => raced') /\ raced' \in BOOLEAN
      BY InvariantIs, WatchFacts, Zenon
<1>1. Types'
  <2>1. VectorOK' /\ ModsOK' /\ PoolOK' /\ PushingOK' /\ TickOK'
        BY <1>0 DEF Types, VectorOK, ModsOK, PoolOK, PushingOK, TickOK
  <2>2. IoOK'
        BY <1>0 DEF Types, IoOK
  <2>3. FlagsOK'
        BY <1>0 DEF Types, FlagsOK
  <2> QED BY <2>1, <2>2, <2>3 DEF Types
<1>2. Kept'
      BY <1>0 DEF Types, IoOK, Kept, PushInBounds, ContextKept, LoadOrder
<1>3. ASSUME ~raced' PROVE Unraced'
  <2>1. LoopsCurrent' /\ HookedAlive' /\ LosesOld'
        BY <1>0, <1>3 DEF Kept, LoadOrder, Unraced, LoopsCurrent, HookedAlive, Hooked, LosesOld,
           Alive
  <2>2. \A m : Owners(m)' = Owners(m)
        BY SameRefs DEF FirstOwned, TickHand, IoHand
  <2> QED BY <1>0, <1>3, <2>1, <2>2 DEF Unraced
<1> QED BY <1>0, <1>1, <1>2, <1>3, StepInv

\* The function that CallHook has fetched is hooked and there, unless there has
\* been a race (PacketHooks.h:32-37).
LEMMA FetchedIsHooked ==
    ASSUME Types, Unraced, io \in {"fetched", "release", "run", "push"}
    PROVE  /\ call.next \in 1..hooks.size /\ fn = hooks.cells[call.next]
           /\ Alive(fn) /\ mods[fn].load = loads
<1>1. call.next \in Nat \ {0} /\ call.end \in Nat /\ hooks.size \in Nat
      BY BoundsAssumption DEF Types, VectorOK, Vectors, IoOK, LoopsOver
<1>2. io # "idle"
      OBVIOUS
<1>3. call.end <= hooks.size /\ call.next <= call.end /\ fn = hooks.cells[call.next]
      BY <1>2 DEF Unraced, LoopsCurrent
<1>4. call.next \in 1..hooks.size
      BY <1>1, <1>3
<1> QED BY <1>3, <1>4 DEF Unraced, HookedAlive

\* What is hooked and what a context holds is as it was, where only counts change.
LEMMA HookedStays ==
    ASSUME HookedAlive, UNCHANGED <<hooks, loads, pool>>, \A k : Alive(k)' <=> Alive(k),
           \A k \in 1..Len(mods) : mods'[k].load = mods[k].load
    PROVE  HookedAlive'
<1>1. \A k : Alive(k) => mods'[k].load = mods[k].load
      BY DEF Alive
<1>2. Hooked' = Hooked
      BY DEF Hooked
<1>3. ASSUME NEW i \in 1..hooks.size
      PROVE  Alive(hooks.cells[i])' /\ mods'[hooks.cells[i]].load = loads
  <2>1. Alive(hooks.cells[i]) /\ mods[hooks.cells[i]].load = loads
        BY DEF HookedAlive
  <2> QED BY <1>1, <2>1 DEF Alive
<1>4. ASSUME NEW c \in DOMAIN pool.of, pool.of[c] # 0
      PROVE  Alive(pool.of[c])' /\ (pool.of[c] \in Hooked \/ mods'[pool.of[c]].load < loads)
  <2>1. Alive(pool.of[c]) /\ (pool.of[c] \in Hooked \/ mods[pool.of[c]].load < loads)
        BY <1>4 DEF HookedAlive
  <2> QED BY <1>1, <2>1 DEF Alive
<1> QED BY <1>2, <1>3, <1>4 DEF HookedAlive, Alive

\* CallHook reads a hook that is the vector's, or there has been a race (PacketHooks.h:32).
LEMMA FetchHookInv == ASSUME HooksInv, FetchHook PROVE HooksInv'
<1>0. /\ Types /\ Kept /\ (~raced => Unraced) /\ Watch /\ Running
      /\ (raced => raced') /\ raced' \in BOOLEAN
      BY InvariantIs, WatchFacts, Zenon DEF FetchHook
<1>1. CASE ~InBuffer(call)
  <2>1. raced
    <3> SUFFICES ASSUME ~raced PROVE InBuffer(call)
        BY <1>1
    <3> QED BY <1>0 DEF Types, VectorOK, Vectors, IoOK, LoopsOver, Unraced, LoopsCurrent,
       FetchHook, InBuffer
  <2> QED BY <1>1, <2>1, CorruptInv DEF FetchHook
<1>2. CASE InBuffer(call)
  <2>0. /\ io = "loop" /\ call.next <= call.end /\ io' = "fetched"
        /\ fn' = hooks.cells[call.next]
        /\ UNCHANGED <<hooks, mods, tick, loads, todo, walk, calls, call, pool, ctx,
           losing, crashed,
                       pushing, corrupt>>
        BY <1>2 DEF FetchHook, tickVars
  <2>1. VectorOK' /\ ModsOK' /\ TickOK' /\ PoolOK' /\ PushingOK'
        BY <1>0, <2>0 DEF Types, VectorOK, ModsOK, TickOK, PoolOK, PushingOK
  <2>2. IoOK'
    <3>1. call.next \in 1..Len(hooks.cells)
          BY <1>0, <1>2 DEF Types, VectorOK, Vectors, IoOK, LoopsOver, InBuffer
    <3>2. fn' \in Nat
          BY <1>0, <2>0, <3>1 DEF Types, VectorOK, Vectors
    <3> QED BY <1>0, <2>0, <3>2 DEF Types, IoOK
  <2>3. FlagsOK'
        BY <1>0, <2>0 DEF Types, FlagsOK
  <2>4. Kept'
        BY <1>0, <2>0 DEF Kept, PushInBounds, ContextKept, LoadOrder
  <2>5. ASSUME ~raced' PROVE Unraced'
    <3>1. LoopsCurrent' /\ HookedAlive' /\ LosesOld'
          BY <1>0, <2>0, <2>5 DEF Unraced, LoopsCurrent, HookedAlive, Hooked, LosesOld, Alive
    <3>2. \A m : Owners(m)' = Owners(m)
          BY <2>0, SameRefs DEF FirstOwned, TickHand, IoHand
    <3> QED BY <1>0, <2>0, <2>5, <3>1, <3>2 DEF Unraced
  <2>6. Types'
        BY <2>1, <2>2, <2>3 DEF Types
  <2> QED BY <1>0, <2>0, <2>4, <2>5, <2>6, StepInv
<1> QED BY <1>1, <1>2

\* The context goes back to its pool (AngelBinder.cpp:471-509).
LEMMA ReturnsContextInv == ASSUME HooksInv, ReturnsContext PROVE HooksInv'
<1>0. /\ Types /\ Kept /\ (~raced => Unraced) /\ Watch /\ Running
      /\ (raced => raced') /\ raced' \in BOOLEAN
      BY InvariantIs, WatchFacts, Zenon DEF ReturnsContext, CallbackReturns
<1>1. /\ io = "run" /\ io' = "loop" /\ ctx' = 0 /\ fn' = 0
      /\ pool' = [pool EXCEPT !.free = Append(@, ctx)]
      /\ call' = [call EXCEPT !.next = @ + 1]
      /\ UNCHANGED <<hooks, mods, tick, loads, todo, walk, calls, losing, crashed, pushing,
         corrupt>>
      BY DEF ReturnsContext, CallbackReturns, tickVars
<1>2. pool = [of |-> <<fn>>, free |-> <<>>] /\ ctx = 1
      BY <1>0, <1>1 DEF Kept, ContextKept
<1>3. pool' = [of |-> <<fn>>, free |-> <<1>>]
      BY <1>1, <1>2
<1>4. Types'
  <2>1. VectorOK' /\ ModsOK' /\ TickOK' /\ PushingOK'
        BY <1>0, <1>1 DEF Types, VectorOK, ModsOK, TickOK, PushingOK
  <2>2. IoOK'
        BY <1>0, <1>1 DEF Types, IoOK, LoopsOver
  <2>3. PoolOK'
        BY <1>0, <1>1, <1>3 DEF Types, IoOK, PoolOK
  <2>4. FlagsOK'
        BY <1>0, <1>1 DEF Types, FlagsOK
  <2> QED BY <2>1, <2>2, <2>3, <2>4 DEF Types
<1>5. Kept'
  <2>1. Len(pool'.of) = 1 /\ pool'.free = <<1>>
        BY <1>3
  <2>2. ContextKept'
    <3>1. losing = 0
          BY <1>0, <1>1 DEF Kept, ContextKept
    <3> QED BY <1>1, <2>1, <3>1 DEF ContextKept
  <2> QED BY <1>0, <1>1, <2>2 DEF Kept, PushInBounds, LoadOrder
<1>6. ASSUME ~raced' PROVE Unraced'
  <2>1. LoopsCurrent'
    <3>1. /\ call.buf = hooks.buf /\ call.end <= hooks.size
          /\ call.next \in 1..call.end + 1 /\ call.next <= call.end
          BY <1>0, <1>1, <1>6 DEF Unraced, LoopsCurrent
    <3>2. /\ call'.buf = call.buf /\ call'.end = call.end /\ call'.next = call.next + 1
          /\ call.end \in Nat
          BY <1>0, <1>1 DEF Types, IoOK, LoopsOver
    <3>3. call'.next \in 1..call'.end + 1
          BY <3>1, <3>2
    <3> QED BY <1>0, <1>1, <1>6, <3>1, <3>2, <3>3 DEF Unraced, LoopsCurrent
  <2>2. HookedAlive' /\ LosesOld'
    <3>1. call.next \in 1..hooks.size /\ fn = hooks.cells[call.next] /\ Alive(fn)
          BY <1>0, <1>1, <1>6, FetchedIsHooked
    <3>2. fn \in Hooked
          BY <3>1 DEF Hooked
    <3> QED BY <1>0, <1>1, <1>3, <1>6, <3>1, <3>2
        DEF Unraced, HookedAlive, Hooked, LosesOld, Alive
  <2>3. \A m : Owners(m)' = Owners(m)
        BY <1>1, <1>2, <1>3, SameRefs DEF FirstOwned, TickHand, IoHand
  <2> QED BY <1>0, <1>1, <1>6, <2>1, <2>2, <2>3 DEF Unraced
<1> QED BY <1>0, <1>1, <1>4, <1>5, <1>6, StepInv

\* ClearHooks releases a function that is hooked, or there has been a race
\* (PacketHooks.h:83-88).
LEMMA ReleaseHookInv == ASSUME HooksInv, ReleaseHook PROVE HooksInv'
<1>0. /\ Types /\ Kept /\ (~raced => Unraced) /\ Watch /\ Running
      /\ (raced => raced') /\ raced' \in BOOLEAN
      BY InvariantIs, WatchFacts, Zenon DEF ReleaseHook
<1> DEFINE c == hooks.cells[walk.next]
<1>1. CASE ~(InBuffer(walk) /\ Alive(c))
  <2>1. raced
    <3> SUFFICES ASSUME ~raced PROVE InBuffer(walk) /\ Alive(c)
        BY <1>1
    <3>1. walk.buf = hooks.buf /\ walk.next \in 1..hooks.size
          BY <1>0 DEF Types, VectorOK, Vectors, TickOK, LoopsOver, Unraced, LoopsCurrent,
             ReleaseHook
    <3>2. walk.next <= Len(hooks.cells)
          BY <1>0, <3>1 DEF Types, VectorOK, Vectors
    <3> QED BY <1>0, <3>1, <3>2 DEF Unraced, HookedAlive, InBuffer
  <2> QED BY <1>1, <2>1, CorruptInv DEF ReleaseHook
<1>2. CASE InBuffer(walk) /\ Alive(c)
  <2>0. /\ tick = "clear" /\ walk.next <= walk.end
        /\ mods' = Release(mods, c) /\ walk' = [walk EXCEPT !.next = @ + 1]
        /\ UNCHANGED <<hooks, tick, loads, todo, io, calls, call, fn, pool, ctx, losing, crashed,
                       pushing, corrupt>>
        BY <1>2 DEF ReleaseHook, ioVars
  <2>1. /\ mods \in Seq(Modules) /\ c \in 1..Len(mods)
        /\ walk \in LoopsOver /\ walk.next \in Nat \ {0} /\ hooks.size \in Nat
        BY <1>0, <1>2, BoundsAssumption
           DEF Types, VectorOK, Vectors, ModsOK, TickOK, LoopsOver, Alive
  <2>2. /\ mods' \in Seq(Modules) /\ Len(mods') = Len(mods)
        /\ \A k \in 1..Len(mods) :
              /\ mods'[k].refs = mods[k].refs - (IF k = c THEN 1 ELSE 0)
              /\ mods'[k].state = mods[k].state /\ mods'[k].load = mods[k].load
    <3> HIDE DEF c
    <3>1. /\ Release(mods, c) \in Seq(Modules) /\ Len(Release(mods, c)) = Len(mods)
          /\ \A k \in 1..Len(mods) :
                /\ Release(mods, c)[k].refs = mods[k].refs - (IF k = c THEN 1 ELSE 0)
                /\ Release(mods, c)[k].state = mods[k].state
                /\ Release(mods, c)[k].load = mods[k].load
          BY <2>1, RefFacts
    <3> QED BY <2>0, <3>1
  <2> HIDE DEF c
  <2>3. Types'
    <3>1. VectorOK' /\ IoOK' /\ PoolOK' /\ PushingOK'
          BY <1>0, <2>0 DEF Types, VectorOK, IoOK, PoolOK, PushingOK
    <3>2. ModsOK' /\ TickOK'
      <4>1. ModsOK'
            BY <2>2 DEF ModsOK
      <4>2. walk' \in LoopsOver
            BY <2>0, <2>1 DEF LoopsOver
      <4>3. TickOK'
            BY <1>0, <2>0, <4>2 DEF Types, TickOK
      <4> QED BY <4>1, <4>3
    <3>3. FlagsOK'
          BY <1>0, <2>0 DEF Types, FlagsOK
    <3> QED BY <3>1, <3>2, <3>3 DEF Types
  <2>4. DOMAIN mods = 1..Len(mods) /\ DOMAIN mods' = 1..Len(mods)
        BY <2>1, <2>2
  <2>5. Kept'
    <3>1. PushInBounds' /\ ContextKept'
          BY <1>0, <2>0, <2>4 DEF Kept, PushInBounds, ContextKept
    <3>2. LoadOrder'
          BY <1>0, <2>0, <2>2 DEF Kept, LoadOrder
    <3> QED BY <3>1, <3>2 DEF Kept
  <2>6. ASSUME ~raced' PROVE Unraced'
    <3>1. \A k : Alive(k)' <=> Alive(k)
          BY <2>2 DEF Alive
    <3>2. LoopsCurrent'
          BY <1>0, <2>0, <2>1, <2>6 DEF Unraced, LoopsCurrent
    <3>3. HookedAlive' /\ LosesOld'
      <4>1. io = "idle"
            BY <1>0, <2>0, <2>6, InvariantIs DEF Overlap
      <4>2. HookedAlive /\ UNCHANGED <<hooks, loads, pool, io>>
            BY <1>0, <2>0, <2>6 DEF Unraced
      <4> QED BY <2>2, <3>1, <4>1, <4>2, HookedStays DEF LosesOld
    <3>4. walk.end = hooks.size
          BY <1>0, <2>0, <2>6 DEF Unraced, LoopsCurrent
    <3>5. ASSUME NEW k \in 1..Len(mods) PROVE mods'[k].refs = Owners(k)'
      <4>1. HookCount(k)' = HookCount(k) - (IF k = c THEN 1 ELSE 0)
            BY <2>0, <2>1, <3>4, OneCellLess DEF HookCount, FirstOwned, c
      <4>2. ContextCount(k)' = ContextCount(k) /\ TickHand(k)' = 0 /\ TickHand(k) = 0
            /\ IoHand(k)' = IoHand(k)
            BY <2>0 DEF ContextCount, TickHand, IoHand
      <4>3. HookCount(k) \in Nat /\ ContextCount(k) \in Nat
            BY <1>0, CountsNat
      <4>4. Owners(k)' = HookCount(k)' + ContextCount(k)' + TickHand(k)' + IoHand(k)'
            BY OwnersAreNext
      <4>5. mods[k].refs = HookCount(k) + ContextCount(k) + TickHand(k) + IoHand(k)
            BY <1>0, <2>4, <2>6, OwnersAre DEF Unraced
      <4> QED BY <2>2, <4>1, <4>2, <4>3, <4>4, <4>5 DEF IoHand
    <3> QED BY <2>4, <3>2, <3>3, <3>5 DEF Unraced
  <2> QED BY <1>0, <2>0, <2>3, <2>5, <2>6, StepInv
<1> QED BY <1>1, <1>2

\* All hooks have been released; no other thread is in the vector if there has
\* been no race (PacketHooks.h:89, ScriptHandler.cpp:30-35).
LEMMA ClearHooksInv == ASSUME HooksInv, ClearHooks PROVE HooksInv'
<1>0. /\ Types /\ Kept /\ (~raced => Unraced) /\ Watch /\ Running
      /\ (raced => raced') /\ raced' \in BOOLEAN
      BY InvariantIs, WatchFacts, Zenon DEF ClearHooks, ForgetHooks
<1>1. /\ tick = "clear" /\ walk.next > walk.end /\ tick' = "load"
      /\ hooks' = [hooks EXCEPT !.size = 0] /\ walk' = NoLoop /\ loads' = loads + 1
      /\ todo' \in SUBSET Files
      /\ UNCHANGED <<mods, io, calls, call, fn, pool, ctx, losing, crashed, pushing, corrupt>>
      BY DEF ClearHooks, ForgetHooks, ioVars
<1>2. /\ hooks'.size = 0 /\ hooks'.buf = hooks.buf /\ hooks'.cells = hooks.cells
      /\ hooks' \in Vectors /\ hooks.cells \in Seq(Nat)
  <2>1. hooks \in Vectors /\ 0 \in 0..MaxHooks + 1
        BY <1>0, BoundsAssumption DEF Types, VectorOK
  <2> QED BY <1>1, <2>1 DEF Vectors
<1>3. loads \in Nat /\ loads + 1 \in 1..MaxLoads
      BY <1>0, <1>1, BoundsAssumption DEF Types, TickOK, Kept, LoadOrder
<1>4. Types'
  <2>1. ModsOK' /\ IoOK' /\ PoolOK' /\ PushingOK'
        BY <1>0, <1>1 DEF Types, ModsOK, IoOK, PoolOK, PushingOK
  <2>2. VectorOK'
        BY <1>2 DEF VectorOK
  <2>3. TickOK'
        BY <1>1, <1>3 DEF TickOK, NoLoop, LoopsOver
  <2>4. FlagsOK'
        BY <1>0, <1>1 DEF Types, FlagsOK
  <2> QED BY <2>1, <2>2, <2>3, <2>4 DEF Types
<1>5. Kept'
      BY <1>0, <1>1, <1>2, <1>3 DEF Kept, PushInBounds, ContextKept, LoadOrder
<1>6. ASSUME ~raced' PROVE Unraced'
  <2>1. Unraced /\ io = "idle"
        BY <1>0, <1>1, <1>6, InvariantIs DEF Overlap
  <2>2. LoopsCurrent' /\ LosesOld'
        BY <1>1, <1>2, <2>1 DEF Unraced, LoopsCurrent, LosesOld
  <2>4. HookedAlive'
    <3>1. \A m \in 1..Len(mods) : mods[m].load \in Nat
      <4>1. \A m \in 1..Len(mods) : mods[m] \in Modules
            BY <1>0, ElementOfSeq DEF Types, ModsOK
      <4> QED BY <4>1, BoundsAssumption DEF Modules
    <3>2. ASSUME NEW c \in DOMAIN pool.of
          PROVE  pool.of[c] = 0 \/ (Alive(pool.of[c]) /\ mods[pool.of[c]].load < loads + 1)
      <4>1. CASE pool.of[c] \in Hooked
            BY <1>3, <2>1, <4>1 DEF Unraced, HookedAlive, Hooked
      <4>2. CASE pool.of[c] \notin Hooked
            BY <1>3, <2>1, <3>1, <4>2 DEF Unraced, HookedAlive, Alive
      <4> QED BY <4>1, <4>2
    <3> QED BY <1>1, <1>2, <3>2 DEF HookedAlive, Alive
  <2>3. \A m : Owners(m)' = Owners(m)
    <3> TAKE m
    <3>1. HookCount(m)' = 0 /\ HookCount(m) = 0
      <4>1. walk.next > hooks.size /\ walk.next \in Nat /\ hooks.size \in Nat
            BY <1>0, <1>1, <2>1, BoundsAssumption
            DEF Types, TickOK, VectorOK, Vectors, LoopsOver, Unraced, LoopsCurrent
      <4>2. Cells(FirstOwned, hooks.size, hooks.cells, m) = {}
            BY <1>1, <4>1 DEF Cells, FirstOwned
      <4>3. Cells(FirstOwned, hooks.size, hooks.cells, m)' = {}
            BY <1>1, <1>2 DEF Cells, FirstOwned
      <4> QED BY <4>2, <4>3, FS_EmptySet DEF HookCount
    <3>2. /\ ContextCount(m)' = ContextCount(m) /\ TickHand(m)' = TickHand(m)
          /\ IoHand(m)' = IoHand(m)
          BY <1>1 DEF ContextCount, TickHand, IoHand
    <3> QED BY <3>1, <3>2, OwnersAre, OwnersAreNext
  <2> QED BY <1>1, <2>1, <2>2, <2>3, <2>4 DEF Unraced
<1> QED BY <1>0, <1>1, <1>4, <1>5, <1>6, StepInv

\* A function that is hooked or held by a context has an owner.
LEMMA OwnedCounts ==
    ASSUME Types, NEW m, tick # "clear",
           \/ \E i \in 1..hooks.size : hooks.cells[i] = m
           \/ \E c \in DOMAIN pool.of : pool.of[c] = m
    PROVE  Owners(m) > 0
<1>1. HookCount(m) \in Nat /\ ContextCount(m) \in Nat
      BY CountsNat
<1>2. TickHand(m) \in Nat /\ IoHand(m) \in Nat
      BY DEF TickHand, IoHand
<1>3. CASE \E i \in 1..hooks.size : hooks.cells[i] = m
  <2>1. hooks.size \in Nat /\ FirstOwned = 1
        BY BoundsAssumption DEF Types, VectorOK, Vectors, FirstOwned
  <2>2. IsFiniteSet(Cells(FirstOwned, hooks.size, hooks.cells, m))
        BY <2>1, CellsFinite
  <2>3. HookCount(m) # 0
    <3>1. Cells(FirstOwned, hooks.size, hooks.cells, m) # {}
          BY <1>3, <2>1 DEF Cells
    <3> QED BY <2>2, <3>1, FS_EmptySet DEF HookCount
  <2> QED BY <1>1, <1>2, <2>3, OwnersAre
<1>4. CASE \E c \in DOMAIN pool.of : pool.of[c] = m
  <2>1. DOMAIN pool.of = 1..Len(pool.of) /\ Len(pool.of) \in Nat
        BY DEF Types, PoolOK
  <2>2. IsFiniteSet(DOMAIN pool.of)
        BY <2>1, FS_Interval
  <2>3. IsFiniteSet(Contexts(pool.of, m)) /\ Contexts(pool.of, m) # {}
        BY <1>4, <2>2, FS_Subset DEF Contexts
  <2>4. ContextCount(m) # 0
        BY <2>3, FS_EmptySet DEF ContextCount
  <2> QED BY <1>1, <1>2, <2>4, OwnersAre
<1> QED BY <1>3, <1>4

\* A file is loaded: what is hooked or held has an owner and is not deleted, and
\* nobody owns the new module's callback yet (ScriptHandler.cpp:81-122).
LEMMA LoadScriptInv ==
    ASSUME HooksInv, NEW f \in Files, LoadScript(f) PROVE HooksInv'
<1>0. /\ Types /\ Kept /\ (~raced => Unraced) /\ Watch /\ Running
      /\ (raced => raced') /\ raced' \in BOOLEAN
      BY InvariantIs, WatchFacts, Zenon DEF LoadScript
<1>1. /\ tick = "load" /\ tick' \in {"main", "load"} /\ todo' = todo \ {f}
      /\ mods' = Replaced(f)
      /\ UNCHANGED <<hooks, loads, walk, io, calls, call, fn, pool, ctx, losing, crashed, pushing,
                     corrupt>>
      BY DEF LoadScript, ioVars
<1> DEFINE n == Len(mods)
<1>2. mods \in Seq(Modules) /\ n \in Nat /\ loads \in 1..MaxLoads
      BY <1>0, <1>1, BoundsAssumption DEF Types, ModsOK, TickOK, Kept, LoadOrder
<1>3. /\ mods' \in Seq(Modules) /\ Len(mods') = n + 1
      /\ mods'[n + 1] = [file |-> f, load |-> loads, state |-> "live", refs |-> 0]
      /\ \A m \in 1..n :
            /\ mods'[m].load = mods[m].load /\ mods'[m].refs = mods[m].refs
            /\ mods'[m].state = "deleted" => mods[m].state = "deleted" \/ mods[m].refs = 0
      BY <1>1, <1>2, ReplacedFacts
<1>4. /\ mods'[n + 1].load = loads /\ mods'[n + 1].state = "live" /\ mods'[n + 1].refs = 0
      /\ DOMAIN mods = 1..n /\ DOMAIN mods' = 1..n + 1
      BY <1>2, <1>3
<1> HIDE DEF n
<1>5. Types'
  <2>1. VectorOK' /\ IoOK' /\ PoolOK' /\ PushingOK'
        BY <1>0, <1>1 DEF Types, VectorOK, IoOK, PoolOK, PushingOK
  <2>2. ModsOK' /\ TickOK'
        BY <1>0, <1>1, <1>3 DEF Types, ModsOK, TickOK
  <2>3. FlagsOK'
        BY <1>0, <1>1 DEF Types, FlagsOK
  <2> QED BY <2>1, <2>2, <2>3 DEF Types
<1>6. Kept'
  <2>1. PushInBounds'
        BY <1>0, <1>1 DEF Kept, PushInBounds
  <2>2. ContextKept'
        BY <1>0, <1>1, <1>2, <1>4 DEF Kept, ContextKept
  <2>3. LoadOrder'
    <3>1. mods' # <<>>
          BY <1>2, <1>3
    <3> QED BY <1>0, <1>1, <1>2, <1>3, <1>4, <3>1 DEF Kept, LoadOrder
  <2> QED BY <2>1, <2>2, <2>3 DEF Kept
<1>7. ASSUME ~raced' PROVE Unraced'
  <2>0. Unraced
        BY <1>0, <1>7
  <2>1. LoopsCurrent'
        BY <1>1, <2>0 DEF Unraced, LoopsCurrent
  <2>2. ASSUME NEW m, Alive(m), Owners(m) > 0
        PROVE  Alive(m)' /\ mods'[m].load = mods[m].load
    <3>1. m \in 1..n /\ mods[m].state # "deleted"
          BY <2>2 DEF Alive, n
    <3>2. mods[m].refs # 0
          BY <1>4, <2>0, <2>2, <3>1, OwnersNat, <1>0 DEF Unraced
    <3> QED BY <1>2, <1>3, <3>1, <3>2 DEF Alive
  <2>3. HookedAlive'
    <3>1. \A i \in 1..hooks.size : Alive(hooks.cells[i])' /\ mods'[hooks.cells[i]].load = loads
      <4> TAKE i \in 1..hooks.size
      <4>1. Owners(hooks.cells[i]) > 0
            BY <1>0, <1>1, OwnedCounts
      <4>2. Alive(hooks.cells[i]) /\ mods[hooks.cells[i]].load = loads
            BY <2>0 DEF Unraced, HookedAlive
      <4> QED BY <1>1, <2>2, <4>1, <4>2 DEF Alive
    <3>2. ASSUME NEW c \in DOMAIN pool.of, pool.of[c] # 0
          PROVE  /\ Alive(pool.of[c])'
                 /\ pool.of[c] \in Hooked \/ mods'[pool.of[c]].load < loads
      <4>1. Owners(pool.of[c]) > 0
            BY <1>0, <1>1, OwnedCounts
      <4>2. Alive(pool.of[c]) /\ (pool.of[c] \in Hooked \/ mods[pool.of[c]].load < loads)
            BY <2>0, <3>2 DEF Unraced, HookedAlive
      <4>3. Alive(pool.of[c])' /\ mods'[pool.of[c]].load = mods[pool.of[c]].load
            BY <1>1, <2>2, <4>1, <4>2 DEF Alive
      <4> QED BY <4>2, <4>3
    <3>3. Hooked' = Hooked
          BY <1>1 DEF Hooked
    <3> QED BY <1>1, <3>1, <3>2, <3>3 DEF HookedAlive, Alive
  <2>7. LosesOld'
    <3> SUFFICES ASSUME io = "release"
                 PROVE  /\ mods'[losing].load < loads
                        /\ n + 1 \in fn + 1..Len(mods') /\ mods'[n + 1].load = loads
        BY <1>1 DEF LosesOld
    <3>1. losing \in 1..n /\ mods[losing].load < loads
          BY <1>0, <1>4, <2>0 DEF Kept, ContextKept, Unraced, LosesOld
    <3>2. fn \in 1..n
          BY <1>0, <2>0, FetchedIsHooked DEF Alive, n
    <3> QED BY <1>2, <1>3, <1>4, <3>1, <3>2
  <2>4. \A m : Owners(m)' = Owners(m)
    <3> TAKE m
    <3>1. HookCount(m)' = HookCount(m) /\ ContextCount(m)' = ContextCount(m)
          BY <1>1 DEF HookCount, ContextCount, FirstOwned
    <3>2. TickHand(m)' = TickHand(m) /\ IoHand(m)' = IoHand(m)
          BY <1>1 DEF TickHand, IoHand
    <3> QED BY <3>1, <3>2, OwnersAre, OwnersAreNext
  <2>5. Owners(n + 1) = 0
    <3>1. \A m : Alive(m) => m # n + 1
          BY <1>2 DEF Alive, n
    <3>2. /\ Cells(FirstOwned, hooks.size, hooks.cells, n + 1) = {}
          /\ Contexts(pool.of, n + 1) = {}
          BY <1>1, <1>2, <2>0, <3>1 DEF Unraced, HookedAlive, Cells, FirstOwned, Contexts
    <3>3. HookCount(n + 1) = 0 /\ ContextCount(n + 1) = 0
          BY <3>2, FS_EmptySet DEF HookCount, ContextCount
    <3>4. TickHand(n + 1) = 0 /\ IoHand(n + 1) = 0
      <4>1. io = "push" => fn \in 1..n
            BY <1>0, <1>4 DEF Kept, ContextKept
      <4> QED BY <1>1, <1>2, <4>1 DEF TickHand, IoHand, n
    <3> QED BY <3>3, <3>4, OwnersAre
  <2>6. \A m \in DOMAIN mods' : mods'[m].refs = Owners(m)'
        BY <1>2, <1>3, <1>4, <2>0, <2>4, <2>5 DEF Unraced
  <2> QED BY <2>1, <2>3, <2>6, <2>7 DEF Unraced
<1> QED BY <1>0, <1>1, <1>5, <1>6, <1>7, StepInv

\* main() passes its callback to RegisterPacketCallback: the handle is one owner more
\* (GlobalFunctions.h:9-13, PacketHooks.h:19-22).
LEMMA MainRegistersInv == ASSUME HooksInv, MainRegisters PROVE HooksInv'
<1>0. /\ Types /\ Kept /\ (~raced => Unraced) /\ Watch /\ Running
      /\ (raced => raced') /\ raced' \in BOOLEAN
      BY InvariantIs, WatchFacts, Zenon DEF MainRegisters
<1> DEFINE m == Len(mods)
<1>1. /\ tick = "main" /\ tick' = "push" /\ hooks.size < MaxHooks
      /\ mods' = AddRef(mods, m)
      /\ pushing' = [pushing EXCEPT !["tick"] = [buf |-> hooks.buf, size |-> hooks.size]]
      /\ UNCHANGED <<hooks, loads, todo, walk, io, calls, call, fn, pool, ctx, losing, crashed,
         corrupt>>
      BY DEF MainRegisters, BeginPush, ioVars
<1>2. /\ mods \in Seq(Modules) /\ m \in 1..Len(mods) /\ m \in Nat
      /\ hooks.size \in Nat /\ hooks.buf \in Nat /\ hooks.size <= Len(hooks.cells)
      BY <1>0, <1>1, BoundsAssumption
      DEF Types, ModsOK, VectorOK, Vectors, Kept, LoadOrder, ContextKept
<1>3. /\ mods' \in Seq(Modules) /\ Len(mods') = Len(mods)
      /\ \A k \in 1..Len(mods) :
            /\ mods'[k].refs = mods[k].refs + (IF k = m THEN 1 ELSE 0)
            /\ mods'[k].state = mods[k].state /\ mods'[k].load = mods[k].load
  <2> HIDE DEF m
  <2>1. /\ AddRef(mods, m) \in Seq(Modules) /\ Len(AddRef(mods, m)) = Len(mods)
        /\ \A k \in 1..Len(mods) :
              /\ AddRef(mods, m)[k].refs = mods[k].refs + (IF k = m THEN 1 ELSE 0)
              /\ AddRef(mods, m)[k].state = mods[k].state
              /\ AddRef(mods, m)[k].load = mods[k].load
        BY <1>2, RefFacts
  <2> QED BY <1>1, <2>1
<1> HIDE DEF m
<1>4. DOMAIN mods = 1..Len(mods) /\ DOMAIN mods' = 1..Len(mods)
      BY <1>2, <1>3
<1>5. /\ pushing' \in [{"tick", "io"} -> [buf : Nat, size : Nat]]
      /\ pushing'["tick"] = [buf |-> hooks.buf, size |-> hooks.size]
      /\ pushing'["io"] = pushing["io"]
      BY <1>0, <1>1, <1>2 DEF Types, PushingOK
<1>6. Types'
  <2>1. VectorOK' /\ IoOK' /\ PoolOK'
        BY <1>0, <1>1 DEF Types, VectorOK, IoOK, PoolOK
  <2>2. ModsOK' /\ TickOK' /\ PushingOK'
        BY <1>0, <1>1, <1>3, <1>5 DEF Types, ModsOK, TickOK, PushingOK
  <2>3. FlagsOK'
        BY <1>0, <1>1 DEF Types, FlagsOK
  <2> QED BY <2>1, <2>2, <2>3 DEF Types
<1>7. Kept'
  <2>1. PushInBounds'
        BY <1>0, <1>1, <1>2, <1>5, BoundsAssumption DEF Kept, PushInBounds
  <2>2. ContextKept'
        BY <1>0, <1>1, <1>4 DEF Kept, ContextKept
  <2>3. LoadOrder'
        BY <1>0, <1>1, <1>2, <1>3 DEF Kept, LoadOrder
  <2> QED BY <2>1, <2>2, <2>3 DEF Kept
<1>8. ASSUME ~raced' PROVE Unraced'
  <2>0. Unraced
        BY <1>0, <1>8
  <2>1. io = "idle"
        BY <1>1, <1>8, WatchFacts DEF MainRegisters, Overlap
  <2>2. LoopsCurrent'
        BY <1>1, <1>5, <2>0, <2>1 DEF Unraced, LoopsCurrent
  <2>3. HookedAlive' /\ LosesOld'
    <3>1. \A k : Alive(k)' <=> Alive(k)
          BY <1>3 DEF Alive
    <3>2. HookedAlive'
      <4>1. HookedAlive /\ UNCHANGED <<hooks, loads, pool>>
            BY <1>1, <2>0 DEF Unraced
      <4>2. \A k \in 1..Len(mods) : mods'[k].load = mods[k].load
            BY <1>3
      <4> QED BY <3>1, <4>1, <4>2, HookedStays
    <3>3. LosesOld'
          BY <1>1, <2>1 DEF LosesOld
    <3> QED BY <3>2, <3>3
  <2>4. ASSUME NEW k \in 1..Len(mods) PROVE mods'[k].refs = Owners(k)'
    <3>1. HookCount(k)' = HookCount(k) /\ ContextCount(k)' = ContextCount(k)
          BY <1>1 DEF HookCount, ContextCount, FirstOwned
    <3>2. /\ TickHand(k)' = (IF k = m THEN 1 ELSE 0) /\ TickHand(k) = 0
          /\ IoHand(k)' = IoHand(k) /\ IoHand(k) \in Nat
          BY <1>1, <1>3 DEF TickHand, IoHand, m
    <3>3. HookCount(k) \in Nat /\ ContextCount(k) \in Nat
          BY <1>0, CountsNat
    <3>4. mods[k].refs = HookCount(k) + ContextCount(k) + TickHand(k) + IoHand(k)
          BY <1>4, <2>0, OwnersAre DEF Unraced
    <3> QED BY <1>3, <3>1, <3>2, <3>3, <3>4, OwnersAreNext
  <2> QED BY <1>4, <2>2, <2>3, <2>4 DEF Unraced
<1> QED BY <1>0, <1>1, <1>6, <1>7, <1>8, StepInv

\* The handle has become a hook, or there has been a race (PacketHooks.h:19-22).
LEMMA MainRegisteredInv == ASSUME HooksInv, MainRegistered PROVE HooksInv'
<1>0. /\ Types /\ Kept /\ (~raced => Unraced) /\ Watch /\ Running
      /\ (raced => raced') /\ raced' \in BOOLEAN
      BY InvariantIs, WatchFacts, Zenon DEF MainRegistered
<1> DEFINE m == Len(mods)
           n == pushing["tick"].size
<1>1. CASE pushing["tick"].buf # hooks.buf /\ Corrupt
  <2>1. raced
        BY <1>0, <1>1 DEF MainRegistered, Unraced, LoopsCurrent
  <2> QED BY <1>0, <1>1, <2>1, CorruptInv
<1>2. CASE ~(pushing["tick"].buf # hooks.buf /\ Corrupt)
  <2>1. /\ tick = "push" /\ tick' = "main" /\ pushing["tick"].buf = hooks.buf
        /\ hooks' = Pushed(m, n) /\ pushing' = [pushing EXCEPT !["tick"] = NotPushing]
        /\ UNCHANGED <<mods, loads, todo, walk, io, calls, call, fn, pool, ctx, losing, crashed,
           corrupt>>
        BY <1>2 DEF MainRegistered, EndPush, ioVars
  <2>2. /\ hooks \in Vectors /\ n \in 0..MaxHooks /\ n <= Len(hooks.cells)
        /\ m \in Nat /\ m \in DOMAIN mods
        BY <1>0, <2>1, BoundsAssumption
        DEF Types, VectorOK, ModsOK, IoOK, PushingOK, Kept, PushInBounds, LoadOrder,
           ContextKept
  <2> HIDE DEF m, n
  <2>3. /\ hooks' \in Vectors /\ hooks'.size = n + 1 /\ n + 1 <= Len(hooks'.cells)
        /\ hooks'.cells[n + 1] = m
        /\ \A i \in 1..n : hooks'.cells[i] = hooks.cells[i]
        /\ \/ hooks'.buf = hooks.buf /\ Len(hooks'.cells) = Len(hooks.cells)
           \/ hooks'.buf = hooks.buf + 1
        BY <2>1, <2>2, PushedFacts
  <2>4. /\ n \in Nat /\ hooks.buf \in Nat /\ hooks'.buf \in Nat
        /\ hooks.cells \in Seq(Nat) /\ hooks'.cells \in Seq(Nat)
        BY <2>2, <2>3, BoundsAssumption DEF Vectors
  <2>5. /\ pushing' \in [{"tick", "io"} -> [buf : Nat, size : Nat]]
        /\ pushing'["tick"] = [buf |-> 0, size |-> 0]
        /\ pushing'["io"] = pushing["io"]
        /\ pushing["io"].buf \in Nat /\ pushing["io"].size \in Nat
        BY <1>0, <2>1 DEF Types, PushingOK, NotPushing
  <2>6. Types'
    <3>1. ModsOK' /\ IoOK' /\ PoolOK'
          BY <1>0, <2>1 DEF Types, ModsOK, IoOK, PoolOK
    <3>2. VectorOK' /\ TickOK' /\ PushingOK'
          BY <1>0, <2>1, <2>3, <2>5 DEF Types, VectorOK, TickOK, PushingOK
    <3>3. FlagsOK'
          BY <1>0, <2>1 DEF Types, FlagsOK
    <3> QED BY <3>1, <3>2, <3>3 DEF Types
  <2>7. Kept'
    <3>1. PushInBounds'
      <4>1. /\ pushing["io"].buf <= hooks.buf /\ pushing["io"].size <= MaxHooks
            /\ pushing["io"].buf = hooks.buf => pushing["io"].size <= Len(hooks.cells)
            BY <1>0 DEF Kept, PushInBounds
      <4>2. /\ Len(hooks'.cells) \in Nat /\ MaxHooks \in Nat
            BY <2>4, BoundsAssumption
      <4>3. pushing'["io"].buf <= hooks'.buf
            BY <2>3, <2>4, <2>5, <4>1
      <4>4. pushing'["io"].buf = hooks'.buf => pushing'["io"].size <= Len(hooks'.cells)
            BY <2>3, <2>4, <2>5, <4>1
      <4> QED BY <2>4, <2>5, <4>1, <4>2, <4>3, <4>4, BoundsAssumption DEF PushInBounds
    <3>2. ContextKept' /\ LoadOrder'
          BY <1>0, <2>1, <2>3 DEF Kept, ContextKept, LoadOrder
    <3> QED BY <3>1, <3>2 DEF Kept
  <2>8. ASSUME ~raced' PROVE Unraced'
    <3>0. Unraced /\ io = "idle"
          BY <1>0, <2>1, <2>8, InvariantIs, WatchFacts DEF Overlap
    <3>1. n = hooks.size
          BY <2>1, <3>0 DEF Unraced, LoopsCurrent, n
    <3>2. Alive(m) /\ mods[m].load = loads
          BY <1>0, <2>1, <2>2, <3>0
             DEF Types, IoOK, VectorOK, Vectors, LoopsOver, ModsOK, Kept,
             LoadOrder, Unraced, LoopsCurrent, HookedAlive, Alive, m
    <3>3. LoopsCurrent'
          BY <1>0, <2>1, <2>3, <2>4, <3>0, <3>1
             DEF Types, IoOK, LoopsOver, Unraced, LoopsCurrent
    <3>4. HookedAlive'
      <4>1. \A k : Alive(k)' <=> Alive(k)
            BY <2>1 DEF Alive
      <4>2. ASSUME NEW i \in 1..n + 1
            PROVE  Alive(hooks'.cells[i]) /\ mods[hooks'.cells[i]].load = loads
        <5>1. CASE i = n + 1
              BY <2>3, <3>2, <5>1
        <5>2. CASE i # n + 1
          <6>1. i \in 1..n
                BY <2>4, <5>2
          <6> QED BY <2>3, <3>0, <3>1, <6>1 DEF Unraced, HookedAlive
        <5> QED BY <5>1, <5>2
      <4>3. ASSUME NEW h \in Hooked PROVE h \in Hooked'
        <5>1. PICK i \in 1..n : hooks.cells[i] = h
              BY <3>1 DEF Hooked
        <5>2. i \in 1..n + 1
              BY <2>4, <5>1
        <5>3. i \in 1..hooks'.size /\ hooks'.cells[i] = h
              BY <2>3, <5>1, <5>2
        <5> QED BY <5>3 DEF Hooked
      <4>4. \A c \in DOMAIN pool.of :
               \/ pool.of[c] = 0
               \/ /\ Alive(pool.of[c])
                  /\ pool.of[c] \in Hooked' \/ mods[pool.of[c]].load < loads
            BY <3>0, <4>3 DEF Unraced, HookedAlive
      <4> QED BY <2>1, <2>3, <4>1, <4>2, <4>4 DEF HookedAlive
    <3>6. LosesOld'
          BY <2>1, <3>0 DEF LosesOld
    <3>5. ASSUME NEW k \in DOMAIN mods PROVE mods'[k].refs = Owners(k)'
      <4>1. HookCount(k)' = HookCount(k) + (IF k = m THEN 1 ELSE 0)
        <5>1. FirstOwned = 1 /\ FirstOwned' = 1
              BY <2>1, <3>0 DEF FirstOwned
        <5>2. Cardinality(Cells(1, n + 1, hooks'.cells, k)) =
              Cardinality(Cells(1, n, hooks.cells,
                 k)) + (IF hooks'.cells[n + 1] = k THEN 1 ELSE 0)
          <6>1. 1 \in Nat /\ 1 <= n + 1
                BY <2>4
          <6> DEFINE cs == hooks.cells
                     ds == hooks'.cells
          <6>2. \A i \in 1..n : ds[i] = cs[i]
                BY <2>3
          <6> HIDE DEF cs, ds
          <6>3. Cardinality(Cells(1, n + 1, ds, k)) =
                Cardinality(Cells(1, n, cs, k)) + (IF ds[n + 1] = k THEN 1 ELSE 0)
                BY <2>4, <6>1, <6>2, OneCellMore
          <6> QED BY <6>3 DEF cs, ds
        <5> QED BY <2>3, <3>1, <5>1, <5>2 DEF HookCount
      <4>2. ContextCount(k)' = ContextCount(k)
            BY <2>1 DEF ContextCount
      <4>3. /\ TickHand(k) = (IF k = m THEN 1 ELSE 0) /\ TickHand(k)' = 0
            /\ IoHand(k)' = IoHand(k) /\ IoHand(k) \in Nat
            BY <2>1 DEF TickHand, IoHand, m
      <4>4. HookCount(k) \in Nat /\ ContextCount(k) \in Nat
            BY <1>0, CountsNat
      <4>5. mods[k].refs = HookCount(k) + ContextCount(k) + TickHand(k) + IoHand(k)
            BY <3>0, OwnersAre DEF Unraced
      <4> QED BY <2>1, <4>1, <4>2, <4>3, <4>4, <4>5, OwnersAreNext
    <3> QED BY <2>1, <3>3, <3>4, <3>5, <3>6 DEF Unraced
  <2> QED BY <1>0, <2>1, <2>6, <2>7, <2>8, StepInv
<1> QED BY <1>1, <1>2

\* A callback registers itself once more (GlobalFunctions.h:9-13, PacketHooks.h:19-22).
LEMMA CallbackRegistersInv == ASSUME HooksInv, CallbackRegisters PROVE HooksInv'
<1>0. /\ Types /\ Kept /\ (~raced => Unraced) /\ Watch /\ Running
      /\ (raced => raced') /\ raced' \in BOOLEAN
      BY InvariantIs, WatchFacts, Zenon DEF CallbackRegisters
<1> DEFINE m == fn
<1>1. /\ io = "run" /\ io' = "push" /\ hooks.size < MaxHooks
      /\ mods' = AddRef(mods, m)
      /\ pushing' = [pushing EXCEPT !["io"] = [buf |-> hooks.buf, size |-> hooks.size]]
      /\ UNCHANGED <<hooks, tick, loads, todo, walk, calls, call, fn, pool, ctx, losing, crashed,
         corrupt>>
      BY DEF CallbackRegisters, BeginPush, tickVars
<1>2. /\ mods \in Seq(Modules) /\ m \in 1..Len(mods) /\ m \in Nat
      /\ hooks.size \in Nat /\ hooks.buf \in Nat /\ hooks.size <= Len(hooks.cells)
      BY <1>0, <1>1, BoundsAssumption
      DEF Types, ModsOK, VectorOK, Vectors, Kept, LoadOrder, ContextKept
<1>3. /\ mods' \in Seq(Modules) /\ Len(mods') = Len(mods)
      /\ \A k \in 1..Len(mods) :
            /\ mods'[k].refs = mods[k].refs + (IF k = m THEN 1 ELSE 0)
            /\ mods'[k].state = mods[k].state /\ mods'[k].load = mods[k].load
  <2> HIDE DEF m
  <2>1. /\ AddRef(mods, m) \in Seq(Modules) /\ Len(AddRef(mods, m)) = Len(mods)
        /\ \A k \in 1..Len(mods) :
              /\ AddRef(mods, m)[k].refs = mods[k].refs + (IF k = m THEN 1 ELSE 0)
              /\ AddRef(mods, m)[k].state = mods[k].state
              /\ AddRef(mods, m)[k].load = mods[k].load
        BY <1>2, RefFacts
  <2> QED BY <1>1, <2>1
<1> HIDE DEF m
<1>4. DOMAIN mods = 1..Len(mods) /\ DOMAIN mods' = 1..Len(mods)
      BY <1>2, <1>3
<1>5. /\ pushing' \in [{"tick", "io"} -> [buf : Nat, size : Nat]]
      /\ pushing'["io"] = [buf |-> hooks.buf, size |-> hooks.size]
      /\ pushing'["tick"] = pushing["tick"]
      BY <1>0, <1>1, <1>2 DEF Types, PushingOK
<1>6. Types'
  <2>1. VectorOK' /\ TickOK' /\ PoolOK'
        BY <1>0, <1>1 DEF Types, VectorOK, TickOK, PoolOK
  <2>2. ModsOK' /\ IoOK' /\ PushingOK'
        BY <1>0, <1>1, <1>3, <1>5 DEF Types, ModsOK, IoOK, PushingOK
  <2>3. FlagsOK'
        BY <1>0, <1>1 DEF Types, FlagsOK
  <2> QED BY <2>1, <2>2, <2>3 DEF Types
<1>7. Kept'
  <2>1. PushInBounds'
        BY <1>0, <1>1, <1>2, <1>5, BoundsAssumption DEF Kept, PushInBounds
  <2>2. ContextKept'
        BY <1>0, <1>1, <1>4 DEF Kept, ContextKept
  <2>3. LoadOrder'
        BY <1>0, <1>1, <1>2, <1>3 DEF Kept, LoadOrder
  <2> QED BY <2>1, <2>2, <2>3 DEF Kept
<1>8. ASSUME ~raced' PROVE Unraced'
  <2>0. Unraced
        BY <1>0, <1>8
  <2>2. LoopsCurrent'
        BY <1>1, <1>5, <2>0 DEF Unraced, LoopsCurrent
  <2>3. HookedAlive' /\ LosesOld'
    <3>1. \A k : Alive(k)' <=> Alive(k)
          BY <1>3 DEF Alive
    <3>2. HookedAlive'
      <4>1. HookedAlive /\ UNCHANGED <<hooks, loads, pool>>
            BY <1>1, <2>0 DEF Unraced
      <4>2. \A k \in 1..Len(mods) : mods'[k].load = mods[k].load
            BY <1>3
      <4> QED BY <3>1, <4>1, <4>2, HookedStays
    <3>3. LosesOld'
          BY <1>1 DEF LosesOld
    <3> QED BY <3>2, <3>3
  <2>4. ASSUME NEW k \in 1..Len(mods) PROVE mods'[k].refs = Owners(k)'
    <3>1. HookCount(k)' = HookCount(k) /\ ContextCount(k)' = ContextCount(k)
          BY <1>1 DEF HookCount, ContextCount, FirstOwned
    <3>2. /\ IoHand(k)' = (IF k = m THEN 1 ELSE 0) /\ IoHand(k) = 0
          /\ TickHand(k)' = TickHand(k) /\ TickHand(k) \in Nat
          BY <1>1, <1>3 DEF TickHand, IoHand, m
    <3>3. HookCount(k) \in Nat /\ ContextCount(k) \in Nat
          BY <1>0, CountsNat
    <3>4. mods[k].refs = HookCount(k) + ContextCount(k) + TickHand(k) + IoHand(k)
          BY <1>4, <2>0, OwnersAre DEF Unraced
    <3> QED BY <1>3, <3>1, <3>2, <3>3, <3>4, OwnersAreNext
  <2> QED BY <1>4, <2>2, <2>3, <2>4 DEF Unraced
<1> QED BY <1>0, <1>1, <1>6, <1>7, <1>8, StepInv

\* Its handle has become a hook; under the loop that runs it the vector has not grown,
\* or that has been the race (PacketHooks.h:19-22, 32).
LEMMA CallbackRegisteredInv == ASSUME HooksInv, CallbackRegistered PROVE HooksInv'
<1>0. /\ Types /\ Kept /\ (~raced => Unraced) /\ Watch /\ Running
      /\ (raced => raced') /\ raced' \in BOOLEAN
      BY InvariantIs, WatchFacts, Zenon DEF CallbackRegistered
<1> DEFINE m == fn
           n == pushing["io"].size
<1>1. CASE pushing["io"].buf # hooks.buf /\ Corrupt
  <2>1. raced
        BY <1>0, <1>1 DEF CallbackRegistered, Unraced, LoopsCurrent
  <2> QED BY <1>0, <1>1, <2>1, CorruptInv
<1>2. CASE ~(pushing["io"].buf # hooks.buf /\ Corrupt)
  <2>1. /\ io = "push" /\ io' = "run" /\ pushing["io"].buf = hooks.buf
        /\ hooks' = Pushed(m, n) /\ pushing' = [pushing EXCEPT !["io"] = NotPushing]
        /\ UNCHANGED <<mods, tick, loads, todo, walk, calls, call, fn, pool, ctx, losing, crashed,
           corrupt>>
        BY <1>2 DEF CallbackRegistered, EndPush, tickVars
  <2>2. /\ hooks \in Vectors /\ n \in 0..MaxHooks /\ n <= Len(hooks.cells)
        /\ m \in Nat /\ m \in DOMAIN mods
        BY <1>0, <2>1, BoundsAssumption
        DEF Types, VectorOK, ModsOK, IoOK, PushingOK, Kept, PushInBounds, LoadOrder,
           ContextKept
  <2> HIDE DEF m, n
  <2>3. /\ hooks' \in Vectors /\ hooks'.size = n + 1 /\ n + 1 <= Len(hooks'.cells)
        /\ hooks'.cells[n + 1] = m
        /\ \A i \in 1..n : hooks'.cells[i] = hooks.cells[i]
        /\ \/ hooks'.buf = hooks.buf /\ Len(hooks'.cells) = Len(hooks.cells)
           \/ hooks'.buf = hooks.buf + 1
        BY <2>1, <2>2, PushedFacts
  <2>4. /\ n \in Nat /\ hooks.buf \in Nat /\ hooks'.buf \in Nat
        /\ hooks.cells \in Seq(Nat) /\ hooks'.cells \in Seq(Nat)
        BY <2>2, <2>3, BoundsAssumption DEF Vectors
  <2>5. /\ pushing' \in [{"tick", "io"} -> [buf : Nat, size : Nat]]
        /\ pushing'["io"] = [buf |-> 0, size |-> 0]
        /\ pushing'["tick"] = pushing["tick"]
        /\ pushing["tick"].buf \in Nat /\ pushing["tick"].size \in Nat
        BY <1>0, <2>1 DEF Types, PushingOK, NotPushing
  <2>6. Types'
    <3>1. ModsOK' /\ TickOK' /\ PoolOK'
          BY <1>0, <2>1 DEF Types, ModsOK, TickOK, PoolOK
    <3>2. VectorOK' /\ IoOK' /\ PushingOK'
          BY <1>0, <2>1, <2>3, <2>5 DEF Types, VectorOK, IoOK, PushingOK
    <3>3. FlagsOK'
          BY <1>0, <2>1 DEF Types, FlagsOK
    <3> QED BY <3>1, <3>2, <3>3 DEF Types
  <2>7. Kept'
    <3>1. PushInBounds'
      <4>1. /\ pushing["tick"].buf <= hooks.buf /\ pushing["tick"].size <= MaxHooks
            /\ pushing["tick"].buf = hooks.buf => pushing["tick"].size <= Len(hooks.cells)
            BY <1>0 DEF Kept, PushInBounds
      <4>2. /\ Len(hooks'.cells) \in Nat /\ MaxHooks \in Nat
            BY <2>4, BoundsAssumption
      <4>3. /\ pushing'["io"].buf = 0 /\ pushing'["io"].size = 0
            /\ pushing'["tick"] = pushing["tick"]
            BY <2>5
      <4>4. /\ pushing["tick"].buf <= hooks'.buf
            /\ pushing["tick"].buf = hooks'.buf => pushing["tick"].size <= Len(hooks'.cells)
            BY <2>3, <2>4, <2>5, <4>1
      <4>5. 0 <= hooks'.buf /\ 0 <= MaxHooks /\ 0 <= Len(hooks'.cells)
            BY <2>4, <4>2
      <4> QED BY <4>1, <4>3, <4>4, <4>5 DEF PushInBounds
    <3>2. ContextKept' /\ LoadOrder'
          BY <1>0, <2>1, <2>3 DEF Kept, ContextKept, LoadOrder
    <3> QED BY <3>1, <3>2 DEF Kept
  <2>8. ASSUME ~raced' PROVE Unraced'
    <3>0. Unraced /\ tick \notin {"clear", "push"} /\ hooks'.buf = hooks.buf
          BY <1>0, <2>1, <2>8, InvariantIs, WatchFacts DEF Overlap
    <3>1. n = hooks.size
          BY <2>1, <3>0 DEF Unraced, LoopsCurrent, n
    <3>2. Alive(m) /\ mods[m].load = loads /\ call.next \in 1..n /\ fn = hooks.cells[call.next]
          BY <1>0, <2>1, <3>0, <3>1, FetchedIsHooked DEF m
    <3>3. LoopsCurrent'
      <4>1. fn = hooks'.cells[call.next]
            BY <2>3, <3>2
      <4>2. /\ call.buf = hooks.buf /\ call.end <= hooks.size /\ call.next \in 1..call.end + 1
            /\ call.next <= call.end /\ call.end \in Nat
            BY <1>0, <2>1, <3>0 DEF Types, IoOK, LoopsOver, Unraced, LoopsCurrent
      <4>3. call.end <= hooks'.size
            BY <2>3, <2>4, <3>1, <4>2
      <4> QED BY <2>1, <3>0, <4>1, <4>2, <4>3 DEF LoopsCurrent
    <3>4. HookedAlive'
      <4>1. \A k : Alive(k)' <=> Alive(k)
            BY <2>1 DEF Alive
      <4>2. ASSUME NEW i \in 1..n + 1
            PROVE  Alive(hooks'.cells[i]) /\ mods[hooks'.cells[i]].load = loads
        <5>1. CASE i = n + 1
              BY <2>3, <3>2, <5>1
        <5>2. CASE i # n + 1
          <6>1. i \in 1..n
                BY <2>4, <5>2
          <6> QED BY <2>3, <3>0, <3>1, <6>1 DEF Unraced, HookedAlive
        <5> QED BY <5>1, <5>2
      <4>3. ASSUME NEW h \in Hooked PROVE h \in Hooked'
        <5>1. PICK i \in 1..n : hooks.cells[i] = h
              BY <3>1 DEF Hooked
        <5>2. i \in 1..n + 1
              BY <2>4, <5>1
        <5>3. i \in 1..hooks'.size /\ hooks'.cells[i] = h
              BY <2>3, <5>1, <5>2
        <5> QED BY <5>3 DEF Hooked
      <4>4. \A c \in DOMAIN pool.of :
               \/ pool.of[c] = 0
               \/ /\ Alive(pool.of[c])
                  /\ pool.of[c] \in Hooked' \/ mods[pool.of[c]].load < loads
            BY <3>0, <4>3 DEF Unraced, HookedAlive
      <4> QED BY <2>1, <2>3, <4>1, <4>2, <4>4 DEF HookedAlive
    <3>6. LosesOld'
          BY <2>1, <3>0 DEF LosesOld
    <3>5. ASSUME NEW k \in DOMAIN mods PROVE mods'[k].refs = Owners(k)'
      <4>1. HookCount(k)' = HookCount(k) + (IF k = m THEN 1 ELSE 0)
        <5>1. FirstOwned = 1 /\ FirstOwned' = 1
              BY <2>1, <3>0 DEF FirstOwned
        <5>2. Cardinality(Cells(1, n + 1, hooks'.cells, k)) =
              Cardinality(Cells(1, n, hooks.cells,
                 k)) + (IF hooks'.cells[n + 1] = k THEN 1 ELSE 0)
          <6>1. 1 \in Nat /\ 1 <= n + 1
                BY <2>4
          <6> DEFINE cs == hooks.cells
                     ds == hooks'.cells
          <6>2. \A i \in 1..n : ds[i] = cs[i]
                BY <2>3
          <6> HIDE DEF cs, ds
          <6>3. Cardinality(Cells(1, n + 1, ds, k)) =
                Cardinality(Cells(1, n, cs, k)) + (IF ds[n + 1] = k THEN 1 ELSE 0)
                BY <2>4, <6>1, <6>2, OneCellMore
          <6> QED BY <6>3 DEF cs, ds
        <5> QED BY <2>3, <3>1, <5>1, <5>2 DEF HookCount
      <4>2. ContextCount(k)' = ContextCount(k)
            BY <2>1 DEF ContextCount
      <4>3. /\ IoHand(k) = (IF k = m THEN 1 ELSE 0) /\ IoHand(k)' = 0
            /\ TickHand(k)' = TickHand(k) /\ TickHand(k) \in Nat
            BY <2>1 DEF TickHand, IoHand, m
      <4>4. HookCount(k) \in Nat /\ ContextCount(k) \in Nat
            BY <1>0, CountsNat
      <4>5. mods[k].refs = HookCount(k) + ContextCount(k) + TickHand(k) + IoHand(k)
            BY <3>0, OwnersAre DEF Unraced
      <4> QED BY <2>1, <4>1, <4>2, <4>3, <4>4, <4>5, OwnersAreNext
    <3> QED BY <2>1, <3>3, <3>4, <3>5, <3>6 DEF Unraced
  <2> QED BY <1>0, <2>1, <2>6, <2>7, <2>8, StepInv
<1> QED BY <1>1, <1>2

\* The context that get() returns is the only one: a new one, or the one that the
\* loop has given back (AngelBinder.cpp:504-533).
LEMMA TakenFacts ==
    ASSUME Types, ContextKept, io = "fetched"
    PROVE  /\ TakenId(pool) = 1
           /\ \E x : /\ Taken(pool) = [of |-> <<x>>, free |-> <<>>]
                     /\ (pool.of = <<>> /\ x = 0) \/ (pool.of = <<x>> /\ x \in Nat)
<1> DEFINE c == TakenId(pool)
           p == Taken(pool)
<1>1. \/ pool = [of |-> <<>>, free |-> <<>>]
      \/ Len(pool.of) = 1 /\ pool.free = <<1>>
      BY DEF ContextKept
<1>2. pool \in [of : Seq(Nat), free : Seq(Nat)]
      BY DEF Types, PoolOK
<1>3. CASE pool = [of |-> <<>>, free |-> <<>>]
  <2>1. c = 1 /\ p = [of |-> <<0>>, free |-> <<>>] /\ pool.of = <<>>
        BY <1>3 DEF Taken, TakenId
  <2> QED BY <2>1
<1>4. CASE Len(pool.of) = 1 /\ pool.free = <<1>>
  <2>1. pool.of = <<pool.of[1]>> /\ pool.of[1] \in Nat
        BY <1>2, <1>4
  <2>2. c = 1 /\ p = [of |-> pool.of, free |-> <<>>]
        BY <1>2, <1>4 DEF Taken, TakenId
  <2> QED BY <2>1, <2>2
<1> QED BY <1>1, <1>3, <1>4

\* One context owns the function it was prepared with: it releases the function
\* it had before and counts itself for the new one (AngelBinder.cpp:465-533).
LEMMA PrepareHookInv == ASSUME HooksInv, PrepareHook PROVE HooksInv'
<1>0. /\ Types /\ Kept /\ (~raced => Unraced) /\ Watch /\ Running
      /\ (raced => raced') /\ raced' \in BOOLEAN
      BY InvariantIs, WatchFacts, Zenon DEF PrepareHook
<1> DEFINE c == TakenId(pool)
           p == Taken(pool)
           usable == Alive(fn) /\ p.of[c] \in {m \in DOMAIN mods : Alive(m)} \cup {0}
<1>1. io = "fetched" /\ c = 1
      BY <1>0, TakenFacts DEF Kept, PrepareHook
<1>2. PICK x : /\ p = [of |-> <<x>>, free |-> <<>>]
               /\ ((pool.of = <<>> /\ x = 0) \/ (pool.of = <<x>> /\ x \in Nat))
      BY <1>0, <1>1, TakenFacts DEF Kept
<1>3. CASE ~usable
  <2>1. raced
    <3> SUFFICES ASSUME ~raced PROVE usable
        BY <1>3
    <3>1. Alive(fn)
          BY <1>0, <1>1, FetchedIsHooked
    <3>2. x = 0 \/ Alive(x)
          BY <1>0, <1>2 DEF Unraced, HookedAlive
    <3>3. p.of[c] = x
          BY <1>1, <1>2
    <3> QED BY <1>0, <3>1, <3>2, <3>3 DEF Types, ModsOK, Alive
  <2> QED BY <1>0, <1>3, <2>1, CorruptInv DEF PrepareHook
<1>4. CASE usable
  <2>1. /\ io = "fetched" /\ io' = "run" /\ ctx' = 1
        /\ pool' = [of |-> <<fn>>, free |-> <<>>]
        /\ mods' = Prepared(mods, x, fn)
        /\ UNCHANGED <<hooks, tick, loads, todo, walk, calls, call, fn, losing, crashed, pushing,
                       corrupt>>
        BY <1>1, <1>2, <1>4 DEF PrepareHook, tickVars
  <2>2. /\ mods \in Seq(Modules) /\ fn \in 1..Len(mods) /\ Alive(fn)
        /\ x = 0 \/ x \in 1..Len(mods)
        BY <1>0, <1>1, <1>2, <1>4 DEF Types, ModsOK, Alive
  <2> HIDE DEF c, p, usable
  <2>3. /\ mods' \in Seq(Modules) /\ Len(mods') = Len(mods)
        /\ \A k \in 1..Len(mods) :
              /\ mods'[k].refs = mods[k].refs - (IF k = x THEN 1 ELSE 0)
                                 + (IF k = fn THEN 1 ELSE 0)
              /\ mods'[k].state = mods[k].state /\ mods'[k].load = mods[k].load
    <3>0. \A k \in 1..Len(mods) : mods[k].refs \in Int
      <4>1. \A k \in 1..Len(mods) : mods[k] \in Modules
            BY <2>2, ElementOfSeq
      <4> QED BY <4>1 DEF Modules
    <3>1. CASE x = fn
          BY <2>1, <2>2, <3>0, <3>1 DEF Prepared
    <3>2. CASE x # fn /\ x = 0
      <4>1. mods' = AddRef(mods, fn)
            BY <2>1, <3>2 DEF Prepared
      <4>2. /\ AddRef(mods, fn) \in Seq(Modules) /\ Len(AddRef(mods, fn)) = Len(mods)
            /\ \A k \in 1..Len(mods) :
                  /\ AddRef(mods, fn)[k].refs = mods[k].refs + (IF k = fn THEN 1 ELSE 0)
                  /\ AddRef(mods, fn)[k].state = mods[k].state
                  /\ AddRef(mods, fn)[k].load = mods[k].load
            BY <2>2, RefFacts
      <4>3. \A k \in 1..Len(mods) : k # x
            BY <3>2
      <4> QED BY <3>0, <4>1, <4>2, <4>3
    <3>3. CASE x # fn /\ x # 0
      <4>1. mods' = AddRef(Release(mods, x), fn)
            BY <2>1, <3>3 DEF Prepared
      <4>2. /\ Release(mods, x) \in Seq(Modules) /\ Len(Release(mods, x)) = Len(mods)
            /\ \A k \in 1..Len(mods) :
                  /\ Release(mods, x)[k].refs = mods[k].refs - (IF k = x THEN 1 ELSE 0)
                  /\ Release(mods, x)[k].state = mods[k].state
                  /\ Release(mods, x)[k].load = mods[k].load
            BY <2>2, <3>3, RefFacts
      <4> DEFINE ms == Release(mods, x)
      <4> HIDE DEF ms
      <4>3. /\ AddRef(ms, fn) \in Seq(Modules) /\ Len(AddRef(ms, fn)) = Len(ms)
            /\ \A k \in 1..Len(ms) :
                  /\ AddRef(ms, fn)[k].refs = ms[k].refs + (IF k = fn THEN 1 ELSE 0)
                  /\ AddRef(ms, fn)[k].state = ms[k].state
                  /\ AddRef(ms, fn)[k].load = ms[k].load
            BY <2>2, <4>2, RefFacts DEF ms
      <4> QED BY <4>1, <4>2, <4>3 DEF ms
    <3> QED BY <3>1, <3>2, <3>3
  <2>4. DOMAIN mods = 1..Len(mods) /\ DOMAIN mods' = 1..Len(mods)
        BY <2>2, <2>3
  <2>5. Types'
    <3>1. VectorOK' /\ TickOK' /\ PushingOK'
          BY <1>0, <2>1 DEF Types, VectorOK, TickOK, PushingOK
    <3>2. ModsOK' /\ IoOK'
          BY <1>0, <2>1, <2>3 DEF Types, ModsOK, IoOK
    <3>3. PoolOK'
          BY <1>0, <2>1 DEF Types, PoolOK, IoOK
    <3>4. FlagsOK'
          BY <1>0, <2>1 DEF Types, FlagsOK
    <3> QED BY <3>1, <3>2, <3>3, <3>4 DEF Types
  <2>6. Kept'
    <3>1. PushInBounds' /\ ContextKept'
          BY <1>0, <2>1, <2>2, <2>4 DEF Kept, PushInBounds, ContextKept
    <3>2. LoadOrder'
          BY <1>0, <2>1, <2>2, <2>3 DEF Kept, LoadOrder
    <3> QED BY <3>1, <3>2 DEF Kept
  <2>7. ASSUME ~raced' PROVE Unraced'
    <3>0. Unraced
          BY <1>0, <2>7
    <3>1. LoopsCurrent'
          BY <2>1, <3>0 DEF Unraced, LoopsCurrent
    <3>2. \A k : Alive(k)' <=> Alive(k)
          BY <2>3 DEF Alive
    <3>3. HookedAlive'
      <4>1. \A i \in 1..hooks.size : Alive(hooks.cells[i])' /\ mods'[hooks.cells[i]].load = loads
        <5> TAKE i \in 1..hooks.size
        <5>1. Alive(hooks.cells[i]) /\ mods[hooks.cells[i]].load = loads
              BY <3>0 DEF Unraced, HookedAlive
        <5>2. hooks.cells[i] \in 1..Len(mods)
              BY <5>1 DEF Alive
        <5>3. Alive(hooks.cells[i])'
              BY <2>1, <3>2, <5>1
        <5> QED BY <2>3, <5>1, <5>2, <5>3
      <4>2. \A d \in DOMAIN <<fn>> : <<fn>>[d] = fn
            OBVIOUS
      <4>3. fn \in Hooked'
            BY <1>0, <2>1, <3>0, FetchedIsHooked DEF Hooked
      <4> QED BY <2>1, <2>2, <3>2, <4>1, <4>2, <4>3 DEF HookedAlive, Alive
    <3>4. ASSUME NEW k \in 1..Len(mods) PROVE mods'[k].refs = Owners(k)'
      <4>1. HookCount(k)' = HookCount(k)
            BY <2>1 DEF HookCount, FirstOwned
      <4>2. ContextCount(k) = IF k = x THEN 1 ELSE 0
            BY <1>2, OneContextCounts DEF ContextCount
      <4>3. ContextCount(k)' = IF k = fn THEN 1 ELSE 0
            BY <2>1, OneContextCounts DEF ContextCount
      <4>4. TickHand(k)' = TickHand(k) /\ IoHand(k)' = 0 /\ IoHand(k) = 0 /\ TickHand(k) \in Nat
            BY <2>1, <2>3 DEF TickHand, IoHand
      <4>5. HookCount(k) \in Nat
            BY <1>0, CountsNat
      <4>6. mods[k].refs = HookCount(k) + ContextCount(k) + TickHand(k) + IoHand(k)
            BY <2>4, <3>0, OwnersAre DEF Unraced
      <4> QED BY <2>3, <4>1, <4>2, <4>3, <4>4, <4>5, <4>6, OwnersAreNext
    <3>5. LosesOld'
          BY <2>1 DEF LosesOld
    <3> QED BY <2>4, <3>1, <3>3, <3>4, <3>5 DEF Unraced
  <2> QED BY <1>0, <2>1, <2>5, <2>6, <2>7, StepInv
<1> QED BY <1>3, <1>4

\* A context that is the last owner of its function holds one of an older load: one that
\* is hooked has another owner (as_scriptfunction.cpp:509-529, AngelBinder.cpp:465-469).
LEMMA LastIsOld ==
    ASSUME Types, Unraced, tick # "clear", NEW x, pool.of = <<x>>, Alive(x),
           mods[x].refs = 1
    PROVE  mods[x].load < loads
<1>1. x \in 1..Len(mods) /\ x \in DOMAIN mods /\ x # 0
      BY DEF Types, ModsOK, Alive
<1>2. x \in Hooked \/ mods[x].load < loads
  <2>1. 1 \in DOMAIN pool.of /\ pool.of[1] = x
        OBVIOUS
  <2> QED BY <1>1, <2>1 DEF Unraced, HookedAlive
<1>3. ASSUME x \in Hooked PROVE FALSE
  <2>1. PICK i \in 1..hooks.size : hooks.cells[i] = x
        BY <1>3 DEF Hooked
  <2>2. hooks.size \in Nat /\ FirstOwned = 1
        BY BoundsAssumption DEF Types, VectorOK, Vectors, FirstOwned
  <2>3. IsFiniteSet(Cells(FirstOwned, hooks.size, hooks.cells, x))
        BY <2>2, CellsFinite
  <2>4. HookCount(x) # 0 /\ HookCount(x) \in Nat
    <3>1. Cells(FirstOwned, hooks.size, hooks.cells, x) # {}
          BY <2>1, <2>2 DEF Cells
    <3> QED BY <2>3, <3>1, FS_EmptySet, CountsNat DEF HookCount
  <2>5. ContextCount(x) = 1 /\ TickHand(x) \in Nat /\ IoHand(x) \in Nat
        BY OneContextCounts DEF ContextCount, TickHand, IoHand
  <2>6. HookCount(x) + ContextCount(x) + TickHand(x) + IoHand(x) = 1
        BY <1>1, OwnersAre DEF Unraced
  <2> QED BY <2>4, <2>5, <2>6
<1> QED BY <1>2, <1>3

\* A context lets go of the last reference to its function
\* (as_context.cpp:437-451, as_scriptfunction.cpp:509-529).
LEMMA ReleaseLastInv == ASSUME HooksInv, ReleaseLast PROVE HooksInv'
<1>0. /\ Types /\ Kept /\ (~raced => Unraced) /\ Watch /\ Running
      /\ (raced => raced') /\ raced' \in BOOLEAN /\ (Overlap => raced)
      BY InvariantIs, WatchFacts, Zenon DEF ReleaseLast
<1>1. io = "fetched" /\ TakenId(pool) = 1
      BY <1>0, TakenFacts DEF Kept, ReleaseLast
<1>2. PICK x : /\ Taken(pool) = [of |-> <<x>>, free |-> <<>>]
               /\ (pool.of = <<>> /\ x = 0) \/ (pool.of = <<x>> /\ x \in Nat)
      BY <1>0, <1>1, TakenFacts DEF Kept
<1>3. /\ DropsLast(x) /\ mods' = Release(mods, x) /\ losing' = x /\ ctx' = 1
      /\ pool' = [of |-> <<0>>, free |-> <<>>] /\ io' = "release"
      /\ UNCHANGED <<hooks, tick, loads, todo, walk, calls, call, fn, crashed, pushing,
                     corrupt>>
      BY <1>1, <1>2 DEF ReleaseLast, tickVars
<1>4. /\ mods \in Seq(Modules) /\ x \in 1..Len(mods) /\ x \in Nat /\ Alive(x)
      /\ mods[x].refs = 1 /\ pool.of = <<x>>
      BY <1>0, <1>2, <1>3 DEF Types, ModsOK, DropsLast, Alive
<1>5. /\ mods' \in Seq(Modules) /\ Len(mods') = Len(mods)
      /\ \A k \in 1..Len(mods) :
            /\ mods'[k].refs = mods[k].refs - (IF k = x THEN 1 ELSE 0)
            /\ mods'[k].state = mods[k].state /\ mods'[k].load = mods[k].load
      BY <1>3, <1>4, RefFacts
<1>6. DOMAIN mods = 1..Len(mods) /\ DOMAIN mods' = 1..Len(mods)
      BY <1>4, <1>5
<1>7. Types'
  <2>1. VectorOK' /\ TickOK' /\ PushingOK'
        BY <1>0, <1>3 DEF Types, VectorOK, TickOK, PushingOK
  <2>2. ModsOK' /\ IoOK'
        BY <1>0, <1>3, <1>5 DEF Types, ModsOK, IoOK
  <2>3. PoolOK'
        BY <1>3, <1>4 DEF PoolOK
  <2>4. FlagsOK'
        BY <1>0, <1>3 DEF Types, FlagsOK
  <2> QED BY <2>1, <2>2, <2>3, <2>4 DEF Types
<1>8. Kept'
  <2>1. PushInBounds' /\ ContextKept'
        BY <1>0, <1>3, <1>4, <1>6 DEF Kept, PushInBounds, ContextKept
  <2>2. LoadOrder'
        BY <1>0, <1>1, <1>3, <1>5 DEF Kept, LoadOrder
  <2> QED BY <2>1, <2>2 DEF Kept
<1>9. ASSUME ~raced' PROVE Unraced'
  <2>0. Unraced /\ tick # "clear"
        BY <1>0, <1>1, <1>9 DEF Overlap
  <2>1. LoopsCurrent'
        BY <1>1, <1>3, <2>0 DEF Unraced, LoopsCurrent
  <2>2. \A k : Alive(k)' <=> Alive(k)
        BY <1>5 DEF Alive
  <2>3. HookedAlive'
    <3>1. \A i \in 1..hooks.size : Alive(hooks.cells[i])' /\ mods'[hooks.cells[i]].load = loads
      <4> TAKE i \in 1..hooks.size
      <4>1. Alive(hooks.cells[i]) /\ mods[hooks.cells[i]].load = loads
            BY <2>0 DEF Unraced, HookedAlive
      <4>2. hooks.cells[i] \in 1..Len(mods)
            BY <4>1 DEF Alive
      <4>3. Alive(hooks.cells[i])'
            BY <1>3, <2>2, <4>1
      <4> QED BY <1>5, <4>1, <4>2, <4>3
    <3>2. \A d \in DOMAIN <<0>> : <<0>>[d] = 0
          OBVIOUS
    <3> QED BY <1>3, <3>1, <3>2 DEF HookedAlive, Alive
  <2>4. LosesOld'
    <3>1. mods[x].load < loads
          BY <1>0, <1>4, <2>0, LastIsOld
    <3> QED BY <1>3, <1>4, <1>5, <2>2, <3>1 DEF LosesOld
  <2>5. ASSUME NEW k \in 1..Len(mods) PROVE mods'[k].refs = Owners(k)'
    <3>1. HookCount(k)' = HookCount(k)
          BY <1>3 DEF HookCount, FirstOwned
    <3>2. ContextCount(k) = IF k = x THEN 1 ELSE 0
          BY <1>4, OneContextCounts DEF ContextCount
    <3>3. ContextCount(k)' = 0
          BY <1>3, OneContextCounts DEF ContextCount
    <3>4. TickHand(k)' = TickHand(k) /\ IoHand(k)' = 0 /\ IoHand(k) = 0 /\ TickHand(k) \in Nat
          BY <1>1, <1>3, <1>5 DEF TickHand, IoHand
    <3>5. HookCount(k) \in Nat
          BY <1>0, CountsNat
    <3>6. mods[k].refs = HookCount(k) + ContextCount(k) + TickHand(k) + IoHand(k)
          BY <1>6, <2>0, OwnersAre DEF Unraced
    <3> QED BY <1>5, <3>1, <3>2, <3>3, <3>4, <3>5, <3>6, OwnersAreNext
  <2> QED BY <1>6, <2>1, <2>3, <2>4, <2>5 DEF Unraced
<1> QED BY <1>0, <1>3, <1>7, <1>8, <1>9, StepInv

\* Release reads the function once more, which may be gone by then, and the context
\* is prepared (as_scriptfunction.cpp:512-518, as_context.cpp:447-451).
LEMMA ReleasedLastInv == ASSUME HooksInv, ReleasedLast PROVE HooksInv'
<1>0. /\ Types /\ Kept /\ (~raced => Unraced) /\ Watch /\ Running
      /\ (raced => raced') /\ raced' \in BOOLEAN
      BY InvariantIs, WatchFacts, Zenon DEF ReleasedLast
<1>1. /\ io = "release" /\ ctx = 1 /\ pool = [of |-> <<0>>, free |-> <<>>]
      /\ losing \in DOMAIN mods
      BY <1>0 DEF Kept, ContextKept, ReleasedLast
<1>2. CASE ~(Alive(losing) /\ Alive(fn))
  <2>1. raced \/ ReleasedLate
    <3> SUFFICES ASSUME ~raced PROVE ReleasedLate
        OBVIOUS
    <3>1. Alive(fn)
          BY <1>0, <1>1, FetchedIsHooked
    <3> QED BY <1>0, <1>1, <1>2, <3>1 DEF Unraced, LosesOld, ReleasedLate
  <2> QED BY <1>0, <1>2, <2>1, CorruptInv DEF ReleasedLast
<1>3. CASE Alive(losing) /\ Alive(fn)
  <2>1. /\ mods' = Prepared(mods, 0, fn) /\ io' = "run" /\ losing' = 0
        /\ pool' = [of |-> <<fn>>, free |-> <<>>]
        /\ UNCHANGED <<hooks, tick, loads, todo, walk, calls, call, fn, ctx, crashed, pushing,
                       corrupt>>
        BY <1>1, <1>3 DEF ReleasedLast, tickVars
  <2>2. mods \in Seq(Modules) /\ fn \in 1..Len(mods) /\ fn # 0 /\ fn \in Nat
        BY <1>0, <1>3 DEF Types, ModsOK, Alive
  <2>3. mods' = AddRef(mods, fn)
        BY <2>1, <2>2 DEF Prepared
  <2>4. /\ mods' \in Seq(Modules) /\ Len(mods') = Len(mods)
        /\ \A k \in 1..Len(mods) :
              /\ mods'[k].refs = mods[k].refs + (IF k = fn THEN 1 ELSE 0)
              /\ mods'[k].state = mods[k].state /\ mods'[k].load = mods[k].load
        BY <2>2, <2>3, RefFacts
  <2>5. DOMAIN mods = 1..Len(mods) /\ DOMAIN mods' = 1..Len(mods)
        BY <2>2, <2>4
  <2>6. Types'
    <3>1. VectorOK' /\ TickOK' /\ PushingOK'
          BY <1>0, <2>1 DEF Types, VectorOK, TickOK, PushingOK
    <3>2. ModsOK' /\ IoOK'
          BY <1>0, <2>1, <2>4 DEF Types, ModsOK, IoOK
    <3>3. PoolOK'
          BY <1>0, <2>1, <2>2 DEF Types, PoolOK
    <3>4. FlagsOK'
          BY <1>0, <2>1 DEF Types, FlagsOK
    <3> QED BY <3>1, <3>2, <3>3, <3>4 DEF Types
  <2>7. Kept'
    <3>1. PushInBounds' /\ ContextKept'
          BY <1>0, <1>1, <2>1, <2>2, <2>5 DEF Kept, PushInBounds, ContextKept
    <3>2. LoadOrder'
          BY <1>0, <1>1, <2>1, <2>4 DEF Kept, LoadOrder
    <3> QED BY <3>1, <3>2 DEF Kept
  <2>8. ASSUME ~raced' PROVE Unraced'
    <3>0. Unraced
          BY <1>0, <2>8
    <3>1. LoopsCurrent' /\ LosesOld'
          BY <1>1, <2>1, <3>0 DEF Unraced, LoopsCurrent, LosesOld
    <3>2. \A k : Alive(k)' <=> Alive(k)
          BY <2>4 DEF Alive
    <3>3. HookedAlive'
      <4>1. \A i \in 1..hooks.size : Alive(hooks.cells[i])' /\ mods'[hooks.cells[i]].load = loads
        <5> TAKE i \in 1..hooks.size
        <5>1. Alive(hooks.cells[i]) /\ mods[hooks.cells[i]].load = loads
              BY <3>0 DEF Unraced, HookedAlive
        <5>2. hooks.cells[i] \in 1..Len(mods)
              BY <5>1 DEF Alive
        <5>3. Alive(hooks.cells[i])'
              BY <2>1, <3>2, <5>1
        <5> QED BY <2>4, <5>1, <5>2, <5>3
      <4>2. \A d \in DOMAIN <<fn>> : <<fn>>[d] = fn
            OBVIOUS
      <4>3. fn \in Hooked'
            BY <1>0, <1>1, <2>1, <3>0, FetchedIsHooked DEF Hooked
      <4> QED BY <1>3, <2>1, <3>2, <4>1, <4>2, <4>3 DEF HookedAlive, Alive
    <3>4. ASSUME NEW k \in 1..Len(mods) PROVE mods'[k].refs = Owners(k)'
      <4>1. HookCount(k)' = HookCount(k)
            BY <2>1 DEF HookCount, FirstOwned
      <4>2. ContextCount(k) = 0
        <5>1. ContextCount(k) = IF k = 0 THEN 1 ELSE 0
              BY <1>1, OneContextCounts DEF ContextCount
        <5> QED BY <5>1
      <4>3. ContextCount(k)' = IF k = fn THEN 1 ELSE 0
            BY <2>1, OneContextCounts DEF ContextCount
      <4>4. TickHand(k)' = TickHand(k) /\ IoHand(k)' = 0 /\ IoHand(k) = 0 /\ TickHand(k) \in Nat
            BY <1>1, <2>1, <2>4 DEF TickHand, IoHand
      <4>5. HookCount(k) \in Nat
            BY <1>0, CountsNat
      <4>6. mods[k].refs = HookCount(k) + ContextCount(k) + TickHand(k) + IoHand(k)
            BY <2>5, <3>0, OwnersAre DEF Unraced
      <4> QED BY <2>4, <4>1, <4>2, <4>3, <4>4, <4>5, <4>6, OwnersAreNext
    <3> QED BY <2>5, <3>1, <3>3, <3>4 DEF Unraced
  <2> QED BY <1>0, <2>1, <2>6, <2>7, <2>8, StepInv
<1> QED BY <1>2, <1>3

(***************************************************************************)
(* The invariant, and what it promises.                                    *)
(***************************************************************************)

\* Nothing happens: nothing changes.
LEMMA StutterInv == ASSUME HooksInv, UNCHANGED vars PROVE HooksInv'
<1>1. UNCHANGED <<hooks, mods, tickVars, ioVars, pushing, corrupt, raced>>
      BY DEF vars
<1>2. UNCHANGED <<tick, io>>
      BY <1>1 DEF tickVars, ioVars
<1>3. (corrupt => raced \/ ReleasedLate) /\ (Overlap' => raced')
      BY <1>1, <1>2, InvariantIs DEF Overlap
<1>4. corrupt \in BOOLEAN /\ raced \in BOOLEAN
      BY InvariantIs DEF Types, FlagsOK
<1> QED BY <1>1, <1>3, <1>4, FrozenInv

\* Every step keeps the invariant.
LEMMA NextInv == ASSUME HooksInv, [Next]_vars PROVE HooksInv'
<1>1. CASE Tick
  <2>1. CASE \E f \in Files : LoadScript(f)
        BY <2>1, LoadScriptInv
  <2> QED BY <1>1, <2>1, FirstLoadInv, BeginReloadInv, ReleaseHookInv, ClearHooksInv,
             MainRegistersInv, MainRegisteredInv, MainReturnsInv, EndLoadInv DEF Tick
<1>2. CASE Io
      BY <1>2, BeginCallInv, FetchHookInv, PrepareHookInv, ReleaseLastInv, ReleasedLastInv,
         CallbackRegistersInv,
         CallbackRegisteredInv, ReturnsContextInv, CallbackThrowsInv, EndCallInv DEF Io
<1>3. CASE UNCHANGED vars
      BY <1>3, StutterInv
<1> QED BY <1>1, <1>2, <1>3 DEF Next

\* The invariant holds in every state that the program reaches, whatever the files,
\* the names and the bounds (PacketHooks.h:19-91, ScriptHandler.cpp:27-142).
THEOREM HooksInvariance == Spec => []HooksInv
<1>1. Init => HooksInv
      BY InitInv
<1>2. HooksInv /\ [Next]_vars => HooksInv'
      BY NextInv
<1> QED BY <1>1, <1>2, PTL DEF Spec

\* The variables keep their types, and no count of a function falls below zero
\* before there has been a race (PacketHooks.h:81-91, AngelBinder.cpp:465-469).
THEOREM HooksTypeCorrect == Spec => []TypeOK
<1>1. HooksInv => TypeOK
      BY DEF HooksInv
<1> QED BY <1>1, HooksInvariance, PTL

\* Freed memory is used in two ways only: one thread has changed the vector under a
\* loop over it, or a context has let go of a callback of an older load while a later
\* script of the newest load was loaded (PacketHooks.h:19-91, ScriptHandler.cpp:27-142,
\* AngelBinder.cpp:465-533, as_scriptfunction.cpp:509-529).
THEOREM SafeUnlessRacedHolds == Spec => []SafeUnlessRaced
<1>1. HooksInv => SafeUnlessRaced
      BY DEF HooksInv
<1> QED BY <1>1, HooksInvariance, PTL

\* Every reference to a callback has its owner and every owner its reference
\* (PacketHooks.h:19, 81-91, AngelBinder.cpp:465-469).
THEOREM RefsExactHolds == Spec => []RefsExact
<1>1. HooksInv => RefsExact
      BY DEF HooksInv
<1> QED BY <1>1, HooksInvariance, PTL

\* What the io thread has fetched stays hooked and there while it runs
\* (PacketHooks.h:32-75, ScriptHandler.cpp:88).
THEOREM RunsHookedHolds == Spec => []RunsHooked
<1>1. HooksInv => RunsHooked
  <2> SUFFICES ASSUME HooksInv, io \in {"fetched", "release", "run", "push"}, ~raced
        PROVE fn \in Hooked /\ Alive(fn) /\ call.next <= hooks.size
      BY DEF RunsHooked
  <2>1. Types /\ Unraced
        BY InvariantIs
  <2>2. call.next \in 1..hooks.size /\ fn = hooks.cells[call.next] /\ Alive(fn)
        BY <2>1, FetchedIsHooked
  <2>3. hooks.size \in Nat
        BY <2>1, BoundsAssumption DEF Types, VectorOK, Vectors
  <2> QED BY <2>2, <2>3 DEF Hooked
<1> QED BY <1>1, HooksInvariance, PTL

\* One context is all the io thread ever needs, and no two calls share it
\* (AngelBinder.cpp:504-533).
THEOREM OneContextHolds == Spec => []OneContext
<1>1. HooksInv => OneContext
  <2> SUFFICES ASSUME HooksInv PROVE OneContext
      OBVIOUS
  <2>1. ContextKept
        BY DEF HooksInv
  <2>2. CASE io \in {"run", "push"}
    <3>1. /\ pool = [of |-> <<fn>>, free |-> <<>>] /\ ctx = 1
          BY <2>1, <2>2 DEF ContextKept
    <3>2. Len(pool.of) = 1 /\ pool.free = <<>> /\ io # "idle"
          BY <2>2, <3>1
    <3> QED BY <3>2 DEF OneContext
  <2>4. CASE io = "release"
    <3>1. pool = [of |-> <<0>>, free |-> <<>>]
          BY <2>1, <2>4 DEF ContextKept
    <3>2. Len(pool.of) = 1 /\ pool.free = <<>>
          BY <3>1
    <3> QED BY <2>4, <3>2 DEF OneContext
  <2>3. CASE io \notin {"release", "run", "push"}
    <3>1. ctx = 0 /\ \/ pool = [of |-> <<>>, free |-> <<>>]
                     \/ Len(pool.of) = 1 /\ pool.free = <<1>>
          BY <2>1, <2>3 DEF ContextKept
    <3>2. Len(pool.of) <= 1 /\ Len(pool.free) = Len(pool.of)
      <4>1. CASE pool = [of |-> <<>>, free |-> <<>>]
        <5>1. pool.of = <<>> /\ pool.free = <<>>
              BY <4>1
        <5> QED BY <5>1
      <4>2. CASE Len(pool.of) = 1 /\ pool.free = <<1>>
            BY <4>2
      <4> QED BY <3>1, <4>1, <4>2
    <3> QED BY <3>1, <3>2 DEF OneContext
  <2> QED BY <2>2, <2>3, <2>4
<1> QED BY <1>1, HooksInvariance, PTL

(***************************************************************************)
(* The hooks keep what HookReports promises.                               *)
(***************************************************************************)

\* A stretch of a buffer is a sequence of what its cells hold.
LEMMA StretchFacts ==
    ASSUME NEW cells \in Seq(Nat), NEW l \in Nat \ {0}, NEW n \in 0..Len(cells)
    PROVE  /\ Stretch(cells, l, n) \in Seq(Nat)
           /\ l > n => Stretch(cells, l, n) = <<>>
           /\ l <= n => /\ Stretch(cells, l, n) # <<>>
                        /\ Head(Stretch(cells, l, n)) = cells[l]
                        /\ Tail(Stretch(cells, l, n)) = Stretch(cells, l + 1, n)
<1> DEFINE s == Stretch(cells, l, n)
           t == Stretch(cells, l + 1, n)
<1>0. Len(cells) \in Nat /\ n \in Nat
      OBVIOUS
<1>1. CASE l > n
  <2>1. 1..n + 1 - l = {}
        BY <1>0, <1>1
  <2>2. s = <<>>
        BY <2>1 DEF Stretch
  <2> QED BY <1>0, <1>1, <2>2
<1>2. CASE l <= n
  <2>1. PICK k \in Nat : k = n + 1 - l
        BY <1>0, <1>2
  <2>2. s = [i \in 1..k |-> cells[l + i - 1]]
        BY <2>1 DEF Stretch
  <2>3. \A i \in 1..k : l + i - 1 \in 1..Len(cells)
        BY <1>0, <1>2, <2>1
  <2>4. \A i \in 1..k : cells[l + i - 1] \in Nat
        BY <2>3, ElementOfSeq
  <2>5. s \in Seq(Nat) /\ Len(s) = k
        BY <2>2, <2>4
  <2>6. t = [i \in 1..k - 1 |-> cells[l + i]]
    <3>1. n + 1 - (l + 1) = k - 1
          BY <1>0, <2>1
    <3>2. \A i \in 1..k - 1 : (l + 1) + i - 1 = l + i
          OBVIOUS
    <3> QED BY <3>1, <3>2 DEF Stretch
  <2>7. 1 \in 1..k /\ l + 1 - 1 = l /\ k # 0
        BY <1>0, <1>2, <2>1
  <2>8. s # <<>> /\ Head(s) = cells[l]
    <3>1. s # <<>>
          BY <2>5, <2>7
    <3>2. Head(s) = s[1]
          BY <2>5, <3>1, HeadTailProperties
    <3> QED BY <2>2, <2>7, <3>1, <3>2
  <2>9. Tail(s) = t
    <3>1. /\ Tail(s) \in Seq(Nat) /\ Len(Tail(s)) = k - 1
          /\ \A i \in 1..k - 1 : Tail(s)[i] = s[i + 1]
          BY <2>5, <2>8, HeadTailProperties
    <3>2. \A i \in 1..k - 1 : i + 1 \in 1..k /\ l + (i + 1) - 1 = l + i
          BY <2>7
    <3>3. \A i \in 1..k - 1 : Tail(s)[i] = cells[l + i]
          BY <2>2, <3>1, <3>2
    <3> HIDE DEF s, t
    <3>4. Tail(s) = [i \in 1..k - 1 |-> Tail(s)[i]]
      <4> DEFINE r == Tail(s)
      <4>1. r \in Seq(Nat) /\ Len(r) = k - 1
            BY <3>1
      <4> HIDE DEF r
      <4>2. r = [i \in 1..Len(r) |-> r[i]]
            BY <4>1
      <4> QED BY <4>1, <4>2 DEF r
    <3> QED BY <2>6, <3>3, <3>4
  <2> QED BY <1>2, <2>5, <2>8, <2>9
<1> QED BY <1>0, <1>1, <1>2

\* Of a stretch only its cells matter.
LEMMA StretchKept ==
    ASSUME NEW cells \in Seq(Nat), NEW others \in Seq(Nat), NEW l \in Nat \ {0},
           NEW n \in 0..Len(cells), \A i \in 1..n : others[i] = cells[i]
    PROVE  Stretch(others, l, n) = Stretch(cells, l, n)
<1>1. n \in Nat
      OBVIOUS
<1>2. \A i \in 1..n + 1 - l : l + i - 1 \in 1..n
  <2> SUFFICES ASSUME NEW a \in Nat \ {0}, NEW b \in Nat, NEW i \in 1..b + 1 - a
               PROVE  a + i - 1 \in 1..b
      BY <1>1
  <2> QED OBVIOUS
<1>3. \A i \in 1..n + 1 - l : others[l + i - 1] = cells[l + i - 1]
      BY <1>2
<1> QED BY <1>3 DEF Stretch

\* push_back makes the stretch of hooked cells longer by the new one.
LEMMA StretchAppended ==
    ASSUME NEW cells \in Seq(Nat), NEW others \in Seq(Nat), NEW n \in 0..Len(cells),
           n + 1 <= Len(others), \A i \in 1..n : others[i] = cells[i]
    PROVE  Stretch(others, 1, n + 1) = Append(Stretch(cells, 1, n), others[n + 1])
<1> DEFINE s == Stretch(cells, 1, n)
           t == Stretch(others, 1, n + 1)
           m == others[n + 1]
<1>1. n \in Nat /\ Len(cells) \in Nat /\ Len(others) \in Nat
      OBVIOUS
<1>2. /\ n + 1 - 1 = n /\ (n + 1) + 1 - 1 = n + 1
      /\ \A i \in 1..n + 1 : 1 + i - 1 = i
      BY <1>1
<1>3. s = [i \in 1..n |-> cells[i]]
      BY <1>2 DEF Stretch
<1>4. t = [i \in 1..n + 1 |-> others[i]]
  <2>1. t = [i \in 1..(n + 1) + 1 - 1 |-> others[1 + i - 1]]
        BY DEF Stretch
  <2> QED BY <1>2, <2>1
<1>5. \A i \in 1..n : cells[i] \in Nat
  <2>1. \A i \in 1..n : i \in 1..Len(cells)
        BY <1>1
  <2> QED BY <2>1, ElementOfSeq
<1>6. m \in Nat
      BY <1>1, ElementOfSeq
<1>7. s \in Seq(Nat) /\ Len(s) = n
      BY <1>1, <1>3, <1>5
<1> HIDE DEF s, m
<1>8. /\ Append(s, m) \in Seq(Nat) /\ Len(Append(s, m)) = n + 1
      /\ \A i \in 1..n : Append(s, m)[i] = s[i]
      /\ Append(s, m)[n + 1] = m
      BY <1>6, <1>7, AppendProperties
<1>9. \A i \in 1..n + 1 : Append(s, m)[i] = others[i]
  <2>0. \A i \in 1..n : others[i] = cells[i] /\ s[i] = cells[i] /\ Append(s, m)[i] = s[i]
        BY <1>3, <1>8
  <2>1. ASSUME NEW i \in 1..n + 1 PROVE Append(s, m)[i] = others[i]
    <3>1. CASE i = n + 1
      <4>1. Append(s, m)[n + 1] = m
            BY <1>8
      <4> QED BY <3>1, <4>1 DEF m
    <3>2. CASE i # n + 1
      <4>1. i \in 1..n
            BY <1>1, <3>2
      <4> QED BY <2>0, <4>1
    <3> QED BY <3>1, <3>2
  <2> QED BY <2>1
<1>10. Append(s, m) = [i \in 1..n + 1 |-> Append(s, m)[i]]
  <2> DEFINE r == Append(s, m)
  <2>1. r \in Seq(Nat) /\ Len(r) = n + 1
        BY <1>8
  <2> HIDE DEF r
  <2>2. r = [i \in 1..Len(r) |-> r[i]]
        BY <2>1
  <2> QED BY <2>1, <2>2 DEF r
<1> HIDE DEF t
<1>11. Append(s, m) = t
      BY <1>4, <1>9, <1>10
<1> QED BY <1>11 DEF s, t, m

\* What a step leaves alone of what the scripts see.
LEMMA HookStutters ==
    ASSUME UNCHANGED <<raced, Newest, HookedNow, LeftToRun, RunsNow, Changing>>,
           io' = "idle" <=> io = "idle"
    PROVE  [Hook!Next]_(Hook!vars)
BY DEF Hook!vars

\* The types of the parts that the loops read (PacketHooks.h:19-37).
LEMMA LoopTypes ==
    ASSUME HooksInv
    PROVE  /\ hooks.cells \in Seq(Nat) /\ hooks.size \in 0..Len(hooks.cells)
           /\ call.next \in Nat \ {0} /\ call.end \in Nat /\ loads \in Nat
           /\ mods \in Seq(Modules) /\ DOMAIN mods = 1..Len(mods) /\ Len(mods) \in Nat
           /\ ~raced /\ io # "idle" => call.end \in 0..Len(hooks.cells)
<1>1. Types /\ (~raced => Unraced)
      BY InvariantIs
<1>2. /\ hooks.cells \in Seq(Nat) /\ hooks.size \in Nat /\ hooks.size <= Len(hooks.cells)
      /\ call.next \in Nat \ {0} /\ call.end \in Nat /\ loads \in Nat
      /\ mods \in Seq(Modules)
      BY <1>1, BoundsAssumption
      DEF Types, VectorOK, Vectors, ModsOK, TickOK, IoOK, LoopsOver
<1>3. ~raced /\ io # "idle" => call.end <= hooks.size
      BY <1>1 DEF Unraced, LoopsCurrent
<1>4. Len(hooks.cells) \in Nat
      BY <1>2
<1> QED BY <1>2, <1>3, <1>4

\* A step that keeps the modules' loads keeps the newest of them.
LEMMA NewestKept ==
    ASSUME HooksInv, mods' \in Seq(Modules), Len(mods') = Len(mods), loads' = loads,
           \A k \in 1..Len(mods) : mods'[k].load = mods[k].load
    PROVE  Newest' = Newest
<1>1. DOMAIN mods' = DOMAIN mods /\ DOMAIN mods = 1..Len(mods)
      BY LoopTypes
<1> QED BY <1>1 DEF Newest

\* A larger buffer is the work of a push_back.
LEMMA BufferMoves ==
    ASSUME HooksInv, Next, hooks'.buf # hooks.buf
    PROVE  (tick = "push" \/ io = "push") /\ (io' = "idle" <=> io = "idle")
<1>1. ~ClearHooks
      BY DEF ClearHooks, ForgetHooks, HooksInv, TypeOK
<1>2. CASE MainRegistered
      BY <1>2 DEF MainRegistered, ioVars, Corrupt
<1>3. CASE CallbackRegistered
      BY <1>3 DEF CallbackRegistered, Corrupt
<1>4. CASE Tick /\ ~MainRegistered /\ ~ClearHooks
      BY <1>4 DEF Tick, FirstLoad, BeginReload, ReleaseHook, LoadScript, MainRegisters, MainReturns,
                  EndLoad, Corrupt
<1>5. CASE Io /\ ~CallbackRegistered
      BY <1>5 DEF Io, BeginCall, FetchHook, PrepareHook, ReleaseLast, ReleasedLast,
                  CallbackRegisters, ReturnsContext,
                  CallbackReturns, CallbackThrows, EndCall, Corrupt
<1> QED BY <1>1, <1>2, <1>3, <1>4, <1>5 DEF Next

\* A race is a change of the hooks under a report.
LEMMA RaceBreaks ==
    ASSUME HooksInv, Next, Watch, raced'
    PROVE  [Hook!Next]_(Hook!vars)
<1>1. CASE raced
      BY <1>1 DEF Hook!Next
<1>2. CASE ~raced
  <2>1. Overlap' \/ (io # "idle" /\ hooks'.buf # hooks.buf)
        BY <1>2 DEF Watch
  <2>2. CASE Overlap'
    <3>1. io' # "idle" /\ Changing'
          BY <2>2 DEF Overlap, Changing
    <3> QED BY <1>2, <3>1 DEF Hook!Next, Hook!Break
  <2>3. CASE io # "idle" /\ hooks'.buf # hooks.buf
    <3>1. io' # "idle" /\ Changing
          BY <2>3, BufferMoves DEF Changing
    <3> QED BY <1>2, <3>1 DEF Hook!Next, Hook!Break
  <2> QED BY <2>1, <2>2, <2>3
<1> QED BY <1>1, <1>2

\* Without a race nobody changes the hooks under a report, and freed memory is used by a
\* release that comes too late at most.
LEMMA RaceFree ==
    ASSUME HooksInv, HooksInv', ~raced, ~raced'
    PROVE  /\ io = "idle" \/ tick \notin {"clear", "push"}
           /\ io' = "idle" \/ tick' \notin {"clear", "push"}
           /\ (io # "release" => ~Corrupt) /\ Types /\ Kept /\ Unraced
<1>1. ~Overlap /\ ~Overlap' /\ (corrupt' => io' = "release")
      BY DEF HooksInv, SafeUnlessRaced, ReleasedLate
<1>2. Corrupt => corrupt' /\ io' = io
      BY DEF Corrupt, ioVars
<1> QED BY <1>1, <1>2, InvariantIs DEF Overlap

\* The first load finds nothing hooked and no module (ScriptHandler.cpp:27-36).
LEMMA FirstLoadReloads ==
    ASSUME HooksInv, HooksInv', FirstLoad, ~raced, ~raced'
    PROVE  [Hook!Next]_(Hook!vars)
<1>1. /\ tick = "boot" /\ tick' = "load"
      /\ UNCHANGED <<hooks, mods, io, call, fn>>
      BY DEF FirstLoad, ioVars
<1>2. mods = <<>> /\ hooks.size = 0 /\ io = "idle"
      BY <1>1, RaceFree DEF Kept, LoadOrder
<1>3. HookedNow' = <<>>
  <2>1. Stretch(hooks.cells, 1, 0) = <<>>
        BY LoopTypes, StretchFacts
  <2> QED BY <1>1, <1>2, <2>1 DEF HookedNow
<1>4. Newest' \cap Newest = {}
      BY <1>2 DEF Newest
<1>5. UNCHANGED <<LeftToRun, RunsNow>> /\ Changing' \in BOOLEAN /\ io' = "idle"
      BY <1>1, <1>2 DEF LeftToRun, RunsNow, Changing
<1>6. Hook!Reload
      BY <1>2, <1>3, <1>4, <1>5 DEF Hook!Reload
<1> QED BY <1>6 DEF Hook!Next, Hook!Kept

\* ClearHooks empties the hooks, and the load it begins is a new one
\* (PacketHooks.h:81-91, ScriptHandler.cpp:27-36).
LEMMA ClearHooksReloads ==
    ASSUME HooksInv, HooksInv', ClearHooks, ~raced, ~raced'
    PROVE  [Hook!Next]_(Hook!vars)
<1>1. /\ tick = "clear" /\ loads' = loads + 1 /\ hooks' = [hooks EXCEPT !.size = 0]
      /\ UNCHANGED <<mods, io, call, fn>>
      BY DEF ClearHooks, ForgetHooks, ioVars
<1>2. io = "idle" /\ hooks \in Vectors
      BY <1>1, RaceFree DEF Types, VectorOK
<1>3. HookedNow' = <<>>
  <2>1. Stretch(hooks.cells, 1, 0) = <<>>
        BY LoopTypes, StretchFacts
  <2>2. hooks'.cells = hooks.cells /\ hooks'.size = 0
        BY <1>1, <1>2 DEF Vectors
  <2> QED BY <2>1, <2>2 DEF HookedNow
<1>4. Newest' \cap Newest = {}
  <2>1. loads # loads + 1
        BY LoopTypes
  <2> QED BY <1>1, <2>1 DEF Newest
<1>5. UNCHANGED <<LeftToRun, RunsNow>> /\ Changing' \in BOOLEAN /\ io' = "idle"
      BY <1>1, <1>2 DEF LeftToRun, RunsNow, Changing
<1>6. Hook!Reload
      BY <1>2, <1>3, <1>4, <1>5 DEF Hook!Reload
<1> QED BY <1>6 DEF Hook!Next, Hook!Kept

\* A reload, a main() and a callback set about changing the hooks between reports
\* or under the callback that does it.
LEMMA ChangeBegins ==
    ASSUME HooksInv, HooksInv', ~raced, ~raced',
           ~Changing, Changing', io # "idle" => io = "run",
           UNCHANGED <<hooks, loads, call, fn>>, mods' \in Seq(Modules), Len(mods') = Len(mods),
           \A k \in 1..Len(mods) : mods'[k].load = mods[k].load,
           io' = io \/ (io = "run" /\ io' = "push")
    PROVE  [Hook!Next]_(Hook!vars)
<1>1. UNCHANGED <<Newest, HookedNow, LeftToRun, RunsNow>>
      BY NewestKept DEF HookedNow, LeftToRun, RunsNow
<1>2. io = "run" => RunsNow # 0
  <2>1. io = "run" => fn \in DOMAIN mods
        BY DEF HooksInv, ContextKept
  <2> QED BY <2>1, LoopTypes DEF RunsNow
<1>3. io' # "idle" <=> io # "idle"
      OBVIOUS
<1>4. Changing \in BOOLEAN /\ Changing' \in BOOLEAN
      BY DEF Changing
<1>5. Hook!Change
      BY <1>1, <1>2, <1>3, <1>4 DEF Hook!Change, Hook!MayChange, Hook!NoCallback
<1> QED BY <1>5 DEF Hook!Next, Hook!Kept

\* ReloadScripts enters ClearHooks (ScriptHandler.cpp:27-36).
LEMMA BeginReloadChanges ==
    ASSUME HooksInv, HooksInv', BeginReload, ~raced, ~raced'
    PROVE  [Hook!Next]_(Hook!vars)
<1>1. /\ tick = "idle" /\ tick' = "clear" /\ UNCHANGED <<hooks, mods, loads, io, call, fn>>
      BY DEF BeginReload, ioVars
<1>2. io = "idle"
      BY <1>1, RaceFree
<1>3. ~Changing /\ Changing'
      BY <1>1, <1>2 DEF Changing
<1> QED BY <1>1, <1>2, <1>3, ChangeBegins, LoopTypes

\* main() enters RegisterPacketCallback (PacketHooks.h:19-22).
LEMMA MainRegistersChanges ==
    ASSUME HooksInv, HooksInv', MainRegisters, ~raced, ~raced'
    PROVE  [Hook!Next]_(Hook!vars)
<1>1. /\ tick = "main" /\ tick' = "push" /\ mods' = AddRef(mods, Len(mods))
      /\ UNCHANGED <<hooks, loads, io, call, fn>>
      BY DEF MainRegisters, BeginPush, ioVars
<1>2. io = "idle"
      BY <1>1, RaceFree
<1>3. ~Changing /\ Changing'
      BY <1>1, <1>2 DEF Changing
<1>4. Len(mods) \in 1..Len(mods)
      BY <1>1, RaceFree, LoopTypes DEF Kept, LoadOrder
<1>5. /\ mods' \in Seq(Modules) /\ Len(mods') = Len(mods)
      /\ \A k \in 1..Len(mods) : mods'[k].load = mods[k].load
      BY <1>1, <1>4, RefFacts, LoopTypes
<1> QED BY <1>1, <1>2, <1>3, <1>5, ChangeBegins

\* A callback enters RegisterPacketCallback (PacketHooks.h:19-22).
LEMMA CallbackRegistersChanges ==
    ASSUME HooksInv, HooksInv', CallbackRegisters, ~raced, ~raced'
    PROVE  [Hook!Next]_(Hook!vars)
<1>1. /\ io = "run" /\ io' = "push" /\ mods' = AddRef(mods, fn)
      /\ UNCHANGED <<hooks, tick, loads, call, fn>>
      BY DEF CallbackRegisters, BeginPush, tickVars
<1>2. ~Changing /\ Changing'
      BY <1>1, RaceFree DEF Changing
<1>3. fn \in 1..Len(mods)
      BY <1>1, LoopTypes DEF HooksInv, ContextKept
<1>4. /\ mods' \in Seq(Modules) /\ Len(mods') = Len(mods)
      /\ \A k \in 1..Len(mods) : mods'[k].load = mods[k].load
      BY <1>1, <1>3, RefFacts, LoopTypes
<1> QED BY <1>1, <1>2, <1>4, ChangeBegins

\* push_back hooks one callback more, and leaves a loop over the same buffer what it
\* had (PacketHooks.h:19-22).
LEMMA PushHooks ==
    ASSUME HooksInv, NEW m \in Nat, hooks' = Pushed(m, hooks.size), hooks.size <= MaxHooks,
           ~raced, ~raced', call' = call, io' # "idle" <=> io # "idle"
    PROVE  HookedNow' = Append(HookedNow, m) /\ LeftToRun' = LeftToRun
<1> DEFINE n == hooks.size
<1>1. /\ hooks.cells \in Seq(Nat) /\ n \in 0..Len(hooks.cells) /\ n \in 0..MaxHooks
      /\ hooks \in Vectors /\ n <= Len(hooks.cells)
      BY LoopTypes, BoundsAssumption DEF HooksInv, TypeOK, Vectors
<1>2. /\ hooks' \in Vectors /\ hooks'.size = n + 1 /\ n + 1 <= Len(hooks'.cells)
      /\ hooks'.cells[n + 1] = m
      /\ \A i \in 1..n : hooks'.cells[i] = hooks.cells[i]
      BY <1>1, PushedFacts
<1>3. hooks'.cells \in Seq(Nat)
      BY <1>2 DEF Vectors
<1>4. HookedNow' = Append(HookedNow, m)
  <2>1. PICK cs, ds : cs = hooks.cells /\ ds = hooks'.cells
        OBVIOUS
  <2>2. Stretch(ds, 1, n + 1) = Append(Stretch(cs, 1, n), ds[n + 1])
        BY <1>1, <1>2, <1>3, <2>1, StretchAppended
  <2> QED BY <1>2, <2>1, <2>2 DEF HookedNow
<1>5. LeftToRun' = LeftToRun
  <2>1. CASE io = "idle"
        BY <2>1 DEF LeftToRun
  <2>2. CASE io # "idle"
    <3>1. /\ call.next \in Nat \ {0} /\ call.end \in Nat /\ call.end \in 0..Len(hooks.cells)
          /\ call.end <= n
          BY <2>2, LoopTypes, InvariantIs DEF Unraced, LoopsCurrent
    <3>2. PICK cs, ds, l, e : cs = hooks.cells /\ ds = hooks'.cells /\ l = call.next /\ e = call.end
          OBVIOUS
    <3>3. \A i \in 1..e : ds[i] = cs[i]
      <4>1. \A i \in 1..e : i \in 1..n
            BY <1>1, <3>1, <3>2
      <4> QED BY <1>2, <3>2, <4>1
    <3>4. Stretch(ds, l, e) = Stretch(cs, l, e)
          BY <1>1, <1>3, <3>1, <3>2, <3>3, StretchKept
    <3> QED BY <2>2, <3>2, <3>4 DEF LeftToRun
  <2> QED BY <2>1, <2>2
<1> QED BY <1>4, <1>5

\* main() hooks its callback: of the newest load (PacketHooks.h:19-22).
LEMMA MainRegisteredRegisters ==
    ASSUME HooksInv, HooksInv', MainRegistered, ~raced, ~raced'
    PROVE  [Hook!Next]_(Hook!vars)
<1> DEFINE m == Len(mods)
<1>1. /\ tick = "push" /\ hooks' = Pushed(m, pushing["tick"].size)
      /\ UNCHANGED <<mods, loads, io, call, fn>>
      BY RaceFree DEF MainRegistered, EndPush, ioVars
<1>2. io = "idle" /\ pushing["tick"].size = hooks.size /\ m \in Newest /\ m \in Nat
      BY <1>1, RaceFree, LoopTypes DEF Unraced, LoopsCurrent, Kept, LoadOrder, Newest
<1>3. hooks.size <= MaxHooks
      BY <1>2 DEF HooksInv, PushInBounds
<1>4. HookedNow' = Append(HookedNow, m) /\ LeftToRun' = LeftToRun
      BY <1>1, <1>2, <1>3, PushHooks
<1>5. UNCHANGED <<Newest, RunsNow>> /\ Changing' \in BOOLEAN
      BY <1>1 DEF Newest, RunsNow, Changing
<1>6. Hook!Register
      BY <1>1, <1>2, <1>4, <1>5 DEF Hook!Register, Hook!MayChange
<1> QED BY <1>6 DEF Hook!Next, Hook!Kept

\* A callback hooks itself once more: it is of the newest load (PacketHooks.h:19-37).
LEMMA CallbackRegisteredRegisters ==
    ASSUME HooksInv, HooksInv', CallbackRegistered, ~raced, ~raced'
    PROVE  [Hook!Next]_(Hook!vars)
<1>1. /\ io = "push" /\ io' = "run" /\ hooks' = Pushed(fn, pushing["io"].size)
      /\ UNCHANGED <<mods, loads, tick, call, fn>>
      BY RaceFree DEF CallbackRegistered, EndPush, tickVars
<1>2. /\ pushing["io"].size = hooks.size /\ fn \in Newest /\ fn \in Nat /\ fn # 0
  <2>1. Types /\ Unraced
        BY RaceFree
  <2>2. pushing["io"] = [buf |-> hooks.buf, size |-> hooks.size]
        BY <1>1, <2>1 DEF Unraced, LoopsCurrent
  <2>3. fn \in 1..Len(mods) /\ mods[fn].load = loads
        BY <1>1, <2>1, LoopTypes, FetchedIsHooked DEF Alive
  <2> QED BY <2>2, <2>3, LoopTypes DEF Newest
<1>3. hooks.size <= MaxHooks
      BY <1>2 DEF HooksInv, PushInBounds
<1>4. HookedNow' = Append(HookedNow, fn) /\ LeftToRun' = LeftToRun
      BY <1>1, <1>2, <1>3, PushHooks
<1>5. UNCHANGED <<Newest, RunsNow>> /\ Changing' \in BOOLEAN /\ RunsNow # 0
      BY <1>1, <1>2 DEF Newest, RunsNow, Changing
<1>6. Hook!Register
      BY <1>1, <1>2, <1>4, <1>5 DEF Hook!Register, Hook!MayChange, Hook!NoCallback
<1> QED BY <1>6 DEF Hook!Next, Hook!Kept

\* LoadScript adds a module to those of the newest load (ScriptHandler.cpp:82-142).
LEMMA LoadScriptBuilds ==
    ASSUME HooksInv, HooksInv', NEW f \in Files, LoadScript(f), ~raced, ~raced'
    PROVE  [Hook!Next]_(Hook!vars)
<1>1. /\ tick = "load" /\ tick' \in {"main", "load"} /\ mods' = Replaced(f)
      /\ UNCHANGED <<hooks, loads, io, call, fn>>
      BY DEF LoadScript, ioVars
<1>2. loads \in 1..MaxLoads
      BY <1>1, BoundsAssumption DEF HooksInv, LoadOrder, TypeOK
<1>3. /\ mods' \in Seq(Modules) /\ Len(mods') = Len(mods) + 1
      /\ \A k \in 1..Len(mods) : mods'[k].load = mods[k].load
      BY <1>1, <1>2, ReplacedFacts, LoopTypes
<1>4. \A k \in DOMAIN mods : k \in DOMAIN mods' /\ mods'[k].load = mods[k].load
      BY <1>3, LoopTypes
<1>5. Newest \subseteq Newest'
      BY <1>1, <1>4 DEF Newest
<1>6. UNCHANGED <<HookedNow, LeftToRun, RunsNow, Changing>> /\ io' = io
      BY <1>1 DEF HookedNow, LeftToRun, RunsNow, Changing
<1>7. Hook!Build
      BY <1>5, <1>6 DEF Hook!Build
<1> QED BY <1>7 DEF Hook!Next, Hook!Kept

\* CallHook takes up what is hooked (PacketHooks.h:29-32).
LEMMA BeginCallBegins ==
    ASSUME HooksInv, HooksInv', BeginCall, ~raced, ~raced'
    PROVE  [Hook!Next]_(Hook!vars)
<1>1. /\ io = "idle" /\ io' = "loop" /\ call' = [buf |-> hooks.buf, next |-> 1, end |-> hooks.size]
      /\ UNCHANGED <<hooks, mods, tick, loads, fn>>
      BY DEF BeginCall, CallLoop, Loop, tickVars
<1>2. ~Changing /\ Changing' = Changing
      BY <1>1, RaceFree DEF Changing
<1>3. LeftToRun' = HookedNow
      BY <1>1 DEF LeftToRun, HookedNow
<1>4. UNCHANGED <<Newest, HookedNow, RunsNow>>
      BY <1>1 DEF Newest, HookedNow, RunsNow
<1>5. Hook!Begin
      BY <1>1, <1>2, <1>3, <1>4 DEF Hook!Begin
<1> QED BY <1>5 DEF Hook!Next, Hook!Kept

\* A context prepared with the fetched function runs the next of what is left
\* (PacketHooks.h:32-37, AngelBinder.cpp:465-469).
LEMMA PrepareHookCalls ==
    ASSUME HooksInv, HooksInv', PrepareHook, ~raced, ~raced'
    PROVE  [Hook!Next]_(Hook!vars)
<1> DEFINE old == Taken(pool).of[TakenId(pool)]
<1>1. /\ io = "fetched" /\ io' = "run" /\ mods' = Prepared(mods, old, fn)
      /\ Alive(fn) /\ old \in {m \in DOMAIN mods : Alive(m)} \cup {0}
      /\ UNCHANGED <<hooks, tick, loads, call, fn>>
      BY RaceFree DEF PrepareHook, tickVars
<1> HIDE DEF old
<1>2. fn \in 1..Len(mods) /\ (old = 0 \/ old \in 1..Len(mods))
      BY <1>1, LoopTypes DEF Alive
<1>3. Newest' = Newest
  <2>1. ASSUME NEW ms \in Seq(Modules), Len(ms) = Len(mods),
               \A k \in 1..Len(mods) : ms[k].load = mods[k].load
        PROVE  /\ AddRef(ms, fn) \in Seq(Modules) /\ Len(AddRef(ms, fn)) = Len(mods)
               /\ \A k \in 1..Len(mods) : AddRef(ms, fn)[k].load = mods[k].load
        BY <1>2, <2>1, RefFacts
  <2>2. /\ mods' \in Seq(Modules) /\ Len(mods') = Len(mods)
        /\ \A k \in 1..Len(mods) : mods'[k].load = mods[k].load
    <3>1. CASE old = fn
          BY <1>1, <3>1, LoopTypes DEF Prepared
    <3>2. CASE old # fn /\ old = 0
          BY <1>1, <2>1, <3>2, LoopTypes DEF Prepared
    <3>3. CASE old # fn /\ old # 0
      <4>1. /\ Release(mods, old) \in Seq(Modules) /\ Len(Release(mods, old)) = Len(mods)
            /\ \A k \in 1..Len(mods) : Release(mods, old)[k].load = mods[k].load
            BY <1>2, <3>3, RefFacts, LoopTypes
      <4> QED BY <1>1, <2>1, <3>3, <4>1 DEF Prepared
    <3> QED BY <3>1, <3>2, <3>3
  <2> QED BY <1>1, <2>2, NewestKept
<1>4. LeftToRun # <<>> /\ Head(LeftToRun) = fn
  <2>1. /\ call.next <= call.end /\ fn = hooks.cells[call.next]
        /\ call.end \in 0..Len(hooks.cells) /\ call.next \in Nat \ {0}
        BY <1>1, RaceFree, LoopTypes DEF Unraced, LoopsCurrent
  <2> QED BY <1>1, <2>1, StretchFacts, LoopTypes DEF LeftToRun
<1>5. RunsNow = 0 /\ RunsNow' = fn
      BY <1>1 DEF RunsNow
<1>6. UNCHANGED <<HookedNow, LeftToRun, Changing>>
      BY <1>1 DEF HookedNow, LeftToRun, Changing
<1>7. Hook!Call
      BY <1>1, <1>3, <1>4, <1>5, <1>6 DEF Hook!Call, Hook!NoCallback
<1> QED BY <1>7 DEF Hook!Next, Hook!Kept

\* So it does when the context has let go of the last reference to another function; a
\* Release that comes too late ends what is said (as_scriptfunction.cpp:512-518).
LEMMA ReleasedLastCalls ==
    ASSUME HooksInv, HooksInv', ReleasedLast, ~raced, ~raced'
    PROVE  [Hook!Next]_(Hook!vars)
<1>0. io = "release" /\ raced' = raced
      BY DEF ReleasedLast, HooksInv, TypeOK
<1>1. CASE Corrupt
  <2>1. UNCHANGED <<hooks, mods, tick, loads, io, call, fn>>
        BY <1>1 DEF Corrupt, ioVars, tickVars
  <2> QED BY <1>0, <2>1, HookStutters DEF Newest, HookedNow, LeftToRun, RunsNow, Changing
<1>2. CASE ~Corrupt
  <2>1. /\ io' = "run" /\ mods' = Prepared(mods, 0, fn) /\ Alive(fn)
        /\ UNCHANGED <<hooks, tick, loads, call, fn>>
        BY <1>2 DEF ReleasedLast, tickVars
  <2>2. fn \in 1..Len(mods) /\ fn # 0
        BY <2>1, LoopTypes DEF Alive
  <2>3. mods' = AddRef(mods, fn)
        BY <2>1, <2>2 DEF Prepared
  <2>4. /\ mods' \in Seq(Modules) /\ Len(mods') = Len(mods)
        /\ \A k \in 1..Len(mods) : mods'[k].load = mods[k].load
        BY <2>2, <2>3, RefFacts, LoopTypes
  <2>5. Newest' = Newest
        BY <2>1, <2>4, NewestKept
  <2>6. LeftToRun # <<>> /\ Head(LeftToRun) = fn
    <3>1. /\ call.next <= call.end /\ fn = hooks.cells[call.next]
          /\ call.end \in 0..Len(hooks.cells) /\ call.next \in Nat \ {0}
          BY <1>0, RaceFree, LoopTypes DEF Unraced, LoopsCurrent
    <3> QED BY <1>0, <3>1, StretchFacts, LoopTypes DEF LeftToRun
  <2>7. RunsNow = 0 /\ RunsNow' = fn
        BY <1>0, <2>1 DEF RunsNow
  <2>8. UNCHANGED <<HookedNow, LeftToRun, Changing>>
        BY <1>0, <2>1 DEF HookedNow, LeftToRun, Changing
  <2>9. Hook!Call
        BY <1>0, <2>1, <2>5, <2>6, <2>7, <2>8 DEF Hook!Call, Hook!NoCallback
  <2> QED BY <2>9 DEF Hook!Next, Hook!Kept
<1> QED BY <1>1, <1>2

\* A callback that has returned is no longer left to run (PacketHooks.h:32-75).
LEMMA ReturnsContextReturns ==
    ASSUME HooksInv, HooksInv', ReturnsContext, ~raced, ~raced'
    PROVE  [Hook!Next]_(Hook!vars)
<1>1. /\ io = "run" /\ io' = "loop" /\ call' = [call EXCEPT !.next = @ + 1]
      /\ UNCHANGED <<hooks, mods, tick, loads>>
      BY DEF ReturnsContext, CallbackReturns, tickVars
<1>2. /\ call.next <= call.end /\ call.end \in 0..Len(hooks.cells) /\ call.next \in Nat \ {0}
      /\ call \in LoopsOver
      BY <1>1, RaceFree, LoopTypes DEF Unraced, LoopsCurrent, Types, IoOK
<1>3. call'.next = call.next + 1 /\ call'.end = call.end
      BY <1>1, <1>2 DEF LoopsOver
<1>4. LeftToRun' = Tail(LeftToRun)
      BY <1>1, <1>2, <1>3, StretchFacts, LoopTypes DEF LeftToRun
<1>5. RunsNow # 0 /\ RunsNow' = 0
  <2>1. fn \in DOMAIN mods
        BY <1>1 DEF HooksInv, ContextKept
  <2> QED BY <1>1, <2>1, LoopTypes DEF RunsNow
<1>6. UNCHANGED <<Newest, HookedNow, Changing>> /\ ~Changing
      BY <1>1, RaceFree DEF Newest, HookedNow, Changing
<1>7. Hook!Return
      BY <1>1, <1>4, <1>5, <1>6 DEF Hook!Return, Hook!NoCallback
<1> QED BY <1>7 DEF Hook!Next, Hook!Kept

\* CallHook ends when it has run what it began with (PacketHooks.h:32-79).
LEMMA EndCallEnds ==
    ASSUME HooksInv, HooksInv', EndCall, ~raced, ~raced'
    PROVE  [Hook!Next]_(Hook!vars)
<1>1. /\ io = "loop" /\ io' = "idle" /\ call.next > call.end
      /\ UNCHANGED <<hooks, mods, tick, loads, fn>>
      BY DEF EndCall, tickVars
<1>2. LeftToRun = <<>> /\ LeftToRun' = <<>>
      BY <1>1, StretchFacts, LoopTypes DEF LeftToRun
<1>3. RunsNow = 0 /\ UNCHANGED <<Newest, HookedNow, RunsNow, Changing>>
      BY <1>1 DEF Newest, HookedNow, RunsNow, Changing
<1>4. Hook!End
      BY <1>1, <1>2, <1>3 DEF Hook!End, Hook!NoCallback
<1> QED BY <1>4 DEF Hook!Next, Hook!Kept

\* The other steps without a race the scripts do not see.
LEMMA OthersStutter ==
    ASSUME HooksInv, HooksInv', ~raced, ~raced',
           \/ ReleaseHook \/ MainReturns \/ EndLoad \/ FetchHook \/ ReleaseLast
           \/ CallbackThrows
           \/ UNCHANGED vars
    PROVE  [Hook!Next]_(Hook!vars)
<1>0. raced' = raced
      BY DEF HooksInv, TypeOK
<1>1. CASE ReleaseHook
  <2>1. /\ Alive(hooks.cells[walk.next]) /\ mods' = Release(mods, hooks.cells[walk.next])
        /\ UNCHANGED <<hooks, tick, loads, io, call, fn>>
        BY <1>1, RaceFree DEF ReleaseHook, ioVars
  <2>2. /\ mods' \in Seq(Modules) /\ Len(mods') = Len(mods)
        /\ \A k \in 1..Len(mods) : mods'[k].load = mods[k].load
    <3>1. mods \in Seq(Modules) /\ hooks.cells[walk.next] \in 1..Len(mods)
          BY <2>1, LoopTypes DEF Alive
    <3> QED BY <2>1, <3>1, RefFacts
  <2>3. Newest' = Newest
        BY <2>1, <2>2, NewestKept
  <2>4. UNCHANGED <<HookedNow, LeftToRun, RunsNow, Changing>>
        BY <1>0, <2>1 DEF HookedNow, LeftToRun, RunsNow, Changing
  <2> QED BY <1>0, <2>1, <2>3, <2>4, HookStutters
<1>2. CASE MainReturns \/ EndLoad \/ UNCHANGED vars
  <2>1. /\ tick' = tick \/ {tick, tick'} \subseteq {"main", "load", "idle"}
        /\ UNCHANGED <<hooks, mods, loads, io, call, fn>>
        BY <1>2 DEF MainReturns, EndLoad, vars, ioVars, tickVars
  <2>2. UNCHANGED <<Newest, HookedNow, LeftToRun, RunsNow, Changing>>
        BY <1>0, <2>1 DEF Newest, HookedNow, LeftToRun, RunsNow, Changing
  <2>3. io' = "idle" <=> io = "idle"
        BY <2>1
  <2> QED BY <1>0, <2>2, <2>3, HookStutters
<1>3. CASE FetchHook
  <2>1. io = "loop" /\ io' = "fetched" /\ UNCHANGED <<hooks, mods, tick, loads, call>>
        BY <1>3, RaceFree DEF FetchHook, tickVars
  <2>2. UNCHANGED <<Newest, HookedNow, LeftToRun, RunsNow, Changing>>
        BY <1>0, <2>1 DEF Newest, HookedNow, LeftToRun, RunsNow, Changing
  <2>3. io' = "idle" <=> io = "idle"
        BY <2>1
  <2> QED BY <1>0, <2>2, <2>3, HookStutters
<1>4. CASE CallbackThrows
  <2>1. UNCHANGED <<hooks, mods, tick, loads, io, call, fn>>
        BY <1>4 DEF CallbackThrows, tickVars
  <2>2. UNCHANGED <<Newest, HookedNow, LeftToRun, RunsNow, Changing>>
        BY <1>0, <2>1 DEF Newest, HookedNow, LeftToRun, RunsNow, Changing
  <2>3. io' = "idle" <=> io = "idle"
        BY <2>1
  <2> QED BY <1>0, <2>2, <2>3, HookStutters
<1>5. CASE ReleaseLast
  <2> DEFINE old == Taken(pool).of[TakenId(pool)]
  <2>1. /\ io = "fetched" /\ io' = "release" /\ Alive(old) /\ mods' = Release(mods, old)
        /\ UNCHANGED <<hooks, tick, loads, call, fn>>
        BY <1>5 DEF ReleaseLast, DropsLast, tickVars
  <2> HIDE DEF old
  <2>2. /\ mods' \in Seq(Modules) /\ Len(mods') = Len(mods)
        /\ \A k \in 1..Len(mods) : mods'[k].load = mods[k].load
    <3>1. mods \in Seq(Modules) /\ old \in 1..Len(mods)
          BY <2>1, LoopTypes DEF Alive
    <3> QED BY <2>1, <3>1, RefFacts
  <2>3. Newest' = Newest
        BY <2>1, <2>2, NewestKept
  <2>4. UNCHANGED <<HookedNow, LeftToRun, RunsNow, Changing>>
        BY <1>0, <2>1 DEF HookedNow, LeftToRun, RunsNow, Changing
  <2>5. io' = "idle" <=> io = "idle"
        BY <2>1
  <2> QED BY <1>0, <2>3, <2>4, <2>5, HookStutters
<1> QED BY <1>1, <1>2, <1>3, <1>4, <1>5

\* Every step is one of HookReports, or none of it.
LEMMA HookStep ==
    ASSUME HooksInv, HooksInv', [Next]_vars
    PROVE  [Hook!Next]_(Hook!vars)
<1>0. Next => Watch
      BY DEF Next, Tick, Io, FirstLoad, BeginReload, ReleaseHook, ClearHooks, ForgetHooks,
         LoadScript, MainRegisters, MainRegistered, MainReturns, EndLoad, BeginCall, FetchHook,
         PrepareHook, ReleaseLast, ReleasedLast, CallbackRegisters, CallbackRegistered, ReturnsContext, CallbackReturns,
         CallbackThrows, EndCall
<1>1. CASE Next /\ raced'
      BY <1>0, <1>1, RaceBreaks
<1>2. CASE Next /\ ~raced' /\ raced
      BY <1>0, <1>2, WatchFacts
<1>3. CASE Next /\ ~raced /\ ~raced'
  <2>1. CASE \E f \in Files : LoadScript(f)
        BY <1>3, <2>1, LoadScriptBuilds
  <2>2. CASE Tick /\ ~\E f \in Files : LoadScript(f)
        BY <1>3, <2>2, FirstLoadReloads, BeginReloadChanges, ClearHooksReloads,
           MainRegistersChanges, MainRegisteredRegisters, OthersStutter DEF Tick
  <2>3. CASE Io
        BY <1>3, <2>3, BeginCallBegins, PrepareHookCalls, ReleasedLastCalls,
           CallbackRegistersChanges,
           CallbackRegisteredRegisters, ReturnsContextReturns, EndCallEnds, OthersStutter DEF Io
  <2> QED BY <1>3, <2>1, <2>2, <2>3 DEF Next
<1>4. CASE UNCHANGED vars
  <2>1. UNCHANGED <<hooks, mods, tick, loads, io, call, fn, raced>>
        BY <1>4 DEF vars, ioVars, tickVars
  <2> QED BY <2>1, HookStutters DEF Newest, HookedNow, LeftToRun, RunsNow, Changing
<1> QED BY <1>1, <1>2, <1>3, <1>4

\* The start: nothing is hooked and nothing reported.
LEMMA HookInit == Init => Hook!Init
<1> SUFFICES ASSUME Init PROVE Hook!Init
    OBVIOUS
<1>1. HookedNow = <<>>
  <2>1. Stretch(<<>>, 1, 0) = <<>>
    <3>1. 1..0 + 1 - 1 = {}
          OBVIOUS
    <3> QED BY <3>1 DEF Stretch
  <2> QED BY <2>1 DEF Init, HookedNow
<1>2. Newest = {} /\ LeftToRun = <<>> /\ RunsNow = 0 /\ Changing = FALSE
      BY DEF Init, Newest, LeftToRun, RunsNow, Changing
<1> QED BY <1>1, <1>2 DEF Init, Hook!Init, Hook!NoCallback

\* Whatever the files and the callbacks do, a report runs the callbacks of the newest
\* load that were hooked when it began, each once and in order, until the hooks
\* are changed under it (PacketHooks.h:19-91, ScriptHandler.cpp:27-142).
THEOREM HooksKeepReportsHolds == Spec => HooksKeepReports
<1>1. HooksInv /\ HooksInv' /\ [Next]_vars => [Hook!Next]_(Hook!vars)
      BY HookStep
<1> QED BY <1>1, HookInit, HooksInvariance, PTL DEF Spec, HooksKeepReports, Hook!Spec
=============================================================================
