--------------------------- MODULE UtilitiesProofs ----------------------------
(***************************************************************************)
(* OneOwner and CleanEnd for any users and objects of the pool, and        *)
(* ColorKept for any printing threads, which have nothing to do with it.   *)
(*                                                                         *)
(* The sum of cardinalities of OneOwner is what a run can count; what the  *)
(* steps keep is that the places an object can be in exclude each other,   *)
(* and that it is deleted only when it has left them all.                  *)
(***************************************************************************)
EXTENDS SharedPool, DebugHandler, SequenceTheorems, FiniteSetTheorems, TLAPS

PoolTypeOK ==
    /\ stack \in Seq(made) /\ made \subseteq Objects /\ threw \subseteq made
    /\ pool \in {"alive", "no mutex", "no stack", "gone"}
    /\ held \in [PoolUsers -> made \cup {NoObject}]
    /\ deleter \in [PoolUsers -> {"none", "locked", "added", "threw"}]
    /\ deleted \in [Objects -> Nat] /\ outlived \in BOOLEAN /\ undefined \in BOOLEAN

Stacked(o) == \E i \in DOMAIN stack : stack[i] = o
Held(o) == \E u \in PoolUsers : held[u] = o

\* No object is in two places.
PlacesApart ==
    /\ \A i, j \in DOMAIN stack : stack[i] = stack[j] => i = j
    /\ \A u, v \in PoolUsers : held[u] = held[v] /\ held[u] # NoObject => u = v
    /\ \A o \in Objects : ~(Stacked(o) /\ Held(o))

\* An object in one of them has not been deleted, except by the add that threw; one
\* in neither has, and once more if its return threw.
DeletedWhenOut ==
    \A o \in Objects :
        /\ Stacked(o) => o \notin threw
        /\ Stacked(o) \/ Held(o) => deleted[o] = IF o \in threw THEN 1 ELSE 0
        /\ o \in made /\ ~Stacked(o) /\ ~Held(o) => deleted[o] = IF o \in threw THEN 2 ELSE 1
        /\ o \notin made => deleted[o] = 0

\* A deleter has its object until add has taken it, or has thrown and it is deleted.
DeletersHold ==
    \A u \in PoolUsers :
        /\ deleter[u] \in {"locked", "threw"} => held[u] # NoObject
        /\ held[u] # NoObject => (held[u] \in threw <=> deleter[u] = "threw")

\* When nothing was in use as the destructor began, nothing is from there on.
EndInv ==
    /\ pool \in {"no stack", "gone"} => stack = <<>>
    /\ pool # "alive" /\ ~outlived => \A u \in PoolUsers : held[u] = NoObject
    /\ undefined => outlived

PoolInv == PoolTypeOK /\ PlacesApart /\ DeletedWhenOut /\ DeletersHold /\ EndInv

-----------------------------------------------------------------------------
\* Places

\* An object whose places are known is counted once in one of them.
LEMMA PlacesCounted ==
    ASSUME PoolTypeOK, PlacesApart, NEW o \in Objects
    PROVE  /\ Cardinality({i \in DOMAIN stack : stack[i] = o}) = IF Stacked(o) THEN 1 ELSE 0
           /\ Cardinality({u \in PoolUsers : held[u] = o}) = IF Held(o) THEN 1 ELSE 0
<1> DEFINE I == {i \in DOMAIN stack : stack[i] = o}
           U == {u \in PoolUsers : held[u] = o}
<1>1. ASSUME Stacked(o)
      PROVE  Cardinality(I) = 1
  <2>1. PICK i \in DOMAIN stack : stack[i] = o
        BY <1>1 DEF Stacked
  <2>2. I = {i}
        BY <2>1 DEF PlacesApart
  <2> QED BY <2>2, FS_Singleton
<1>2. ASSUME ~Stacked(o)
      PROVE  Cardinality(I) = 0
  <2>1. I = {}
        BY <1>2 DEF Stacked
  <2> QED BY <2>1, FS_EmptySet
<1>3. ASSUME Held(o)
      PROVE  Cardinality(U) = 1
  <2>1. PICK u \in PoolUsers : held[u] = o
        BY <1>3 DEF Held
  <2>2. o # NoObject
        BY PoolAssumption
  <2>3. U = {u}
        BY <2>1, <2>2 DEF PlacesApart
  <2> QED BY <2>3, FS_Singleton
<1>4. ASSUME ~Held(o)
      PROVE  Cardinality(U) = 0
  <2>1. U = {}
        BY <1>4 DEF Held
  <2> QED BY <2>1, FS_EmptySet
<1> QED BY <1>1, <1>2, <1>3, <1>4

\* Pushing puts one object on the stack and moves none.
LEMMA Pushed ==
    ASSUME PoolTypeOK, NEW o \in Objects, made \subseteq made', o \in made',
           stack' = Append(stack, o)
    PROVE  /\ stack' \in Seq(made')
           /\ \A p \in Objects : Stacked(p)' <=> Stacked(p) \/ p = o
           /\ (\A i, j \in DOMAIN stack : stack[i] = stack[j] => i = j) /\ ~Stacked(o) =>
                 \A i, j \in DOMAIN stack' : stack'[i] = stack'[j] => i = j
<1> stack \in Seq(made) /\ Len(stack) \in Nat /\ DOMAIN stack = 1..Len(stack)
    BY LenProperties DEF PoolTypeOK
<1>1. PICK n \in Nat : n = Len(stack)
      OBVIOUS
<1>2. stack \in Seq(made') /\ DOMAIN stack = 1..n
      BY <1>1, SeqMonotonic
<1>3. /\ stack' \in Seq(made') /\ DOMAIN stack' = 1..n + 1
      /\ stack'[n + 1] = o /\ \A i \in 1..n : stack'[i] = stack[i]
      BY <1>1, <1>2
<1>4. \A i \in 1..n + 1 : i \in 1..n \/ i = n + 1
      OBVIOUS
<1>5. n + 1 \in 1..n + 1 /\ (\A i \in 1..n : i \in 1..n + 1)
      OBVIOUS
<1>6. \A p \in Objects : Stacked(p)' <=> Stacked(p) \/ p = o
      BY <1>2, <1>3, <1>4, <1>5 DEF Stacked
<1>7. ASSUME \A i, j \in DOMAIN stack : stack[i] = stack[j] => i = j, ~Stacked(o),
             NEW i \in DOMAIN stack', NEW j \in DOMAIN stack', stack'[i] = stack'[j]
      PROVE  i = j
      BY <1>2, <1>3, <1>4, <1>7 DEF Stacked
<1> QED BY <1>3, <1>6, <1>7

\* Popping takes the top one and moves none.
LEMMA Popped ==
    ASSUME PoolTypeOK, PlacesApart, stack # <<>>, made' = made,
           stack' = SubSeq(stack, 1, Len(stack) - 1)
    PROVE  /\ stack[Len(stack)] \in made /\ Stacked(stack[Len(stack)])
           /\ stack' \in Seq(made')
           /\ \A p \in Objects : Stacked(p)' <=> Stacked(p) /\ p # stack[Len(stack)]
           /\ \A i, j \in DOMAIN stack' : stack'[i] = stack'[j] => i = j
<1> stack \in Seq(made) /\ Len(stack) \in Nat /\ DOMAIN stack = 1..Len(stack)
    BY LenProperties DEF PoolTypeOK
<1>1. PICK n \in Nat : n = Len(stack)
      OBVIOUS
<1>2. stack \in Seq(made) /\ DOMAIN stack = 1..n /\ n > 0
      BY <1>1, EmptySeq
<1>3. stack[n] \in made /\ n \in 1..n
      BY <1>2
<1>4. /\ stack' \in Seq(made) /\ DOMAIN stack' = 1..n - 1
      /\ \A i \in 1..n - 1 : stack'[i] = stack[i]
      BY <1>1, <1>2
<1>5. \A i \in 1..n : i \in 1..n - 1 \/ i = n
      OBVIOUS
<1>6. \A i \in 1..n - 1 : i \in 1..n /\ i # n
      OBVIOUS
<1>7. \A i, j \in 1..n : stack[i] = stack[j] => i = j
      BY <1>2 DEF PlacesApart
<1>8. \A p \in Objects : Stacked(p)' <=> Stacked(p) /\ p # stack[n]
      BY <1>2, <1>3, <1>4, <1>5, <1>6, <1>7 DEF Stacked
<1>9. ASSUME NEW i \in DOMAIN stack', NEW j \in DOMAIN stack', stack'[i] = stack'[j]
      PROVE  i = j
  <2>1. stack[i] = stack[j] /\ i \in 1..n /\ j \in 1..n
        BY <1>4, <1>6, <1>9
  <2> QED BY <1>7, <2>1
<1> QED BY <1>1, <1>2, <1>3, <1>4, <1>8, <1>9 DEF Stacked

\* A user that lets go of its object leaves every other one where it is.
LEMMA LetsGo ==
    ASSUME PoolTypeOK, PlacesApart, NEW u \in PoolUsers, held[u] # NoObject,
           held' = [held EXCEPT ![u] = NoObject], made' = made
    PROVE  /\ held[u] \in made /\ held[u] \in Objects /\ Held(held[u])
           /\ held' \in [PoolUsers -> made' \cup {NoObject}]
           /\ \A p \in Objects : Held(p)' <=> Held(p) /\ p # held[u]
           /\ \A v, w \in PoolUsers : held'[v] = held'[w] /\ held'[v] # NoObject => v = w
           /\ \A v \in PoolUsers : v # u => held'[v] = held[v]
<1>1. held[u] \in made /\ held[u] \in Objects /\ Held(held[u])
      BY DEF PoolTypeOK, Held
<1>2. \A v \in PoolUsers : held'[v] = IF v = u THEN NoObject ELSE held[v]
      BY DEF PoolTypeOK
<1>3. \A p \in Objects : p # NoObject
      BY PoolAssumption
<1>4. \A p \in Objects : Held(p)' <=> Held(p) /\ p # held[u]
      BY <1>2, <1>3 DEF PlacesApart, Held
<1>5. \A v, w \in PoolUsers : held'[v] = held'[w] /\ held'[v] # NoObject => v = w
      BY <1>2 DEF PlacesApart
<1>6. held' \in [PoolUsers -> made' \cup {NoObject}]
      BY DEF PoolTypeOK
<1> QED BY <1>1, <1>2, <1>4, <1>5, <1>6

-----------------------------------------------------------------------------
\* Steps

\* A pool starts empty, with no object made (SharedPool.h:37).
LEMMA PoolInitInv == PoolInit => PoolInv
<1> SUFFICES ASSUME PoolInit
             PROVE  PoolInv
    OBVIOUS
<1>1. <<>> \in Seq(made) /\ DOMAIN stack = {}
      BY EmptySeq DEF PoolInit
<1>2. PoolTypeOK
      BY <1>1 DEF PoolInit, PoolTypeOK
<1>3. \A o \in Objects : ~Stacked(o) /\ ~Held(o)
      BY <1>1, PoolAssumption DEF PoolInit, Stacked, Held
<1>4. PlacesApart
      BY <1>1, <1>3 DEF PoolInit, PlacesApart
<1>5. DeletedWhenOut
      BY <1>3 DEF PoolInit, DeletedWhenOut
<1>6. DeletersHold /\ EndInv
      BY DEF PoolInit, DeletersHold, EndInv
<1> QED BY <1>2, <1>4, <1>5, <1>6 DEF PoolInv

\* Nothing is anywhere that was not made.
LEMMA PlacedMade ==
    ASSUME PoolTypeOK, NEW o \in Objects, o \notin made
    PROVE  ~Stacked(o) /\ ~Held(o)
<1>1. ~Stacked(o)
  <2>1. \A i \in DOMAIN stack : stack[i] \in made
        BY LenProperties, ElementOfSeq DEF PoolTypeOK
  <2> QED BY <2>1 DEF Stacked
<1>2. ~Held(o)
      BY PoolAssumption DEF PoolTypeOK, Held
<1> QED BY <1>1, <1>2

\* A new object of the owner's goes on the stack (SharedPool.h:40-44).
LEMMA FillInv == PoolInv /\ Fill => PoolInv'
<1> SUFFICES ASSUME PoolInv, Fill
             PROVE  PoolInv'
    OBVIOUS
<1>1. PoolTypeOK /\ PlacesApart /\ DeletedWhenOut /\ DeletersHold /\ EndInv
      BY DEF PoolInv
<1>2. PICK o \in Objects \ made : stack' = Append(stack, o) /\ made' = made \cup {o}
      BY DEF Fill
<1>3. pool = "alive" /\ UNCHANGED <<pool, held, deleter, deleted, threw, outlived, undefined>>
      BY DEF Fill
<1>4. ~Stacked(o) /\ ~Held(o)
      BY <1>1, PlacedMade
<1>5. /\ stack' \in Seq(made')
      /\ \A p \in Objects : Stacked(p)' <=> Stacked(p) \/ p = o
      /\ \A i, j \in DOMAIN stack' : stack'[i] = stack'[j] => i = j
      BY <1>1, <1>2, <1>4, Pushed DEF PlacesApart
<1>6. \A p \in Objects : Held(p)' <=> Held(p)
      BY <1>3 DEF Held
<1>7. PoolTypeOK'
      BY <1>1, <1>2, <1>3, <1>5 DEF PoolTypeOK
<1>8. PlacesApart'
      BY <1>1, <1>3, <1>4, <1>5, <1>6 DEF PlacesApart
<1>9. DeletedWhenOut'
  <2>1. deleted[o] = 0 /\ o \notin threw
        BY <1>1 DEF DeletedWhenOut, PoolTypeOK
  <2> QED BY <1>1, <1>2, <1>3, <1>5, <1>6, <2>1 DEF DeletedWhenOut
<1>10. DeletersHold' /\ EndInv'
       BY <1>1, <1>3 DEF DeletersHold, EndInv
<1> QED BY <1>7, <1>8, <1>9, <1>10 DEF PoolInv

\* acquire() moves the top of the stack to its user (SharedPool.h:46-53).
LEMMA AcquireInv ==
    ASSUME PoolInv, NEW u \in PoolUsers, Acquire(u)
    PROVE  PoolInv'
<1>1. PoolTypeOK /\ PlacesApart /\ DeletedWhenOut /\ DeletersHold /\ EndInv
      BY DEF PoolInv
<1>2. PICK o : o = stack[Len(stack)]
      OBVIOUS
<1>3. /\ held[u] = NoObject /\ deleter[u] = "none" /\ stack # <<>> /\ pool = "alive"
      /\ held' = [held EXCEPT ![u] = o] /\ stack' = SubSeq(stack, 1, Len(stack) - 1)
      /\ UNCHANGED <<made, pool, deleter, deleted, threw, outlived, undefined>>
      BY <1>2 DEF Acquire
<1>4. /\ o \in made /\ Stacked(o) /\ stack' \in Seq(made')
      /\ \A p \in Objects : Stacked(p)' <=> Stacked(p) /\ p # o
      /\ \A i, j \in DOMAIN stack' : stack'[i] = stack'[j] => i = j
      BY <1>1, <1>2, <1>3, Popped
<1>5. o \in Objects /\ o # NoObject /\ ~Held(o) /\ \A p \in Objects : p # NoObject
      BY <1>1, <1>4, PoolAssumption DEF PoolTypeOK, PlacesApart
<1>6. \A v \in PoolUsers : held'[v] = IF v = u THEN o ELSE held[v]
      BY <1>1, <1>3 DEF PoolTypeOK
<1>7. \A p \in Objects : Held(p)' <=> Held(p) \/ p = o
      BY <1>3, <1>5, <1>6 DEF Held
<1>8. PoolTypeOK'
      BY <1>1, <1>3, <1>4 DEF PoolTypeOK
<1>9. PlacesApart'
  <2>1. \A v, w \in PoolUsers : held'[v] = held'[w] /\ held'[v] # NoObject => v = w
        BY <1>1, <1>5, <1>6 DEF PlacesApart, Held
  <2> QED BY <1>1, <1>4, <1>7, <2>1 DEF PlacesApart
<1>10. DeletedWhenOut'
       BY <1>1, <1>3, <1>4, <1>7 DEF DeletedWhenOut
<1>11. o \notin threw
       BY <1>1, <1>4, <1>5 DEF DeletedWhenOut
<1>12. DeletersHold' /\ EndInv'
       BY <1>1, <1>3, <1>5, <1>6, <1>11 DEF DeletersHold, EndInv
<1> QED BY <1>8, <1>9, <1>10, <1>12 DEF PoolInv

\* A deleter that has found the pool still owns its object (SharedPool.h:18).
LEMMA LockPoolInv ==
    ASSUME PoolInv, NEW u \in PoolUsers, LockPool(u)
    PROVE  PoolInv'
<1>1. /\ held[u] # NoObject /\ deleter[u] = "none" /\ deleter' = [deleter EXCEPT ![u] = "locked"]
      /\ UNCHANGED <<made, stack, pool, held, deleted, threw, outlived, undefined>>
      BY DEF LockPool
<1>2. \A v \in PoolUsers : deleter'[v] = IF v = u THEN "locked" ELSE deleter[v]
      BY <1>1 DEF PoolInv, PoolTypeOK
<1>3. PoolTypeOK' /\ PlacesApart' /\ DeletedWhenOut' /\ EndInv'
      BY <1>1 DEF PoolInv, PoolTypeOK, PlacesApart, DeletedWhenOut, EndInv, Stacked, Held
<1>4. DeletersHold'
      BY <1>1, <1>2 DEF PoolInv, DeletersHold
<1> QED BY <1>3, <1>4 DEF PoolInv

\* One who lets go of an object deletes it: without a pool, or when add has thrown
\* and has deleted it already (SharedPool.h:25-28).
LEMMA DeletesInv ==
    ASSUME PoolInv, NEW u \in PoolUsers, held[u] # NoObject,
           deleted' = [deleted EXCEPT ![held[u]] = @ + 1],
           held' = [held EXCEPT ![u] = NoObject],
           deleter' = [deleter EXCEPT ![u] = "none"],
           UNCHANGED <<made, stack, pool, threw, outlived, undefined>>
    PROVE  PoolInv'
<1>1. PoolTypeOK /\ PlacesApart /\ DeletedWhenOut /\ DeletersHold /\ EndInv
      BY DEF PoolInv
<1>2. PICK o : o = held[u]
      OBVIOUS
<1>3. /\ o \in made /\ o \in Objects /\ Held(o) /\ held' \in [PoolUsers -> made' \cup {NoObject}]
      /\ \A p \in Objects : Held(p)' <=> Held(p) /\ p # o
      /\ \A v, w \in PoolUsers : held'[v] = held'[w] /\ held'[v] # NoObject => v = w
      /\ \A v \in PoolUsers : v # u => held'[v] = held[v]
      BY <1>1, <1>2, LetsGo
<1>4. \A p \in Objects : Stacked(p)' <=> Stacked(p)
      BY DEF Stacked
<1>5. \A p \in Objects : deleted'[p] = IF p = o THEN deleted[o] + 1 ELSE deleted[p]
      BY <1>1, <1>2 DEF PoolTypeOK
<1>6. PoolTypeOK'
  <2>1. deleted \in [Objects -> Nat] /\ deleted[o] \in Nat
        BY <1>1, <1>3 DEF PoolTypeOK
  <2>2. deleted[o] + 1 \in Nat
        BY <2>1
  <2>3. deleted' \in [Objects -> Nat]
        BY <1>2, <2>1, <2>2
  <2> QED BY <1>1, <1>3, <2>3 DEF PoolTypeOK
<1>7. PlacesApart'
      BY <1>1, <1>3, <1>4 DEF PlacesApart
<1>8. DeletedWhenOut'
  <2>1. /\ deleted'[o] = IF o \in threw THEN 2 ELSE 1
        /\ ~Stacked(o) /\ \A p \in Objects : p # o => deleted'[p] = deleted[p]
        BY <1>1, <1>3, <1>5 DEF DeletedWhenOut, PlacesApart
  <2> QED BY <1>1, <1>3, <1>4, <2>1 DEF DeletedWhenOut
<1>9. DeletersHold'
  <2>1. \A v \in PoolUsers : deleter'[v] = IF v = u THEN "none" ELSE deleter[v]
        BY <1>1 DEF PoolTypeOK
  <2>2. held'[u] = NoObject
        BY <1>1 DEF PoolTypeOK
  <2> QED BY <1>1, <1>3, <2>1, <2>2 DEF DeletersHold
<1>10. EndInv'
       BY <1>1, <1>3 DEF EndInv
<1> QED BY <1>6, <1>7, <1>8, <1>9, <1>10 DEF PoolInv

\* add() puts the object back on the stack (SharedPool.h:22-23, 40-44).
LEMMA AddObjectInv ==
    ASSUME PoolInv, NEW u \in PoolUsers, AddObject(u)
    PROVE  PoolInv'
<1>1. PoolTypeOK /\ PlacesApart /\ DeletedWhenOut /\ DeletersHold /\ EndInv
      BY DEF PoolInv
<1>2. PICK o : o = held[u]
      OBVIOUS
<1>3. /\ deleter[u] = "locked" /\ pool = "alive" /\ stack' = Append(stack, o)
      /\ held' = [held EXCEPT ![u] = NoObject] /\ deleter' = [deleter EXCEPT ![u] = "added"]
      /\ UNCHANGED <<made, pool, deleted, threw, outlived, undefined>>
      BY <1>2 DEF AddObject
<1>4. held[u] # NoObject /\ o \notin threw
      BY <1>1, <1>2, <1>3 DEF DeletersHold
<1>5. /\ o \in made /\ o \in Objects /\ Held(o) /\ held' \in [PoolUsers -> made' \cup {NoObject}]
      /\ \A p \in Objects : Held(p)' <=> Held(p) /\ p # o
      /\ \A v, w \in PoolUsers : held'[v] = held'[w] /\ held'[v] # NoObject => v = w
      /\ \A v \in PoolUsers : v # u => held'[v] = held[v]
      BY <1>1, <1>2, <1>3, <1>4, LetsGo
<1>6. ~Stacked(o)
      BY <1>1, <1>5 DEF PlacesApart
<1>7. /\ stack' \in Seq(made')
      /\ \A p \in Objects : Stacked(p)' <=> Stacked(p) \/ p = o
      /\ \A i, j \in DOMAIN stack' : stack'[i] = stack'[j] => i = j
      BY <1>1, <1>3, <1>5, <1>6, Pushed DEF PlacesApart
<1>8. PoolTypeOK'
      BY <1>1, <1>3, <1>5, <1>7 DEF PoolTypeOK
<1>9. PlacesApart'
      BY <1>1, <1>5, <1>7 DEF PlacesApart
<1>10. DeletedWhenOut'
       BY <1>1, <1>3, <1>4, <1>5, <1>7 DEF DeletedWhenOut
<1>11. DeletersHold' /\ EndInv'
  <2>1. /\ \A v \in PoolUsers : deleter'[v] = IF v = u THEN "added" ELSE deleter[v]
        /\ held'[u] = NoObject
        BY <1>1, <1>3 DEF PoolTypeOK
  <2> QED BY <1>1, <1>3, <1>5, <2>1 DEF DeletersHold, EndInv
<1> QED BY <1>8, <1>9, <1>10, <1>11 DEF PoolInv

\* An add() that throws has deleted the object that its caller still has
\* (SharedPool.h:22-25).
LEMMA AddThrowsInv ==
    ASSUME PoolInv, NEW u \in PoolUsers, AddThrows(u)
    PROVE  PoolInv'
<1>1. PoolTypeOK /\ PlacesApart /\ DeletedWhenOut /\ DeletersHold /\ EndInv
      BY DEF PoolInv
<1>2. PICK o : o = held[u]
      OBVIOUS
<1>3. /\ deleter[u] = "locked" /\ deleted' = [deleted EXCEPT ![o] = @ + 1]
      /\ threw' = threw \cup {o} /\ deleter' = [deleter EXCEPT ![u] = "threw"]
      /\ UNCHANGED <<made, stack, pool, held, outlived, undefined>>
      BY <1>2 DEF AddThrows
<1>4. held[u] # NoObject /\ o \notin threw
      BY <1>1, <1>2, <1>3 DEF DeletersHold
<1>5. o \in made /\ o \in Objects /\ Held(o)
      BY <1>1, <1>2, <1>4 DEF PoolTypeOK, Held
<1>6. ~Stacked(o) /\ deleted[o] = 0
      BY <1>1, <1>4, <1>5 DEF PlacesApart, DeletedWhenOut
<1>7. \A p \in Objects : (Stacked(p)' <=> Stacked(p)) /\ (Held(p)' <=> Held(p))
      BY <1>3 DEF Stacked, Held
<1>8. /\ deleted' \in [Objects -> Nat]
      /\ \A p \in Objects : deleted'[p] = IF p = o THEN 1 ELSE deleted[p]
  <2>1. PICK n \in Nat : n = deleted[o]
        BY <1>1, <1>5 DEF PoolTypeOK
  <2>2. n + 1 = 1
        BY <1>6, <2>1
  <2>3. deleted' = [deleted EXCEPT ![o] = n + 1]
        BY <1>3, <2>1
  <2>4. deleted' = [deleted EXCEPT ![o] = 1]
        BY <2>2, <2>3
  <2> QED BY <1>1, <2>4 DEF PoolTypeOK
<1>9. PoolTypeOK'
      BY <1>1, <1>3, <1>5, <1>8 DEF PoolTypeOK
<1>10. PlacesApart'
       BY <1>1, <1>3, <1>7 DEF PlacesApart
<1>11. DeletedWhenOut'
       BY <1>1, <1>3, <1>5, <1>6, <1>7, <1>8 DEF DeletedWhenOut
<1>12. DeletersHold' /\ EndInv'
  <2>1. \A v \in PoolUsers : deleter'[v] = IF v = u THEN "threw" ELSE deleter[v]
        BY <1>1, <1>3 DEF PoolTypeOK
  <2>2. \A v \in PoolUsers : v # u /\ held[v] # NoObject => held[v] # o
        BY <1>1, <1>2, <1>4 DEF PlacesApart
  <2> QED BY <1>1, <1>2, <1>3, <1>4, <2>1, <2>2 DEF DeletersHold, EndInv
<1> QED BY <1>9, <1>10, <1>11, <1>12 DEF PoolInv

\* The destructor deletes what is on the stack, each object once, and the users
\* keep theirs (SharedPool.h:38, 68-70).
LEMMA DestroyStackInv == PoolInv /\ DestroyStack => PoolInv'
<1> SUFFICES ASSUME PoolInv, DestroyStack
             PROVE  PoolInv'
    OBVIOUS
<1>1. PoolTypeOK /\ PlacesApart /\ DeletedWhenOut /\ DeletersHold /\ EndInv
      BY DEF PoolInv
<1>2. /\ deleted' = [o \in Objects |-> deleted[o]
                                         + Cardinality({i \in DOMAIN stack : stack[i] = o})]
      /\ stack' = <<>> /\ pool = "no mutex" /\ pool' = "no stack"
      /\ UNCHANGED <<made, held, deleter, threw, outlived, undefined>>
      BY DEF DestroyStack
<1>3. \A o \in Objects : deleted'[o] = deleted[o] + IF Stacked(o) THEN 1 ELSE 0
      BY <1>1, <1>2, PlacesCounted
<1>4. deleted' \in [Objects -> Nat]
  <2>1. \A o \in Objects : deleted[o] \in Nat
        BY <1>1 DEF PoolTypeOK
  <2>2. \A o \in Objects : deleted'[o] \in Nat
        BY <1>3, <2>1
  <2> QED BY <1>2, <2>2
<1>5. DOMAIN stack' = {} /\ stack' \in Seq(made')
  <2>1. DOMAIN <<>> = {} /\ <<>> \in Seq(made')
        BY EmptySeq
  <2> QED BY <1>2, <2>1
<1>6. \A o \in Objects : ~Stacked(o)' /\ (Held(o)' <=> Held(o))
      BY <1>2, <1>5 DEF Stacked, Held
<1>7. PoolTypeOK'
      BY <1>1, <1>2, <1>4, <1>5 DEF PoolTypeOK
<1>8. PlacesApart'
      BY <1>1, <1>2, <1>5, <1>6 DEF PlacesApart
<1>9. DeletedWhenOut'
  <2> SUFFICES ASSUME NEW o \in Objects
               PROVE  /\ Held(o) => deleted'[o] = IF o \in threw THEN 1 ELSE 0
                      /\ o \in made /\ ~Held(o) => deleted'[o] = IF o \in threw THEN 2 ELSE 1
                      /\ o \notin made => deleted'[o] = 0
      BY <1>2, <1>6 DEF DeletedWhenOut
  <2>1. /\ Stacked(o) => o \notin threw
        /\ Stacked(o) \/ Held(o) => deleted[o] = IF o \in threw THEN 1 ELSE 0
        /\ o \in made /\ ~Stacked(o) /\ ~Held(o) => deleted[o] = IF o \in threw THEN 2 ELSE 1
        /\ o \notin made => deleted[o] = 0
        BY <1>1 DEF DeletedWhenOut
  <2>2. ~(Stacked(o) /\ Held(o)) /\ (o \notin made => ~Stacked(o))
        BY <1>1, PlacedMade DEF PlacesApart
  <2>3. CASE Stacked(o)
        BY <1>3, <2>1, <2>2, <2>3
  <2>4. CASE ~Stacked(o)
    <3>1. deleted[o] \in Nat
          BY <1>1 DEF PoolTypeOK
    <3>2. deleted'[o] = deleted[o] + 0
          BY <1>3, <2>4
    <3> QED BY <2>1, <2>4, <3>1, <3>2
  <2> QED BY <2>3, <2>4
<1>10. DeletersHold' /\ EndInv'
       BY <1>1, <1>2 DEF DeletersHold, EndInv
<1> QED BY <1>7, <1>8, <1>9, <1>10 DEF PoolInv

\* The mutex goes first and the shared pointer last; whether something is in use is
\* seen when the destructor begins (SharedPool.h:38, 68-70).
LEMMA DestroyRestInv == PoolInv /\ (DestroyMutex \/ DropThisPtr) => PoolInv'
<1> SUFFICES ASSUME PoolInv, DestroyMutex \/ DropThisPtr
             PROVE  PoolInv'
    OBVIOUS
<1>1. /\ UNCHANGED <<stack, made, held, deleter, deleted, threw, undefined>>
      /\ pool' \in {"no mutex", "gone"} /\ outlived' \in BOOLEAN
      BY DEF DestroyMutex, DropThisPtr, PoolInv, PoolTypeOK
<1>2. PoolTypeOK' /\ PlacesApart' /\ DeletedWhenOut' /\ DeletersHold'
      BY <1>1 DEF PoolInv, PoolTypeOK, PlacesApart, DeletedWhenOut, DeletersHold, Stacked, Held
<1>3. EndInv'
  <2>1. CASE DestroyMutex
        BY <2>1 DEF DestroyMutex, PoolInv, EndInv
  <2>2. CASE DropThisPtr
        BY <2>2 DEF DropThisPtr, PoolInv, EndInv
  <2> QED BY <2>1, <2>2
<1> QED BY <1>2, <1>3 DEF PoolInv

\* A return meets the destroyed pool only if it was under way, or its object in use,
\* when the destructor began (SharedPool.h:18-22).
LEMMA AddTooLateInv ==
    ASSUME PoolInv, NEW u \in PoolUsers, AddTooLate(u)
    PROVE  PoolInv'
<1>1. /\ UNCHANGED <<made, stack, pool, held, deleter, deleted, threw, outlived>>
      /\ undefined' = TRUE /\ deleter[u] = "locked" /\ pool # "alive"
      BY DEF AddTooLate
<1>2. outlived
      BY <1>1 DEF PoolInv, PoolTypeOK, DeletersHold, EndInv
<1> QED BY <1>1, <1>2 DEF PoolInv, PoolTypeOK, PlacesApart, DeletedWhenOut, DeletersHold, EndInv,
                         Stacked, Held

\* Every step of the owner, the users and the destructor keeps the invariant.
LEMMA PoolNextInv == PoolInv /\ [PoolNext]_poolVars => PoolInv'
<1> SUFFICES ASSUME PoolInv, [PoolNext]_poolVars
             PROVE  PoolInv'
    OBVIOUS
<1>1. CASE UNCHANGED poolVars
      BY <1>1 DEF poolVars, PoolInv, PoolTypeOK, PlacesApart, DeletedWhenOut, DeletersHold, EndInv,
                  Stacked, Held
<1>2. ASSUME NEW u \in PoolUsers, DeleteObject(u)
      PROVE  PoolInv'
  <2>1. [deleter EXCEPT ![u] = "none"] = deleter
        BY <1>2 DEF DeleteObject, PoolInv, PoolTypeOK
  <2> QED BY <1>2, <2>1, DeletesInv DEF DeleteObject
<1>3. ASSUME NEW u \in PoolUsers, LeaveBlock(u)
      PROVE  PoolInv'
  <2>1. CASE deleter[u] = "threw"
    <3>1. held[u] # NoObject
          BY <2>1 DEF PoolInv, DeletersHold
    <3> QED BY <1>3, <2>1, <3>1, DeletesInv DEF LeaveBlock
  <2>2. CASE deleter[u] = "added"
    <3>1. /\ deleter' = [deleter EXCEPT ![u] = "none"]
          /\ UNCHANGED <<made, stack, pool, held, deleted, threw, outlived, undefined>>
          BY <1>3, <2>2 DEF LeaveBlock
    <3>2. \A v \in PoolUsers : deleter'[v] = IF v = u THEN "none" ELSE deleter[v]
          BY <3>1 DEF PoolInv, PoolTypeOK
    <3>3. PoolTypeOK' /\ PlacesApart' /\ DeletedWhenOut' /\ EndInv'
          BY <3>1 DEF PoolInv, PoolTypeOK, PlacesApart, DeletedWhenOut, EndInv, Stacked, Held
    <3>4. DeletersHold'
          BY <2>2, <3>1, <3>2 DEF PoolInv, DeletersHold
    <3> QED BY <3>3, <3>4 DEF PoolInv
  <2> QED BY <1>3, <2>1, <2>2 DEF LeaveBlock
<1> QED BY <1>1, <1>2, <1>3, FillInv, DestroyStackInv, DestroyRestInv, AcquireInv, LockPoolInv,
           AddObjectInv, AddThrowsInv, AddTooLateInv DEF PoolNext, Deleter

-----------------------------------------------------------------------------
\* The places an object can be in exclude each other, it is deleted when it has left
\* them, and only an object that was in use when the destructor began comes too late,
\* for any users and objects (SharedPool.h:15-53).
THEOREM PoolInvariance == PoolSpec => []PoolInv
  BY PoolInitInv, PoolNextInv, PTL DEF PoolSpec

\* So each object has one owner, or has been deleted: once, or twice if its return
\* threw; after an undefined step nothing is said (SharedPool.h:15-29).
THEOREM OneOwnerHolds == PoolSpec => []OneOwner
<1>1. PoolInv => OneOwner
  <2> SUFFICES ASSUME PoolInv, NEW o \in made
               PROVE  Cardinality({i \in DOMAIN stack : stack[i] = o})
                        + Cardinality({u \in PoolUsers : held[u] = o}) + deleted[o]
                      = IF o \in threw THEN 2 ELSE 1
      BY DEF OneOwner
  <2>1. o \in Objects
        BY DEF PoolInv, PoolTypeOK
  <2>2. /\ Cardinality({i \in DOMAIN stack : stack[i] = o}) = IF Stacked(o) THEN 1 ELSE 0
        /\ Cardinality({u \in PoolUsers : held[u] = o}) = IF Held(o) THEN 1 ELSE 0
        BY <2>1, PlacesCounted DEF PoolInv
  <2>3. /\ Stacked(o) \/ Held(o) => deleted[o] = IF o \in threw THEN 1 ELSE 0
        /\ ~Stacked(o) /\ ~Held(o) => deleted[o] = IF o \in threw THEN 2 ELSE 1
        /\ ~(Stacked(o) /\ Held(o))
        BY <2>1 DEF PoolInv, DeletedWhenOut, PlacesApart
  <2>4. CASE Stacked(o)
        BY <2>2, <2>3, <2>4
  <2>5. CASE Held(o)
        BY <2>2, <2>3, <2>5
  <2>6. CASE ~Stacked(o) /\ ~Held(o)
        BY <2>2, <2>3, <2>6
  <2> QED BY <2>4, <2>5, <2>6
<1> QED BY <1>1, PoolInvariance, PTL

\* A pool that is destroyed when nobody uses its objects comes to a clean end, though
\* deleters that have put theirs back still have its address (SharedPool.h:15-38).
THEOREM CleanEndHolds == PoolSpec => []CleanEnd
<1>1. PoolInv => CleanEnd
  <2> SUFFICES ASSUME PoolInv, pool # "alive", ~outlived
               PROVE  /\ ~undefined
                      /\ pool # "no mutex" =>
                           \A o \in made : deleted[o] = IF o \in threw THEN 2 ELSE 1
      BY DEF CleanEnd
  <2>1. ~undefined /\ \A u \in PoolUsers : held[u] = NoObject
        BY DEF PoolInv, EndInv
  <2>2. ASSUME pool # "no mutex", NEW o \in made
        PROVE  deleted[o] = IF o \in threw THEN 2 ELSE 1
    <3>1. o \in Objects /\ o # NoObject
          BY PoolAssumption DEF PoolInv, PoolTypeOK
    <3>2. stack = <<>>
          BY <2>2 DEF PoolInv, PoolTypeOK, EndInv
    <3>3. DOMAIN stack = {}
          BY <3>2, EmptySeq
    <3>4. ~Stacked(o) /\ ~Held(o)
          BY <2>1, <3>1, <3>3 DEF Stacked, Held
    <3> QED BY <3>1, <3>4 DEF PoolInv, DeletedWhenOut
  <2> QED BY <2>1, <2>2
<1> QED BY <1>1, PoolInvariance, PTL

-----------------------------------------------------------------------------
\* The console's color.  ColorKept is not inductive: that Initialize finds the
\* console in its own colour rests on main having logged alone until the handler
\* was initialised.

Stages == {"no", "check", "initialize", "ready", "tag", "untagged", "text"}

DebugTypeOK ==
    /\ isInitialized \in BOOLEAN /\ started \in BOOLEAN /\ asserted \in BOOLEAN
    /\ printing \in [Printers -> Stages]
    /\ messages \in [Printers -> Nat]

\* Until the threads are started main alone prints, and it has initialised the
\* handler when it is past the beginning of its first message.
MainFirst ==
    /\ ~started => \A t \in OtherThreads : printing[t] = "no"
    /\ started => isInitialized
    /\ messages[MainThread] > 0 =>
           printing[MainThread] \in {"check", "initialize"} \/ isInitialized

\* Who initialises has found the handler without its colour, so it is main.
InitializesFirst ==
    \A t \in Printers :
        /\ printing[t] = "initialize" => ~isInitialized
        /\ printing[t] \in {"ready", "tag", "untagged", "text"} => isInitialized

\* The console has another colour only while a coloured print is under way.
ColoredByPrint ==
    /\ isInitialized => _defaultColor = Original
    /\ console # Original => \E t \in Printers : printing[t] \in {"tag", "text"}

ColorInv == DebugTypeOK /\ MainFirst /\ InitializesFirst /\ ColoredByPrint

-----------------------------------------------------------------------------
\* The program starts before any message, with the console as it finds it
\* (main.cpp:24-42).
LEMMA DebugInitInv == DebugInit => ColorInv
<1> SUFFICES ASSUME DebugInit
             PROVE  ColorInv
    OBVIOUS
<1>1. \A t \in Printers : printing[t] = "no" /\ messages[t] = 0
      BY DEF DebugInit
<1>2. MainThread \in Printers /\ OtherThreads \subseteq Printers
      BY DEF Printers
<1>3. DebugTypeOK
      BY DEF DebugInit, DebugTypeOK, Stages
<1>4. MainFirst /\ InitializesFirst
      BY <1>1, <1>2 DEF DebugInit, MainFirst, InitializesFirst
<1>5. ColoredByPrint
      BY DEF DebugInit, ColoredByPrint
<1> QED BY <1>3, <1>4, <1>5 DEF ColorInv

\* A thread's stage is its own: the others' stay (DebugHandler.h:109-114).
LEMMA GoesMoves ==
    ASSUME DebugTypeOK, NEW t \in Printers, NEW from, NEW to \in Stages, Goes(t, from, to)
    PROVE  /\ printing[t] = from /\ printing'[t] = to
           /\ \A u \in Printers : u # t => printing'[u] = printing[u]
           /\ printing' \in [Printers -> Stages]
  BY DEF DebugTypeOK, Goes

\* A message begins: by main, or by a thread that main has started.
LEMMA BeginInv ==
    ASSUME ColorInv, NEW t \in Printers, Log(t)
    PROVE  ColorInv'
<1>1. "check" \in Stages
      BY DEF Stages
<1>2. /\ printing[t] = "no" /\ printing'[t] = "check"
      /\ \A u \in Printers : u # t => printing'[u] = printing[u]
      /\ printing' \in [Printers -> Stages]
      BY <1>1, GoesMoves DEF Log, ColorInv
<1>3. /\ messages' \in [Printers -> Nat]
      /\ \A u \in Printers : u # t => messages'[u] = messages[u]
      BY DEF Log, ColorInv, DebugTypeOK
<1>4. MainThread \in Printers /\ (\A u \in OtherThreads : u \in Printers /\ u # MainThread)
      BY DebugAssumption DEF Printers
<1>5. UNCHANGED <<isInitialized, _defaultColor, console, started, asserted>>
      /\ (t = MainThread \/ started)
      BY DEF Log
<1>6. DebugTypeOK'
      BY <1>2, <1>3, <1>5 DEF ColorInv, DebugTypeOK
<1>7. MainFirst'
      BY <1>2, <1>3, <1>4, <1>5 DEF ColorInv, MainFirst
<1>8. InitializesFirst'
      BY <1>2, <1>5 DEF ColorInv, InitializesFirst
<1>9. ColoredByPrint'
      BY <1>2, <1>5 DEF ColorInv, ColoredByPrint
<1> QED BY <1>6, <1>7, <1>8, <1>9 DEF ColorInv

\* A thread sees whether the handler is initialised; who sees that it is not is
\* main, alone.
LEMMA CheckInv ==
    ASSUME ColorInv, NEW t \in Printers, Check(t)
    PROVE  ColorInv'
<1> DEFINE to == IF isInitialized THEN "ready" ELSE "initialize"
<1>1. to \in Stages /\ Goes(t, "check", to)
      BY DEF Stages, Check
<1>2. /\ printing[t] = "check" /\ printing'[t] = to
      /\ \A u \in Printers : u # t => printing'[u] = printing[u]
      /\ printing' \in [Printers -> Stages]
      BY <1>1, GoesMoves DEF ColorInv
<1>3. UNCHANGED <<isInitialized, _defaultColor, console, messages, started, asserted>>
      BY DEF Check
<1>4. MainThread \in Printers /\ (\A u \in OtherThreads : u \in Printers /\ u # MainThread)
      BY DebugAssumption DEF Printers
<1>5. DebugTypeOK'
      BY <1>2, <1>3 DEF ColorInv, DebugTypeOK
<1>6. MainFirst'
      BY <1>2, <1>3, <1>4 DEF ColorInv, MainFirst
<1>7. InitializesFirst'
      BY <1>2, <1>3 DEF ColorInv, InitializesFirst
<1>8. ColoredByPrint'
      BY <1>2, <1>3 DEF ColorInv, ColoredByPrint
<1> QED BY <1>5, <1>6, <1>7, <1>8 DEF ColorInv

\* Only main initialises, and nothing is being coloured then: the colour that is
\* kept is the console's own (DebugHandler.cpp:7-19).
LEMMA InitializeInv ==
    ASSUME ColorInv, NEW t \in Printers, Initialize(t)
    PROVE  ColorInv'
<1>1. "ready" \in Stages
      BY DEF Stages
<1>2. /\ printing[t] = "initialize" /\ printing'[t] = "ready"
      /\ \A u \in Printers : u # t => printing'[u] = printing[u]
      /\ printing' \in [Printers -> Stages]
      BY <1>1, GoesMoves DEF Initialize, ColorInv
<1>3. /\ UNCHANGED <<console, messages, started, asserted>>
      /\ _defaultColor' = console /\ isInitialized' = TRUE
      BY DEF Initialize
<1>4. ~isInitialized /\ ~started
      BY <1>2 DEF ColorInv, InitializesFirst, MainFirst
<1>5. t \notin OtherThreads /\ \A u \in Printers : u # t => printing[u] = "no"
      BY <1>2, <1>4 DEF ColorInv, MainFirst, Printers
<1>6. console = Original
      BY <1>2, <1>5 DEF ColorInv, ColoredByPrint
<1>7. DebugTypeOK'
      BY <1>2, <1>3 DEF ColorInv, DebugTypeOK
<1>8. MainFirst'
      BY <1>2, <1>3, <1>4, <1>5, DebugAssumption DEF MainFirst, Printers
<1>9. InitializesFirst'
      BY <1>2, <1>3, <1>5 DEF InitializesFirst
<1>10. ColoredByPrint'
       BY <1>3, <1>6 DEF ColoredByPrint
<1> QED BY <1>7, <1>8, <1>9, <1>10 DEF ColorInv

\* A stage of printing that changes nothing but the console: it colours it and is
\* in its colour, or it puts the colour back (DebugHandler.h:109-114).
LEMMA PrintStageInv ==
    ASSUME ColorInv, NEW t \in Printers, NEW from \in {"ready", "tag", "untagged", "text"},
           NEW to \in {"no", "tag", "untagged", "text"}, Goes(t, from, to),
           UNCHANGED <<isInitialized, _defaultColor, messages, started>>,
           asserted' \in BOOLEAN,
           \/ to \in {"tag", "text"}
           \/ console' = _defaultColor
           \/ from \in {"ready", "untagged"} /\ console' = console
    PROVE  ColorInv'
<1>1. to \in Stages
      BY DEF Stages
<1>2. /\ printing[t] = from /\ printing'[t] = to
      /\ \A u \in Printers : u # t => printing'[u] = printing[u]
      /\ printing' \in [Printers -> Stages]
      BY <1>1, GoesMoves DEF ColorInv
<1>3. isInitialized /\ _defaultColor = Original
      BY <1>2 DEF ColorInv, InitializesFirst, ColoredByPrint
<1>4. DebugTypeOK'
      BY <1>2 DEF ColorInv, DebugTypeOK
<1>5. MainFirst'
      <2>1. ~started => t \notin OtherThreads
            BY <1>2 DEF ColorInv, MainFirst
      <2> QED BY <1>2, <1>3, <2>1 DEF ColorInv, MainFirst, Printers
<1>6. InitializesFirst'
      BY <1>2, <1>3 DEF ColorInv, InitializesFirst
<1>7. ColoredByPrint'
      BY <1>2, <1>3 DEF ColorInv, ColoredByPrint
<1> QED BY <1>4, <1>5, <1>6, <1>7 DEF ColorInv

\* The threads start when main's log of the configuration is complete, which has
\* initialised the handler (main.cpp:24-42).
LEMMA StartThreadsInv == ColorInv /\ StartThreads => ColorInv'
<1> SUFFICES ASSUME ColorInv, StartThreads
             PROVE  ColorInv'
    OBVIOUS
<1>1. /\ UNCHANGED <<isInitialized, _defaultColor, console, printing, messages, asserted>>
      /\ started' = TRUE /\ isInitialized
      BY DEF StartThreads, LoadLogged, ColorInv, MainFirst
<1> QED BY <1>1 DEF ColorInv, DebugTypeOK, MainFirst, InitializesFirst, ColoredByPrint, Printers

\* Every step of every thread keeps the invariant.
LEMMA DebugNextInv == ColorInv /\ [DebugNext]_debugVars => ColorInv'
<1> SUFFICES ASSUME ColorInv, [DebugNext]_debugVars
             PROVE  ColorInv'
    OBVIOUS
<1>1. CASE StartThreads
      BY <1>1, StartThreadsInv
<1>2. ASSUME NEW t \in Printers, PrintPlain(t)
      PROVE  ColorInv'
      BY <1>2, PrintStageInv DEF PrintPlain, ColorInv, DebugTypeOK
<1>3. ASSUME NEW t \in Printers, SetTag(t) \/ ResetTag(t) \/ SetText(t)
      PROVE  ColorInv'
  <2>1. asserted' \in BOOLEAN
        BY <1>3 DEF SetTag, ResetTag, SetText, ColorInv, DebugTypeOK
  <2>2. CASE SetTag(t)
        BY <2>1, <2>2, PrintStageInv DEF SetTag
  <2>3. CASE ResetTag(t)
        BY <2>1, <2>3, PrintStageInv DEF ResetTag
  <2>4. CASE SetText(t)
        BY <2>1, <2>4, PrintStageInv DEF SetText
  <2> QED BY <1>3, <2>2, <2>3, <2>4
<1>4. ASSUME NEW t \in Printers, NEW fatal \in BOOLEAN, ResetText(t, fatal)
      PROVE  ColorInv'
      BY <1>4, PrintStageInv DEF ResetText
<1>5. CASE UNCHANGED debugVars
      BY <1>5 DEF debugVars, ColorInv, DebugTypeOK, MainFirst, InitializesFirst, ColoredByPrint,
                  Printers
<1> QED BY <1>1, <1>2, <1>3, <1>4, <1>5, BeginInv, CheckInv,
           InitializeInv DEF DebugNext, PrintColor

-----------------------------------------------------------------------------
\* Main initialises the handler alone, and a colour is on the console only while
\* somebody prints in it (DebugHandler.h:109-114, DebugHandler.cpp:7-19).
THEOREM ColorInvariance == DebugSpec => []ColorInv
  BY DebugInitInv, DebugNextInv, PTL DEF DebugSpec

\* So the log leaves the console in the colour it had, however the threads print
\* over each other.
THEOREM ColorKeptHolds == DebugSpec => []ColorKept
<1>1. ColorInv => ColorKept
      BY DEF ColorInv, InitializesFirst, ColoredByPrint, ColorKept
<1> QED BY <1>1, ColorInvariance, PTL
===============================================================================
