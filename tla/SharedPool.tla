------------------------------ MODULE SharedPool ------------------------------
(***************************************************************************)
(* SharedPool<T> (SharedPool.h): objects that go back to their pool when   *)
(* their user lets go of them, from any thread, and are deleted when the   *)
(* pool is no more.  acquire and add work under the mutex and are one step *)
(* each.  The deleter locks a weak pointer first: it succeeds as long as   *)
(* somebody has a shared_ptr to the pool's address, the pool itself till   *)
(* the end of its destructor, or another deleter.  The destructor destroys *)
(* the members from the last to the first, _thisPtr behind the others.     *)
(*                                                                         *)
(* A return that meets a destroyed mutex or stack is undefined, and        *)
(* nothing is said of what follows.                                        *)
(***************************************************************************)
EXTENDS Naturals, Sequences, FiniteSets

CONSTANTS PoolUsers, Objects, NoObject

ASSUME PoolAssumption == NoObject \notin Objects /\ IsFiniteSet(Objects)

VARIABLES
    stack,     \* _pool, the top at the end
    made,      \* the objects there have been
    pool,      \* how far the pool's destructor has come
    held,      \* per user, the object it holds
    deleter,   \* per user, how far its PoolDeleter has come
    deleted,   \* how often each object has been deleted
    threw,     \* the objects for which add threw
    outlived,  \* an object was in use when the destructor began (history)
    undefined  \* a member was used after its destruction

poolVars == <<stack, made, pool, held, deleter, deleted, threw, outlived, undefined>>

PoolInit ==
    /\ stack = <<>> /\ made = {} /\ pool = "alive"
    /\ held = [u \in PoolUsers |-> NoObject]
    /\ deleter = [u \in PoolUsers |-> "none"]
    /\ threw = {} /\ outlived = FALSE /\ undefined = FALSE
    /\ deleted = [o \in Objects |-> 0]

\* The pool's owner fills it, with objects of its own.
Fill ==
    /\ ~undefined /\ pool = "alive"
    /\ \E o \in Objects \ made : stack' = Append(stack, o) /\ made' = made \cup {o}
    /\ UNCHANGED <<pool, held, deleter, deleted, threw, outlived, undefined>>

\* acquire(), whose assertion its users have seen to.
Acquire(u) ==
    /\ ~undefined /\ pool = "alive" /\ stack # <<>>
    /\ held[u] = NoObject /\ deleter[u] = "none"
    /\ held' = [held EXCEPT ![u] = stack[Len(stack)]]
    /\ stack' = SubSeq(stack, 1, Len(stack) - 1)
    /\ UNCHANGED <<made, pool, deleter, deleted, threw, outlived, undefined>>

-----------------------------------------------------------------------------
\* PoolDeleter

\* The deleters that have a shared_ptr, pool_ptr, each till it leaves the block.
HasPoolPtr(u) == deleter[u] # "none"

\* The weak pointer can be locked.
Lockable == pool # "gone" \/ \E u \in PoolUsers : HasPoolPtr(u)

LockPool(u) ==
    /\ ~undefined /\ held[u] # NoObject /\ deleter[u] = "none" /\ Lockable
    /\ deleter' = [deleter EXCEPT ![u] = "locked"]
    /\ UNCHANGED <<made, stack, pool, held, deleted, threw, outlived, undefined>>

\* Else the object is deleted.
DeleteObject(u) ==
    /\ ~undefined /\ held[u] # NoObject /\ deleter[u] = "none" /\ ~Lockable
    /\ deleted' = [deleted EXCEPT ![held[u]] = @ + 1]
    /\ held' = [held EXCEPT ![u] = NoObject]
    /\ UNCHANGED <<made, stack, pool, deleter, threw, outlived, undefined>>

\* Fault: the return after add is missing.
AddObjectAndDelete(u) ==
    /\ ~undefined /\ deleter[u] = "locked" /\ pool = "alive"
    /\ stack' = Append(stack, held[u])
    /\ deleted' = [deleted EXCEPT ![held[u]] = @ + 1]
    /\ held' = [held EXCEPT ![u] = NoObject]
    /\ deleter' = [deleter EXCEPT ![u] = "added"]
    /\ UNCHANGED <<made, pool, threw, outlived, undefined>>

AddObject(u) ==
    /\ ~undefined /\ deleter[u] = "locked" /\ pool = "alive"
    /\ stack' = Append(stack, held[u])
    /\ held' = [held EXCEPT ![u] = NoObject]
    /\ deleter' = [deleter EXCEPT ![u] = "added"]
    /\ UNCHANGED <<made, pool, deleted, threw, outlived, undefined>>

\* push or the mutex throws: the unique_ptr made for add deletes the object,
\* and the exception is swallowed.
AddThrows(u) ==
    /\ ~undefined /\ deleter[u] = "locked" /\ pool = "alive"
    /\ deleted' = [deleted EXCEPT ![held[u]] = @ + 1]
    /\ threw' = threw \cup {held[u]}
    /\ deleter' = [deleter EXCEPT ![u] = "threw"]
    /\ UNCHANGED <<made, stack, pool, held, outlived, undefined>>

\* add on a pool that is being, or has been, destroyed.
AddTooLate(u) ==
    /\ ~undefined /\ deleter[u] = "locked" /\ pool # "alive"
    /\ undefined' = TRUE
    /\ UNCHANGED <<made, stack, pool, held, deleter, deleted, threw, outlived>>

\* pool_ptr goes; an object whose return threw is deleted now, again.
LeaveBlock(u) ==
    /\ ~undefined /\ deleter[u] \in {"added", "threw"}
    /\ deleter' = [deleter EXCEPT ![u] = "none"]
    /\ IF deleter[u] = "threw"
       THEN /\ deleted' = [deleted EXCEPT ![held[u]] = @ + 1]
            /\ held' = [held EXCEPT ![u] = NoObject]
       ELSE UNCHANGED <<deleted, held>>
    /\ UNCHANGED <<made, stack, pool, threw, outlived, undefined>>

Deleter(u) == \/ LockPool(u) \/ DeleteObject(u) \/ AddObject(u) \/ AddThrows(u)
              \/ AddTooLate(u) \/ LeaveBlock(u)

-----------------------------------------------------------------------------
\* ~SharedPool(): _mutex, then _pool with what is in it, then _thisPtr.

DestroyMutex ==
    /\ ~undefined /\ pool = "alive" /\ pool' = "no mutex"
    /\ outlived' = (\E u \in PoolUsers : held[u] # NoObject)
    /\ UNCHANGED <<made, stack, held, deleter, deleted, threw, undefined>>

\* Fault: the stack holds plain pointers.
DestroyStackOnly ==
    /\ ~undefined /\ pool = "no mutex" /\ pool' = "no stack"
    /\ stack' = <<>>
    /\ UNCHANGED <<made, held, deleter, deleted, threw, outlived, undefined>>

DestroyStack ==
    /\ ~undefined /\ pool = "no mutex" /\ pool' = "no stack"
    /\ deleted' = [o \in Objects |-> deleted[o] + Cardinality({i \in DOMAIN stack : stack[i] = o})]
    /\ stack' = <<>>
    /\ UNCHANGED <<made, held, deleter, threw, outlived, undefined>>

DropThisPtr ==
    /\ ~undefined /\ pool = "no stack" /\ pool' = "gone"
    /\ UNCHANGED <<made, stack, held, deleter, deleted, threw, outlived, undefined>>

PoolNext == \/ Fill \/ DestroyMutex \/ DestroyStack \/ DropThisPtr
            \/ \E u \in PoolUsers : Acquire(u) \/ Deleter(u)

PoolSpec == PoolInit /\ [][PoolNext]_poolVars
-----------------------------------------------------------------------------
\* Properties

\* Until a return meets the destroyed pool, an object that was made has one
\* owner, the pool or a user, or has been deleted: once, and twice if its return
\* threw, after which there is no more to be counted on (SharedPool.h:15-29).
OneOwner ==
    undefined \/ \A o \in made :
        Cardinality({i \in DOMAIN stack : stack[i] = o})
          + Cardinality({u \in PoolUsers : held[u] = o}) + deleted[o]
        = IF o \in threw THEN 2 ELSE 1

\* A pool whose users have let go of everything when its destructor begins comes
\* to a clean end, though deleters may still have its address: no destroyed member
\* is used, and every object has been deleted with the stack or, twice, when its
\* return threw (SharedPool.h:15-29, 37-38).
CleanEnd ==
    pool # "alive" /\ ~outlived =>
        /\ ~undefined
        /\ pool # "no mutex" => \A o \in made : deleted[o] = IF o \in threw THEN 2 ELSE 1

\* "Put it back into the pool if the pool still exists" (SharedPool.h:17): the
\* weak pointer says whether it does.
ReturnsToExisting == ~undefined
===============================================================================
