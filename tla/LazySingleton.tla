----------------------------- MODULE LazySingleton -----------------------------
(***************************************************************************)
(* The double-checked lock by which the threads of a process share one     *)
(* object built on first use: core/store.py get_store and                  *)
(* services/llm_service.py _get_client.  One step per read or write of the *)
(* shared variable.  Building may raise, and the next call tries again.    *)
(***************************************************************************)
EXTENDS Naturals

CONSTANTS
    Callers,     \* the threads
    MayRaise,    \* TRUE for the provider's client, FALSE for the store
    NONE

ASSUME SingletonAssumption == MayRaise \in BOOLEAN /\ NONE \notin Nat \cup Callers

VARIABLES
    shared,    \* the module variable, _store or _client: NONE, or the number of an object
    lock,      \* who holds the lock, or NONE
    built,     \* how many objects were ever built; they are numbered in that order
    caller     \* per thread: where it is, and what it got

zvars == <<shared, lock, built, caller>>

Idle == [pc |-> "idle", got |-> NONE]

ZInit == /\ shared = NONE
         /\ lock = NONE
         /\ built = 0
         /\ caller = [c \in Callers |-> Idle]

At(c, pc) == caller[c].pc = pc

To(c, pc, got) == caller' = [caller EXCEPT ![c] = [pc |-> pc, got |-> got]]

\* The first check, outside the lock.
Call(c) == /\ At(c, "idle")
           /\ To(c, IF shared = NONE THEN "wait" ELSE "return", NONE)
           /\ UNCHANGED <<shared, lock, built>>

Acquire(c) == /\ At(c, "wait")
              /\ lock = NONE
              /\ lock' = c
              /\ To(c, "check", NONE)
              /\ UNCHANGED <<shared, built>>

\* Mutant: the second check is forgotten.
CheckOnce(c) == /\ At(c, "check")
                /\ To(c, "build", NONE)
                /\ UNCHANGED <<shared, lock, built>>

\* The second check, with the lock held.
CheckAgain(c) == /\ At(c, "check")
                 /\ To(c, IF shared = NONE THEN "build" ELSE "release", NONE)
                 /\ UNCHANGED <<shared, lock, built>>

Build(c) == /\ At(c, "build")
            /\ built' = built + 1
            /\ shared' = built'
            /\ To(c, "release", NONE)
            /\ UNCHANGED lock

\* Mutant: a construction that raises leaves the lock taken.
RaiseLocked(c) == /\ MayRaise
                  /\ At(c, "build")
                  /\ To(c, "idle", NONE)
                  /\ UNCHANGED <<shared, lock, built>>

\* Building raises: nothing is kept, and the lock is given back.
Raise(c) == /\ MayRaise
            /\ At(c, "build")
            /\ lock' = NONE
            /\ To(c, "idle", NONE)
            /\ UNCHANGED <<shared, built>>

Release(c) == /\ At(c, "release")
              /\ lock' = NONE
              /\ To(c, "return", NONE)
              /\ UNCHANGED <<shared, built>>

\* The variable is read once more, for the value that is returned.
Return(c) == /\ At(c, "return")
             /\ To(c, "using", shared)
             /\ UNCHANGED <<shared, lock, built>>

Use(c) == /\ At(c, "using")
          /\ To(c, "idle", NONE)
          /\ UNCHANGED <<shared, lock, built>>

\* The process ends.
ZRestart == /\ shared' = NONE /\ lock' = NONE /\ built' = 0
            /\ caller' = [c \in Callers |-> Idle]

\* What a thread in the middle of a call does next, if building does not raise.
Advance(c) == Acquire(c) \/ CheckAgain(c) \/ Build(c) \/ Release(c) \/ Return(c)
-------------------------------------------------------------------------------
ZTypeOK ==
    /\ shared \in {NONE} \cup 1..built /\ built \in Nat
    /\ lock \in Callers \cup {NONE}
    /\ \A c \in Callers :
         /\ At(c, "idle") \/ At(c, "wait") \/ At(c, "check") \/ At(c, "build") \/ At(c, "release")
            \/ At(c, "return") \/ At(c, "using")
         /\ At(c, "check") \/ At(c, "build") \/ At(c, "release") => lock = c

\* "The client is built exactly once even if several requests reach a cold process
\* together": never two, and every caller that got one got that one.
BuiltOnce ==
    /\ built <= 1
    /\ \A c \in Callers : At(c, "using") => built = 1 /\ caller[c].got = shared
===============================================================================
