---------------------------------- MODULE Sync -----------------------------
(***************************************************************************)
(* The synchronization primitives of WasmPlatform.cpp.  The semaphore:    *)
(* Platform::Semaphore_* over                                              *)
(* std::counting_semaphore<0xfffffff> (libc++), used by the emulation      *)
(* engine's threads.  Producers only post; consumers wait, try-wait with a *)
(* timeout, or reset.  libc++'s try_acquire retries its compare-exchange,  *)
(* so a try fails exactly when it finds the count at zero.                  *)
(* The mutex: Platform::Mutex_* over std::mutex, which the same threads     *)
(* lock, try-lock and unlock.  Its try_lock may fail spuriously.           *)
(***************************************************************************)
EXTENDS Naturals

CONSTANTS
    Producers,    \* threads calling Semaphore_Post
    Consumers,    \* threads calling Semaphore_Wait / _TryWait / _Reset
    PostCounts,   \* values of Semaphore_Post's count argument
    MaxTokens     \* model bound on the semaphore's count

ASSUME /\ Producers \cap Consumers = {}
       /\ PostCounts \subseteq Nat \ {0}
       /\ MaxTokens \in Nat \ {0}

\* The mutex's owner when no thread holds it.
NoOwner == "unlocked"

VARIABLES
    count,   \* the semaphore's internal counter
    pc,      \* where each consumer is in its current call
    mutex    \* the thread holding the mutex, or NoOwner

vars == <<count, pc, mutex>>

\* Consumer locations: "idle" between calls; "waiting" blocked in
\* acquire() of Semaphore_Wait; "timed" inside try_acquire_for of
\* Semaphore_TryWait; "resetTry" at Semaphore_Reset's loop test;
\* "resetAcquire" blocked in the acquire() of its loop body; "locking"
\* blocked in Mutex_Lock.
Locations == {"idle", "waiting", "timed", "resetTry", "resetAcquire", "locking"}

\* Semaphore_Create: new wasmelon_semaphore(0); Mutex_Create: a new,
\* unlocked std::mutex.
Init ==
    /\ count = 0
    /\ pc = [c \in Consumers |-> "idle"]
    /\ mutex = NoOwner

\* Semaphore_Post: release(count) never blocks.
Semaphore_Post(p, n) ==
    /\ count + n <= MaxTokens
    /\ count' = count + n
    /\ UNCHANGED <<pc, mutex>>

Call(c, loc) ==
    /\ pc[c] = "idle"
    /\ pc' = [pc EXCEPT ![c] = loc]
    /\ UNCHANGED <<count, mutex>>

\* Semaphore_Wait: acquire() returns once it has taken a token.
Semaphore_Wait(c) == Call(c, "waiting")

WaitAcquire(c) ==
    /\ pc[c] = "waiting"
    /\ count > 0
    /\ count' = count - 1
    /\ pc' = [pc EXCEPT ![c] = "idle"]
    /\ UNCHANGED mutex

\* Semaphore_TryWait: try_acquire_for(timeout_ms) takes a token if one
\* shows up before the timeout, else returns false.
Semaphore_TryWait(c) == Call(c, "timed")

TimedAcquire(c) ==
    /\ pc[c] = "timed"
    /\ count > 0
    /\ count' = count - 1
    /\ pc' = [pc EXCEPT ![c] = "idle"]
    /\ UNCHANGED mutex

TimedExpire(c) ==
    /\ pc[c] = "timed"
    /\ pc' = [pc EXCEPT ![c] = "idle"]
    /\ UNCHANGED <<count, mutex>>

\* Semaphore_Reset:
\*   while (!try_acquire_for(0ms)) { acquire(); }
Semaphore_Reset(c) == Call(c, "resetTry")

\* The loop test: a successful zero-timeout try takes a token and ends the
\* loop; a failed one enters the body.
ResetTry(c) ==
    /\ pc[c] = "resetTry"
    /\ IF count > 0
       THEN /\ count' = count - 1
            /\ pc' = [pc EXCEPT ![c] = "idle"]
       ELSE /\ pc' = [pc EXCEPT ![c] = "resetAcquire"]
            /\ UNCHANGED count
    /\ UNCHANGED mutex

\* Mutant: the loop body's acquire() treated as non-blocking.
ResetAcquire_NoBlock(c) ==
    /\ pc[c] = "resetAcquire"
    /\ count' = count - 1
    /\ pc' = [pc EXCEPT ![c] = "resetTry"]
    /\ UNCHANGED mutex

\* The loop body: acquire() blocks for a token, then the test runs again.
ResetAcquire(c) ==
    /\ pc[c] = "resetAcquire"
    /\ count > 0
    /\ count' = count - 1
    /\ pc' = [pc EXCEPT ![c] = "resetTry"]
    /\ UNCHANGED mutex

-----------------------------------------------------------------------------
\* Mutex_Lock: lock() blocks until the mutex is free.  A thread never locks
\* a mutex it holds (spec 4.4: no reentrancy; with std::mutex that would
\* block for good).
Mutex_Lock(c) ==
    /\ mutex # c
    /\ Call(c, "locking")

LockAcquire(c) ==
    /\ pc[c] = "locking"
    /\ mutex = NoOwner
    /\ mutex' = c
    /\ pc' = [pc EXCEPT ![c] = "idle"]
    /\ UNCHANGED count

\* Mutex_TryLock: try_lock() never blocks; it takes a free mutex or, as
\* the standard allows, fails spuriously.
Mutex_TryLock(c) ==
    /\ pc[c] = "idle"
    /\ mutex # c
    /\ mutex' \in IF mutex = NoOwner THEN {c, NoOwner} ELSE {mutex}
    /\ UNCHANGED <<count, pc>>

\* Mutex_Unlock: unlock() by the holder (the only caller std::mutex
\* allows).
Mutex_Unlock(c) ==
    /\ pc[c] = "idle"
    /\ mutex = c
    /\ mutex' = NoOwner
    /\ UNCHANGED <<count, pc>>

ConsumerStep(c) ==
    \/ WaitAcquire(c) \/ TimedAcquire(c) \/ TimedExpire(c)
    \/ ResetTry(c) \/ ResetAcquire(c) \/ LockAcquire(c)

Next ==
    \/ \E p \in Producers, n \in PostCounts : Semaphore_Post(p, n)
    \/ \E c \in Consumers :
         \/ Semaphore_Wait(c) \/ Semaphore_TryWait(c) \/ Semaphore_Reset(c)
         \/ Mutex_Lock(c) \/ Mutex_TryLock(c) \/ Mutex_Unlock(c)
         \/ ConsumerStep(c)

\* The calls themselves are the threads' choice and are not fair; once a
\* consumer is inside the library, the library's steps are.
Spec == Init /\ [][Next]_vars /\ \A c \in Consumers : WF_vars(ConsumerStep(c))

----------------------------------------------------------------------------------
TypeOK ==
    /\ count \in 0..MaxTokens
    /\ pc \in [Consumers -> Locations]
    /\ mutex \in Consumers \cup {NoOwner}

\* Semaphore_Reset returns when no producer keeps posting: spec 4.4 allows
\* it to block only while a concurrent producer outpaces the drain, so in
\* every run in which posting eventually stops, every reset returns.
PostingStops == <>[][\A p \in Producers, n \in PostCounts : ~Semaphore_Post(p, n)]_vars

ResetReturns ==
    PostingStops =>
        \A c \in Consumers :
            pc[c] \in {"resetTry", "resetAcquire"} ~> pc[c] = "idle"

=============================================================================
