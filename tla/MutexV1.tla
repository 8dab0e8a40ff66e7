------------------------------- MODULE MutexV1 -------------------------------
(***************************************************************************)
(* The earlier sync.Mutex (src/unnamed/part_000): no spinning and no       *)
(* starvation mode.  m.state holds mutexLocked, mutexWoken and the waiter  *)
(* count; a woken waiter competes with newcomers for the mutex.  Every     *)
(* access of m.state is one atomic step.  The goroutines park on the       *)
(* runtime semaphore m.sema (module Sema) at the back of its queue, and a  *)
(* release hands its unit to the head of the queue in one step.            *)
(***************************************************************************)
EXTENDS Integers, Sequences, FiniteSets, Bitwise

CONSTANT Goroutines

mutexLocked      == 1
mutexWoken       == 2
mutexWaiterShift == 2
waiterUnit       == 2^mutexWaiterShift

Waiters(s) == shiftR(s, mutexWaiterShift)
Has(s, bits) == (s & bits) # 0

VARIABLES
    state,   \* m.state
    sema,    \* the count of m.sema
    semaQ,   \* goroutines parked on m.sema, head first
    pc,      \* where each goroutine is
    old,     \* Lock's old, Unlock's old/new
    awoke    \* Lock's awoke

vars == <<state, sema, semaQ, pc, old, awoke>>

S == INSTANCE Sema

PCs == {"idle", "Lock", "read", "cas", "semacquire", "parked", "cs",
        "unlockLoop", "unlockRead", "semrelease", "panic"}
Locking == {"Lock", "read", "cas", "semacquire", "parked"}

Goto(g, l) == pc' = [pc EXCEPT ![g] = l]
Set(f, g, v) == f' = [f EXCEPT ![g] = v]

Init ==
    /\ state = 0
    /\ S!Init
    /\ pc = [g \in Goroutines |-> "idle"]
    /\ old = [g \in Goroutines |-> 0]
    /\ awoke = [g \in Goroutines |-> FALSE]

-----------------------------------------------------------------------------
(* Lock                                                                    *)

\* The goroutine leaves its non-critical code and calls m.Lock().
Call(g) ==
    /\ pc[g] = "idle"
    /\ Goto(g, "Lock")
    /\ UNCHANGED <<state, sema, semaQ, old, awoke>>

\* Fast path: CAS 0 -> mutexLocked, else enter the loop with awoke false.
Lock(g) ==
    /\ pc[g] = "Lock"
    /\ IF state = 0
         THEN state' = mutexLocked /\ Goto(g, "cs")
         ELSE UNCHANGED state /\ Goto(g, "read")
    /\ Set(awoke, g, FALSE)
    /\ UNCHANGED <<sema, semaQ, old>>

\* old := m.state at the top of the loop.
ReadState(g) ==
    /\ pc[g] = "read"
    /\ Set(old, g, state)
    /\ Goto(g, "cas")
    /\ UNCHANGED <<state, sema, semaQ, awoke>>

\* Faults checked to be caught: a woken waiter that keeps mutexWoken set,
\* a waiter counted even when the mutex is free.
LockNewKeepsWoken(o, aw) ==
    IF Has(o, mutexLocked) THEN o + waiterUnit ELSE o | mutexLocked
LockNewAlwaysWaits(o, aw) ==
    LET n == (o | mutexLocked) + waiterUnit
    IN  IF aw THEN n - (n & mutexWoken) ELSE n

\* The state Lock tries to install from old (part_000 48-56): lock it, or
\* count one more waiter; a woken goroutine clears mutexWoken.
LockNew(o, aw) ==
    LET n == IF Has(o, mutexLocked) THEN o + waiterUnit ELSE o | mutexLocked
    IN  IF aw THEN n - (n & mutexWoken) ELSE n

\* Fault checked to be caught: a woken goroutine that takes itself for
\* the owner after its CAS.
AcquiredIfWoken(o, aw) == ~Has(o, mutexLocked) \/ aw

\* After a successful CAS the goroutine owns the mutex iff old was
\* unlocked (part_000 58-60).
Acquired(o, aw) == ~Has(o, mutexLocked)

\* CAS old -> new: locked the mutex if it was free, else sleep on the
\* semaphore; a failed CAS goes round the loop again.
LockCAS(g) ==
    LET o == old[g] IN
    /\ pc[g] = "cas"
    /\ IF state = o
         THEN /\ state' = LockNew(o, awoke[g])
              /\ Goto(g, IF Acquired(o, awoke[g]) THEN "cs" ELSE "semacquire")
         ELSE UNCHANGED state /\ Goto(g, "read")
    /\ Set(old, g, 0)
    /\ UNCHANGED <<sema, semaQ, awoke>>

\* runtime_Semacquire(&m.sema): take a unit and go round the loop as a
\* woken goroutine, or park until a release wakes us.
Semacquire(g) ==
    /\ pc[g] = "semacquire"
    /\ \/ S!Take /\ Goto(g, "read") /\ Set(awoke, g, TRUE)
       \/ S!Park(g, FALSE) /\ Goto(g, "parked") /\ UNCHANGED awoke
    /\ UNCHANGED <<state, old>>

-----------------------------------------------------------------------------
(* Unlock                                                                  *)

\* AddInt32(&m.state, -mutexLocked); panic if it was not locked.
Unlock(g) ==
    LET n == state - mutexLocked IN
    /\ pc[g] = "cs"
    /\ state' = n
    /\ Set(old, g, n)
    /\ Goto(g, IF (n + mutexLocked) % 2 = 0 THEN "panic" ELSE "unlockLoop")
    /\ UNCHANGED <<sema, semaQ, awoke>>

\* Faults checked to be caught: a wake-up although a goroutine is woken,
\* no wake-up for a single waiter.
NoWakeIgnoresWoken(o) == Waiters(o) = 0 \/ Has(o, mutexLocked)
NoWakeForOneWaiter(o) == Waiters(o) <= 1 \/ Has(o, mutexLocked + mutexWoken)

\* No wake-up needed: no waiters, or the mutex is locked again or a
\* goroutine is already woken.
NoWakeNeeded(o) == Waiters(o) = 0 \/ Has(o, mutexLocked + mutexWoken)

\* Return if no wake-up is needed, else CAS to take one waiter and set
\* mutexWoken; a failed CAS re-reads m.state.
UnlockLoop(g) ==
    LET o == old[g] IN
    /\ pc[g] = "unlockLoop"
    /\ IF NoWakeNeeded(o)
         THEN Goto(g, "idle") /\ UNCHANGED state
       ELSE IF state = o
         THEN state' = (o - waiterUnit) | mutexWoken /\ Goto(g, "semrelease")
       ELSE Goto(g, "unlockRead") /\ UNCHANGED state
    /\ Set(old, g, 0)
    /\ UNCHANGED <<sema, semaQ, awoke>>

\* old = m.state after a failed CAS.
UnlockRead(g) ==
    /\ pc[g] = "unlockRead"
    /\ Set(old, g, state)
    /\ Goto(g, "unlockLoop")
    /\ UNCHANGED <<state, sema, semaQ, awoke>>

\* runtime_Semrelease(&m.sema): keep the unit, or wake the head of the
\* queue, which goes round Lock's loop as a woken goroutine.
Semrelease(g) ==
    /\ pc[g] = "semrelease"
    /\ \/ S!Keep /\ Goto(g, "idle") /\ UNCHANGED awoke
       \/ \E w \in Goroutines :
            /\ S!Wake(w)
            /\ pc' = [pc EXCEPT ![g] = "idle", ![w] = "read"]
            /\ Set(awoke, w, TRUE)
    /\ UNCHANGED <<state, old>>

-----------------------------------------------------------------------------

Step(g) ==
    \/ Lock(g) \/ ReadState(g) \/ LockCAS(g) \/ Semacquire(g)
    \/ Unlock(g) \/ UnlockLoop(g) \/ UnlockRead(g) \/ Semrelease(g)

Next == \E g \in Goroutines : Call(g) \/ Step(g)

\* A runnable goroutine eventually runs; a goroutine need not call Lock.
Fairness == \A g \in Goroutines : WF_vars(Step(g))

Spec == Init /\ [][Next]_vars
FairSpec == Spec /\ Fairness

-----------------------------------------------------------------------------
(* Properties                                                              *)

\* The type of every variable; the waiter count and the semaphore's units
\* never exceed the number of goroutines.
TypeOK ==
    /\ state \in Nat /\ Waiters(state) <= Cardinality(Goroutines)
    /\ sema \in 0..Cardinality(Goroutines)
    /\ semaQ \in Seq(Goroutines)
    /\ pc \in [Goroutines -> PCs]
    /\ old \in [Goroutines -> Int]
    /\ awoke \in [Goroutines -> BOOLEAN]

LockerView == [g \in Goroutines |->
                 IF pc[g] = "cs" THEN "cs"
                 ELSE IF pc[g] \in Locking THEN "waiting"
                 ELSE "idle"]

L == INSTANCE Locker WITH lpc <- LockerView

\* MutexV1 implements Locker: Lock returns only while no other goroutine
\* holds the mutex, however the CAS loops of Lock and Unlock interleave.
ImplementsLocker == L!Spec

\* No lost wake-up: while a goroutine is inside Lock, some goroutine
\* eventually returns from Lock.
Progress == L!Progress

\* The woken flag is a single token.  Unlock's CAS sets mutexWoken and
\* takes one waiter off the count; the wake-up then travels through the
\* semaphore (a kept unit, or the woken goroutine) until that goroutine's
\* CAS clears the flag.  There is at most one such wake-up in flight, and
\* mutexWoken is set exactly while there is one: no second waiter is woken
\* meanwhile, and the flag is never left set with nobody to clear it.
WakeUpsInFlight ==
    Cardinality({g \in Goroutines : pc[g] = "semrelease"})
    + sema
    + Cardinality({g \in Goroutines : awoke[g] /\ pc[g] \in {"read", "cas"}})

WokenToken ==
    /\ WakeUpsInFlight <= 1
    /\ Has(state, mutexWoken) <=> WakeUpsInFlight = 1

=============================================================================
