-------------------------------- MODULE Mutex --------------------------------
(***************************************************************************)
(* sync.Mutex of Go 1.16 (src/go-go1.16/src/sync/mutex.go): Lock with its  *)
(* fast path and lockSlow (adaptive spinning, woken flag, starvation       *)
(* mode and direct hand-off), Unlock with unlockSlow.                      *)
(*                                                                         *)
(* Every access of m.state is one atomic step: a load of m.state, a        *)
(* CompareAndSwapInt32 or an AddInt32.  What a goroutine computes between  *)
(* two accesses is folded into the step that consumes it.  The goroutines  *)
(* park on the runtime semaphore m.sema (runtime/sema.go), which is not    *)
(* part of the repository and is modelled from the spec's parker contract: *)
(* a counter and a wait queue with front (LIFO) or back insertion.  With   *)
(* SplitRelease FALSE a release hands its unit to the head of the queue in *)
(* one step.  With SplitRelease TRUE it first adds the unit and dequeues   *)
(* the head in a later step, as a counting semaphore may: a goroutine      *)
(* arriving in between can take the unit.                                  *)
(*                                                                         *)
(* A goroutine runs forever: idle (non-critical code), Lock(), critical    *)
(* section, Unlock().                                                      *)
(***************************************************************************)
EXTENDS Integers, Sequences, FiniteSets, Bitwise

CONSTANTS
    Goroutines,   \* the goroutines sharing one Mutex
    ActiveSpin,   \* runtime_canSpin(iter) is false once iter >= ActiveSpin
    SplitRelease  \* the parker adds the unit before it dequeues a waiter

ASSUME ActiveSpin \in Nat /\ SplitRelease \in BOOLEAN

\* The bit fields of m.state (mutex.go const block).
mutexLocked      == 1
mutexWoken       == 2
mutexStarving    == 4
mutexWaiterShift == 3
waiterUnit       == 2^mutexWaiterShift

Waiters(s) == shiftR(s, mutexWaiterShift)
Has(s, bits) == (s & bits) # 0
\* Go's x &^ y (and-not)
AndNot(x, y) == x - (x & y)

VARIABLES
    state,      \* m.state
    sema,       \* the count of the runtime semaphore m.sema
    semaQ,      \* goroutines parked on m.sema, head first
    pc,         \* where each goroutine is
    old,        \* lockSlow's old, unlockSlow's old/new
    iter,       \* lockSlow's spin counter
    awoke,      \* lockSlow's awoke
    starving,   \* lockSlow's starving
    waitStart,  \* lockSlow's waitStartTime # 0
    lifo,       \* queueLifo passed to runtime_SemacquireMutex
    handoff     \* handoff passed to runtime_Semrelease

vars == <<state, sema, semaQ, pc, old, iter, awoke, starving, waitStart,
          lifo, handoff>>
locals == <<iter, awoke, starving, waitStart, lifo, handoff>>

PCs == {"idle", "Lock", "lockSlow", "loop", "semacquire", "parked", "woke",
        "handoffAdd", "cs", "unlockLoop", "unlockRead", "semrelease",
        "semreleaseDequeue", "throw"}

\* Goroutines inside Lock() that have not yet got the mutex.
Locking == {"Lock", "lockSlow", "loop", "semacquire", "parked", "woke",
            "handoffAdd"}
\* Goroutines inside Unlock() after the lock bit was dropped.
Unlocking == {"unlockLoop", "unlockRead", "semrelease", "semreleaseDequeue"}

S == INSTANCE Sema

Goto(g, l) == pc' = [pc EXCEPT ![g] = l]
Set(f, g, v) == f' = [f EXCEPT ![g] = v]

Init ==
    /\ state = 0
    /\ S!Init
    /\ pc = [g \in Goroutines |-> "idle"]
    /\ old = [g \in Goroutines |-> 0]
    /\ iter = [g \in Goroutines |-> 0]
    /\ awoke = [g \in Goroutines |-> FALSE]
    /\ starving = [g \in Goroutines |-> FALSE]
    /\ waitStart = [g \in Goroutines |-> FALSE]
    /\ lifo = [g \in Goroutines |-> FALSE]
    /\ handoff = [g \in Goroutines |-> FALSE]

-----------------------------------------------------------------------------
(* Lock                                                                    *)

\* The goroutine leaves its non-critical code and calls m.Lock().
Call(g) ==
    /\ pc[g] = "idle"
    /\ Goto(g, "Lock")
    /\ UNCHANGED <<state, sema, semaQ, old, locals>>

\* Lock's fast path: CAS 0 -> mutexLocked, else enter lockSlow with its
\* locals initialised.
Lock(g) ==
    /\ pc[g] = "Lock"
    /\ IF state = 0
         THEN /\ state' = mutexLocked
              /\ Goto(g, "cs")
         ELSE /\ UNCHANGED state
              /\ Goto(g, "lockSlow")
    /\ Set(iter, g, 0) /\ Set(awoke, g, FALSE) /\ Set(starving, g, FALSE)
    /\ Set(waitStart, g, FALSE)
    /\ UNCHANGED <<sema, semaQ, old, lifo, handoff>>

\* old = m.state: on entry to lockSlow, after a spin, after a failed CAS.
ReadState(g) ==
    /\ pc[g] = "lockSlow"
    /\ Set(old, g, state)
    /\ Goto(g, "loop")
    /\ UNCHANGED <<state, sema, semaQ, locals>>

\* Fault checked to be caught: a spinner that claims mutexWoken although
\* another goroutine is already woken.
SpinTryIgnoresWoken(awk, o) == ~awk /\ Waiters(o) # 0

\* A spinner tries to set mutexWoken only if it is not woken already,
\* nobody else is, and there are waiters to be woken (mutex.go 101-102).
SpinTry(awk, o) == ~awk /\ ~Has(o, mutexWoken) /\ Waiters(o) # 0

\* The spinning branch: the mutex is locked in normal mode and
\* runtime_canSpin(iter) holds (it may also be false: then LockCAS runs).
\* Try to set mutexWoken so that Unlock wakes nobody, spin, re-read.
Spin(g) ==
    LET o == old[g]
        try == SpinTry(awoke[g], o)
    IN
    /\ pc[g] = "loop"
    /\ (o & (mutexLocked + mutexStarving)) = mutexLocked
    /\ iter[g] < ActiveSpin
    /\ IF try /\ state = o
         THEN state' = o | mutexWoken /\ Set(awoke, g, TRUE)
         ELSE UNCHANGED <<state, awoke>>
    /\ Set(iter, g, iter[g] + 1)
    /\ Goto(g, "lockSlow")
    /\ Set(old, g, 0)
    /\ UNCHANGED <<sema, semaQ, starving, waitStart, lifo, handoff>>

\* Faults checked to be caught (see PROJECT.json "mutants"): a newcomer
\* that grabs a starving mutex, a switch to starvation mode on an unlocked
\* mutex, a waiter counted even when the mutex is free, a goroutine that
\* does not starve switching starvation mode off.
LockNewGrabsStarving(o, starv) ==
    LET n2 == IF Has(o, mutexLocked + mutexStarving) THEN (o | mutexLocked) + waiterUnit
                                                      ELSE o | mutexLocked
    IN  IF starv /\ Has(o, mutexLocked) THEN n2 | mutexStarving ELSE n2
LockNewStarvesUnlocked(o, starv) ==
    LET n1 == IF ~Has(o, mutexStarving) THEN o | mutexLocked ELSE o
        n2 == IF Has(o, mutexLocked + mutexStarving) THEN n1 + waiterUnit
                                                      ELSE n1
    IN  IF starv THEN n2 | mutexStarving ELSE n2
LockNewAlwaysWaits(o, starv) ==
    LET n1 == IF ~Has(o, mutexStarving) THEN o | mutexLocked ELSE o
    IN  IF starv /\ Has(o, mutexLocked) THEN (n1 + waiterUnit) | mutexStarving
                                        ELSE n1 + waiterUnit

LockNewClearsStarving(o, starv) ==
    LET n1 == IF ~Has(o, mutexStarving) THEN o | mutexLocked ELSE o
        n2 == IF Has(o, mutexLocked + mutexStarving) THEN n1 + waiterUnit
                                                      ELSE n1
    IN  IF starv /\ Has(o, mutexLocked) THEN n2 | mutexStarving
                                        ELSE AndNot(n2, mutexStarving)

\* The state lockSlow tries to install from old (mutex.go 110-137).
LockNew(o, starv) ==
    LET n1 == IF ~Has(o, mutexStarving) THEN o | mutexLocked ELSE o
        n2 == IF Has(o, mutexLocked + mutexStarving) THEN n1 + waiterUnit
                                                      ELSE n1
    IN  IF starv /\ Has(o, mutexLocked) THEN n2 | mutexStarving ELSE n2

\* A successful CAS locked the mutex iff old was unlocked and not
\* starving (mutex.go 140-142); otherwise it queued a waiter.
Acquired(o) == ~Has(o, mutexLocked + mutexStarving)

\* Compute new, check the woken flag, CAS old -> new.  On success either
\* the mutex was free (locked it) or queue on the semaphore, at the front
\* when this goroutine has waited before.
LockCAS(g) ==
    LET o == old[g]
        n == LockNew(o, starving[g])
    IN
    /\ pc[g] = "loop"
    /\ IF awoke[g] /\ ~Has(n, mutexWoken)
         THEN Goto(g, "throw") /\ UNCHANGED <<state, locals>>
       ELSE IF state = o
         THEN /\ state' = IF awoke[g] THEN AndNot(n, mutexWoken) ELSE n
              /\ IF Acquired(o)
                   THEN Goto(g, "cs") /\ UNCHANGED <<lifo, waitStart>>
                   ELSE /\ Set(lifo, g, waitStart[g])
                        /\ Set(waitStart, g, TRUE)
                        /\ Goto(g, "semacquire")
              /\ UNCHANGED <<iter, awoke, starving, handoff>>
       ELSE Goto(g, "lockSlow") /\ UNCHANGED <<state, locals>>
    /\ Set(old, g, 0)
    /\ UNCHANGED <<sema, semaQ>>

\* runtime_SemacquireMutex(&m.sema, lifo): take a unit or park.  A waiter
\* woken without a unit comes back here to retry.
Semacquire(g) ==
    /\ pc[g] = "semacquire"
    /\ \/ S!Take /\ Goto(g, "woke")
       \/ S!Park(g, lifo[g]) /\ Goto(g, "parked")
    /\ UNCHANGED <<state, old, locals>>

\* After the wake-up: update starving from the elapsed time (more or less
\* than starvationThresholdNs, a free choice), old = m.state.  In
\* starvation mode the mutex was handed off to us: check the state, else
\* loop again as a woken goroutine.
Woke(g) ==
    \E late \in BOOLEAN :
    LET o == state IN
    /\ pc[g] = "woke"
    /\ Set(starving, g, starving[g] \/ late)
    /\ Set(old, g, o)
    /\ IF Has(o, mutexStarving)
         THEN /\ Goto(g, IF Has(o, mutexLocked + mutexWoken) \/ Waiters(o) = 0
                           THEN "throw" ELSE "handoffAdd")
              /\ UNCHANGED <<awoke, iter>>
         ELSE Goto(g, "loop") /\ Set(awoke, g, TRUE) /\ Set(iter, g, 0)
    /\ Set(lifo, g, FALSE)
    /\ UNCHANGED <<state, sema, semaQ, waitStart, handoff>>

\* Take the handed-off mutex: set locked, drop our waiter count, and leave
\* starvation mode if we did not starve or were the last waiter.
HandoffAdd(g) ==
    LET o == old[g]
        delta == mutexLocked - waiterUnit
                 - (IF ~starving[g] \/ Waiters(o) = 1 THEN mutexStarving ELSE 0)
    IN
    /\ pc[g] = "handoffAdd"
    /\ state' = state + delta
    /\ Goto(g, "cs")
    /\ Set(old, g, 0)
    /\ UNCHANGED <<sema, semaQ, locals>>

-----------------------------------------------------------------------------
(* Unlock                                                                  *)

\* Unlock's fast path: AddInt32(&m.state, -mutexLocked), then unlockSlow
\* unless the result is 0.
Unlock(g) ==
    LET n == state - mutexLocked IN
    /\ pc[g] = "cs"
    /\ state' = n
    /\ IF n = 0 THEN Goto(g, "idle")
       ELSE IF (n + mutexLocked) % 2 = 0 THEN Goto(g, "throw")
       ELSE IF ~Has(n, mutexStarving) THEN Goto(g, "unlockLoop")
       ELSE Goto(g, "semrelease")
    /\ Set(old, g, IF pc'[g] = "unlockLoop" THEN n ELSE 0)
    /\ Set(handoff, g, pc'[g] = "semrelease")
    \* lockSlow's locals are dead once Lock has returned
    /\ Set(iter, g, 0) /\ Set(awoke, g, FALSE) /\ Set(starving, g, FALSE)
    /\ Set(waitStart, g, FALSE) /\ Set(lifo, g, FALSE)
    /\ UNCHANGED <<sema, semaQ>>

\* Faults checked to be caught: a wake-up although a goroutine is already
\* woken, and no wake-up for a single waiter.
NoWakeIgnoresWoken(o) == Waiters(o) = 0 \/ Has(o, mutexLocked + mutexStarving)
NoWakeForOneWaiter(o) ==
    Waiters(o) <= 1 \/ Has(o, mutexLocked + mutexWoken + mutexStarving)

\* unlockSlow need not wake anybody: no waiters, or a goroutine is woken,
\* holds the lock or the mutex starves.
NoWakeNeeded(o) ==
    Waiters(o) = 0 \/ Has(o, mutexLocked + mutexWoken + mutexStarving)

\* Normal mode: return if no wake-up is needed, else CAS to take one
\* waiter and set mutexWoken.
UnlockLoop(g) ==
    LET o == old[g] IN
    /\ pc[g] = "unlockLoop"
    /\ IF NoWakeNeeded(o)
         THEN Goto(g, "idle") /\ UNCHANGED state
       ELSE IF state = o
         THEN /\ state' = (o - waiterUnit) | mutexWoken
              /\ Goto(g, "semrelease")
       ELSE Goto(g, "unlockRead") /\ UNCHANGED state
    /\ Set(handoff, g, FALSE)
    /\ Set(old, g, 0)
    /\ UNCHANGED <<sema, semaQ, iter, awoke, starving, waitStart, lifo>>

\* old = m.state after a failed CAS in unlockSlow.
UnlockRead(g) ==
    /\ pc[g] = "unlockRead"
    /\ Set(old, g, state)
    /\ Goto(g, "unlockLoop")
    /\ UNCHANGED <<state, sema, semaQ, locals>>

\* runtime_Semrelease(&m.sema, handoff).  In one step: keep the unit or
\* wake the head with it.  Split (SplitRelease): add the unit, then
\* dequeue the head in SemreleaseDequeue.
Semrelease(g) ==
    /\ pc[g] = "semrelease"
    /\ \/ ~SplitRelease /\ S!Keep /\ Goto(g, "idle")
       \/ ~SplitRelease /\ \E w \in Goroutines :
             S!Wake(w) /\ pc' = [pc EXCEPT ![g] = "idle", ![w] = "woke"]
       \/ SplitRelease /\ S!AddUnit
             /\ Goto(g, IF semaQ = <<>> THEN "idle" ELSE "semreleaseDequeue")
    /\ Set(handoff, g, handoff[g] /\ pc'[g] # "idle")
    /\ UNCHANGED <<state, old, iter, awoke, starving, waitStart, lifo>>

\* Second half of a split release: nobody parked any more, or dequeue the
\* head; with hand-off take the unit for it if still there (the ticket),
\* else it retries.
SemreleaseDequeue(g) ==
    /\ pc[g] = "semreleaseDequeue"
    /\ \/ semaQ = <<>> /\ Goto(g, "idle") /\ UNCHANGED <<sema, semaQ>>
       \/ \E w \in Goroutines :
             \/ handoff[g] /\ S!DequeueTake(w)
                /\ pc' = [pc EXCEPT ![g] = "idle", ![w] = "woke"]
             \/ ~(handoff[g] /\ sema > 0) /\ S!Dequeue(w)
                /\ pc' = [pc EXCEPT ![g] = "idle", ![w] = "semacquire"]
    /\ Set(handoff, g, FALSE)
    /\ UNCHANGED <<state, old, iter, awoke, starving, waitStart, lifo>>

-----------------------------------------------------------------------------

\* Every step a goroutine can take once it has called Lock.
Step(g) ==
    \/ Lock(g) \/ ReadState(g) \/ Spin(g) \/ LockCAS(g) \/ Semacquire(g)
    \/ Woke(g) \/ HandoffAdd(g)
    \/ Unlock(g) \/ UnlockLoop(g) \/ UnlockRead(g) \/ Semrelease(g)
    \/ SemreleaseDequeue(g)

Next == \E g \in Goroutines : Call(g) \/ Step(g)

\* The Go scheduler is preemptive: a runnable goroutine eventually runs.
\* A goroutine need not call Lock, and the critical section ends (Unlock
\* is one of its steps).
Fairness == \A g \in Goroutines : WF_vars(Step(g))

Spec == Init /\ [][Next]_vars
FairSpec == Spec /\ Fairness

-----------------------------------------------------------------------------
(* Properties                                                              *)

\* The type of every variable; the waiter count of m.state and the units
\* of m.sema never exceed the number of goroutines (no leaked count).
TypeOK ==
    /\ state \in Nat /\ Waiters(state) <= Cardinality(Goroutines)
    /\ sema \in 0..Cardinality(Goroutines)
    /\ semaQ \in Seq(Goroutines)
    /\ pc \in [Goroutines -> PCs]
    /\ old \in [Goroutines -> Int]
    /\ iter \in [Goroutines -> 0..ActiveSpin]
    /\ awoke \in [Goroutines -> BOOLEAN]
    /\ starving \in [Goroutines -> BOOLEAN]
    /\ waitStart \in [Goroutines -> BOOLEAN]
    /\ lifo \in [Goroutines -> BOOLEAN]
    /\ handoff \in [Goroutines -> BOOLEAN]

\* The view of the goroutines that the Locker specification has.
LockerView == [g \in Goroutines |->
                 IF pc[g] = "cs" THEN "cs"
                 ELSE IF pc[g] \in Locking \cup {"throw"} THEN "waiting"
                 ELSE "idle"]

L == INSTANCE Locker WITH lpc <- LockerView

\* Mutex implements Locker: Lock returns only while no other goroutine
\* holds the mutex (mutual exclusion), whatever the interleaving of fast
\* paths, spinning, woken flags and hand-offs, and no step other than
\* Lock's return and Unlock's first step changes who holds it.
ImplementsLocker == L!Spec

\* None of the three throw() calls of mutex.go is reached: Lock never
\* finds mutexWoken cleared while it is the woken goroutine (line 134),
\* a hand-off never finds the mutex locked, woken or without waiters
\* (line 161), and Unlock never finds the mutex unlocked (line 219).
NoThrow == \A g \in Goroutines : pc[g] # "throw"

\* No lost wake-up: while some goroutine is inside Lock, some goroutine
\* eventually returns from Lock.  Unlock must wake a parked waiter
\* whenever nobody else will take the mutex.
Progress == L!Progress

\* Starvation mode always has a waiter to hand the mutex to: lockSlow
\* sets mutexStarving only while the mutex is locked ("Unlock expects
\* that starving mutex has waiters", mutex.go 122-125), and a hand-off
\* leaves it only when it takes the last waiter.
StarvationHasWaiter == Has(state, mutexStarving) => Waiters(state) > 0

\* The wake-ups under way in normal mode: a lockSlow that set or inherited
\* mutexWoken (awoke, until its CAS clears the flag), an unlockSlow that
\* set it and is about to release a unit, and, while the mutex does not
\* starve, a released unit still in m.sema or a goroutine woken by one.
WokenHolders == {g \in Goroutines : awoke[g] /\ pc[g] \in {"lockSlow", "loop"}}
WakingReleasers == {g \in Goroutines : pc[g] = "semrelease" /\ ~handoff[g]}
WakeUpsInFlight ==
    Cardinality(WokenHolders) + Cardinality(WakingReleasers)
    + IF Has(state, mutexStarving) THEN 0
      ELSE sema + Cardinality({g \in Goroutines : pc[g] = "woke"})

\* mutexWoken is a token: at most one wake-up is under way, and the flag
\* is set exactly while one is.  Spin may set it only when nobody is woken
\* (mutex.go 101-104), unlockSlow sets it with the wake-up it starts
\* (231-237), and the goroutine it wakes (183) clears it with its CAS
\* (133-138).
\* A second wake-up would wake two waiters for one unlock; a flag left set
\* with nobody woken would stop every later Unlock waking anybody.
WokenToken ==
    /\ WakeUpsInFlight <= 1
    /\ Has(state, mutexWoken) <=> WakeUpsInFlight = 1

\* Starvation mode ends only with a hand-off: the step that clears
\* mutexStarving is the AddInt32 of a woken waiter taking the mutex
\* because it is the last waiter or did not starve (mutex.go 166-180).
\* The CAS of a queueing newcomer copies the bit from old (110-128) and
\* Unlock leaves it alone, so neither can switch the mode off under a
\* starving waiter.
StarvationEndsByHandoff ==
    [][Has(state, mutexStarving) /\ ~Has(state', mutexStarving)
         => \E g \in Goroutines : pc[g] = "handoffAdd" /\ pc'[g] = "cs"]_vars

\* lockSlow's CAS retry loop is lock-free, not wait-free: a scheduler can
\* make one goroutine lose every CAS.  The starvation bound assumes that
\* no goroutine loses forever, i.e. that it leaves the loop again and again.
CasRetriesTerminate ==
    \A g \in Goroutines : []<>(pc[g] \notin {"lockSlow", "loop"})

\* Starvation bound: a waiter that has waited past starvationThresholdNs
\* eventually gets the mutex, however many goroutines keep arriving
\* (starvation mode hands the mutex to the queued waiters in turn).
StarvingWaiterAcquires ==
    CasRetriesTerminate =>
        \A g \in Goroutines : (pc[g] \in Locking /\ starving[g]) ~> (pc[g] = "cs")

=============================================================================
