-------------------------------- MODULE Sema --------------------------------
(***************************************************************************)
(* The runtime semaphore a Mutex parks on (runtime_Semacquire,             *)
(* runtime_SemacquireMutex, runtime_Semrelease).  It is not part of the    *)
(* repository: this is the spec's parker contract (section 2 and 6): a     *)
(* count of units and a queue of parked goroutines, each parked at the     *)
(* back (FIFO) or at the front (LIFO).  The module only defines the        *)
(* transitions of its two variables; the callers decide which goroutine    *)
(* runs next.                                                              *)
(***************************************************************************)
EXTENDS Naturals, Sequences

VARIABLES
    sema,    \* the semaphore's count of units
    semaQ    \* the parked goroutines, head first

Init == sema = 0 /\ semaQ = <<>>

\* Acquire, easy case: a unit is there, take it.
Take == sema > 0 /\ sema' = sema - 1 /\ UNCHANGED semaQ

\* Acquire, no unit: park g at the front or at the back of the queue.
Park(g, front) ==
    /\ sema = 0
    /\ semaQ' = IF front THEN <<g>> \o semaQ ELSE Append(semaQ, g)
    /\ UNCHANGED sema

\* Release when nobody is parked: keep the unit for the next acquirer.
Keep == semaQ = <<>> /\ sema' = sema + 1 /\ UNCHANGED semaQ

\* Release when goroutines are parked: w, the head, gets the unit.
Wake(w) == semaQ # <<>> /\ w = Head(semaQ) /\ semaQ' = Tail(semaQ) /\ UNCHANGED sema

\* A release split in two: add the unit first ...
AddUnit == sema' = sema + 1 /\ UNCHANGED semaQ
\* ... then dequeue the head w without a unit (it will retry) ...
Dequeue(w) == semaQ # <<>> /\ w = Head(semaQ) /\ semaQ' = Tail(semaQ) /\ UNCHANGED sema
\* ... or dequeue it taking the unit for it when the unit is still there.
DequeueTake(w) == /\ semaQ # <<>> /\ w = Head(semaQ) /\ sema > 0
                  /\ semaQ' = Tail(semaQ) /\ sema' = sema - 1
=============================================================================
