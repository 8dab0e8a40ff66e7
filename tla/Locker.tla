------------------------------- MODULE Locker -------------------------------
(***************************************************************************)
(* What a sync.Locker promises (the Locker interface of mutex.go and the   *)
(* contract of the spec, section 4.1): Lock blocks until the caller holds  *)
(* the lock exclusively, Unlock releases it.  Each goroutine is idle,      *)
(* waiting inside Lock, or in its critical section.                        *)
(***************************************************************************)
CONSTANT Goroutines

VARIABLE lpc

Free == \A g \in Goroutines : lpc[g] # "cs"

Init == lpc = [g \in Goroutines |-> "idle"]

\* The goroutine calls Lock.
Request(g) == lpc[g] = "idle" /\ lpc' = [lpc EXCEPT ![g] = "waiting"]

\* Lock returns: only while nobody holds the lock.
Acquire(g) == lpc[g] = "waiting" /\ Free /\ lpc' = [lpc EXCEPT ![g] = "cs"]

\* The holder calls Unlock.
Release(g) == lpc[g] = "cs" /\ lpc' = [lpc EXCEPT ![g] = "idle"]

Next == \E g \in Goroutines : Request(g) \/ Acquire(g) \/ Release(g)

Spec == Init /\ [][Next]_lpc

\* Deadlock freedom of a lock: while some goroutine waits in Lock, some
\* goroutine eventually holds the lock.
Progress == (\E g \in Goroutines : lpc[g] = "waiting")
              ~> (\E g \in Goroutines : lpc[g] = "cs")
=============================================================================
