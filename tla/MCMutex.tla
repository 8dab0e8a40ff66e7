------------------------------- MODULE MCMutex -------------------------------
(* Model-checking instance of Mutex: three goroutines (enough for a       *)
(* holder, a queued waiter and a newcomer barging or stealing), the spin  *)
(* bound cut to one spin so that both the spinning and the queueing       *)
(* branch occur.                                                          *)
EXTENDS Mutex, TLC

CONSTANTS g1, g2, g3, g4

MCGoroutines == {g1, g2, g3}
MCActiveSpin == 1

Symmetry == Permutations(MCGoroutines)

\* Four goroutines: a holder, a queued waiter and two spinners, the least
\* that lets two spinners race for mutexWoken.
MCGoroutines4 == {g1, g2, g3, g4}
Symmetry4 == Permutations(MCGoroutines4)
=============================================================================
