# TLA+ models of the Go mutexes and sync.Map in this repository

This directory holds the TLA+ modules and TLC configurations that check the
concurrency core of the repository. The core consists of two versions of Go's
`sync.Mutex` and of `sync.Map`. `PROJECT.json` lists the components, the runs,
the mutants, the map from every definition to the lines of code it models, the
findings and the hazards.

## 1. The system

| Part | Source | What it is |
|---|---|---|
| Mutex (go1.16) | `src/go-go1.16/src/sync/mutex.go` | `Lock`/`lockSlow`, `Unlock`/`unlockSlow`. The state is one `int32` word: `mutexLocked`, `mutexWoken` and `mutexStarving` bits, with the waiter count above bit 3. It spins, sets the woken flag, and switches to starvation mode, where ownership is handed off. |
| Mutex (earlier) | `src/unnamed/part_000` | The pre-starvation `sync.Mutex`. It has the locked and woken bits and a waiter count above bit 2. It does not spin, and a woken waiter competes with newcomers. |
| Runtime semaphore | not in the repository | `runtime_SemacquireMutex(&m.sema, lifo)` and `runtime_Semrelease(&m.sema, handoff)`. This is the spec's "parker": a unit count and a queue, where a goroutine parks at the back or, for LIFO, at the front. |
| sync.Map | `src/go-go1.0.1/src/pkg/hash/crc32/crc32_amd64.s`, lines 63–364 | See the breakdown below. |
| CRC32 SSE4.2 | same file, lines 1–61 | Stateless checksum assembly. It is out of scope. |

sync.Map (lines 63–364) has these parts:
- an atomically published `readOnly{m, amended}` snapshot;
- a `dirty` map and a `misses` counter, both guarded by `mu`;
- `entry` slots that hold a value, `nil` (deleted) or `expunged`, changed by CAS;
- its operations: `Load`, `Store`, `LoadOrStore`, `LoadAndDelete`, `Delete` and `Range`;
- its helpers: `missLocked` (promotion), `dirtyLocked` (copy-and-expunge), `tryStore`, `unexpungeLocked`, `tryLoadOrStore` and `entry.delete`.

How the parts interact:
- sync.Map takes `mu` (a Mutex) for every slow path.
- A Mutex parks and wakes goroutines through the runtime semaphore.
- Goroutines interleave at every atomic access of `m.state`, at every atomic access of an entry or of `read`, and inside the semaphore.

### State, operations and what makes them hard

- **Mutex.**
  - State: `m.state` and `m.sema`, plus the locals of every goroutine inside `lockSlow`/`unlockSlow` (`old`, `iter`, `awoke`, `starving`, `waitStartTime`).
  - Every decision is a CAS against a value read earlier, so each read–CAS gap is an interleaving point.
  - The woken flag is a token shared by a spinner, an unlocker and a woken waiter.
  - In starvation mode, ownership passes through the semaphore, and the woken goroutine fixes up the state word with one `AddInt32`.
  - Misuse ends in one of three `throw`s.
- **sync.Map.**
  - State: the read snapshot, dirty, misses, and each entry's pointer.
  - Lock-free fast paths race with the locked paths: `tryStore` against `dirtyLocked`'s expunge, and `Load` against promotion.
  - Correctness rests on invariants that tie `read` and `dirty` together: they share entries, expunged entries are never in dirty, and `amended` implies `dirty != nil`.

## 2. Modules

| Module | Models | Kind |
|---|---|---|
| `Sema` | The runtime semaphore, as a unit count plus a queue. It is written from the spec's parker contract, because the runtime is not in the repository. | component |
| `Locker` | The abstract lock: `idle → waiting → cs → idle`, with mutual exclusion in `Acquire` and a `Progress` property. Its actions are the two methods of the `Locker` interface (mutex.go 31–34) with the contract the spec gives them. | abstract spec |
| `Mutex` | go1.16 `mutex.go`. | component + refinement of `Locker` |
| `MutexV1` | `part_000`. | component + refinement of `Locker` |
| `AbsMap` | What sync.Map promises: per-key atomic methods, and a Range that visits each key at most once with a value the key held while Range ran. It is written from the spec (sections 4.2 and 5). | abstract spec |
| `SyncMap` | sync.Map (lines 63–364 of the `.s` file) over an atomic `mu`, with two history variables. | component + refinement of `AbsMap` |
| `MCMutex`, `MCMutexV1`, `MCSyncMap` | Model values for goroutines, keys, values and entry addresses, the spin bound and symmetry. | MC modules |

### Mutex: how state and actions correspond to the code

The state variables are:
- `state` is `m.state`.
- `sema` and `semaQ` are `m.sema`, which the model instantiates from `Sema`.
- `pc[g]` is the point goroutine `g` has reached.
- `old`, `iter`, `awoke`, `starving` and `waitStart` are lockSlow's locals. `waitStart` stands for `waitStartTime != 0`.
- `lifo` is the `queueLifo` argument.
- `handoff` is the argument to `runtime_Semrelease`.
- A local that the code will overwrite before reading it again is reset to its initial value. This keeps the state space small without losing behaviours.

Each action is one atomic step of one goroutine:

| Action | Code | Lines |
|---|---|---|
| `Call` | entering `Lock` | |
| `Lock` | the fast-path CAS | 72–83 |
| `ReadState` | `old := m.state` | 90, 107, 186 |
| `Spin` | the spin branch, with its optional CAS that sets `mutexWoken`; `runtime_canSpin(iter)` is a free choice while `iter < ActiveSpin`. Its condition for trying is the operator `SpinTry` | 96–109 |
| `LockCAS` | computing `new`, the woken throw, and the CAS. On success the goroutine owns the mutex (the test `Acquired`, lines 140–142) or goes on to the semaphore with `queueLifo` | 110–150 |
| `Semacquire` | `runtime_SemacquireMutex` | 151 |
| `Woke` | the elapsed-time test, the re-read, and the starvation-mode check with its throw. The time comparison is a free boolean, because the model has no clock | 153–162 |
| `HandoffAdd` | the `AddInt32(delta)` | 163–181 |
| `Unlock` | `AddInt32(-mutexLocked)` and the unlock-of-unlocked throw | 201–222 |
| `UnlockLoop`, `UnlockRead` | the normal-mode wake-up loop | 223–241 |
| `Semrelease` | `runtime_Semrelease` | 237, 248 |
| `SemreleaseDequeue` | the second half of a split release | |

`Semrelease` takes one of two forms:
- With `SplitRelease = FALSE`, the runtime keeps the unit, or hands it to the head of the queue, in one step.
- With `SplitRelease = TRUE`, it first adds the unit, and a later step (`SemreleaseDequeue`) dequeues the head. A newcomer's `semacquire` can take the unit in between, which the real runtime allows.

`MutexV1` follows the same scheme, with fewer locals (`old`, `awoke`).

### SyncMap: how state and actions correspond to the code

The state variables are:
- `readM` and `amended` are the published `readOnly`.
- `dirty` is `m.dirty`. It is a function from keys to entries, or `Nil` for a nil map.
- `misses` is `m.misses`.
- `p[e]` is each entry's pointer. It holds a value, `Nil` or `Expunged`.
- `mu` is the goroutine that holds `m.mu` across steps.
- Each goroutine has `pc`, `op` (its method, key and value), `ent` (the local `e`), `res`, and, for `Range`, `snap`, `todo` and `visited`.

A step is one atomic access of `read` or of an entry. Accesses of `dirty` and `misses` happen under `mu`, so they fold into the neighbouring step, as do `Lock`/`Unlock` when a locked section makes only one such access:
- `Load` has three steps, in this order:
  1. `LoadRead`: reads `read` (97–100);
  2. `LoadLocked`: the locked section, with the second look at `read` (`LockedLookup`) and `missLocked` (101–111);
  3. `LoadEntry`: `e.load()` (120–128).
- `Store` starts with `StoreRead` and `TryStore` (131–135 and 168–180). When the entry is missing or expunged, it takes `mu` in `StoreLocked` (137–164), and then one of two paths:
  - An entry already in read goes through `Unexpunge` (142–148) and then `StoreEntryLocked` (152 and 190–192).
  - A new key goes through `NewKeyLocked` and `dirtyLocked`. One `Expunge` step runs per entry of read (346–364), then `Amend` (160–162).
- `LoadOrStore` mirrors `Store`:
  - `TryLoadOrStore` is the fast path, built on `TryLoadOrStoreOn` (231–252).
  - `LoadOrStoreLocked` (204–221) takes the locked path.
  - `LoadOrStoreMiss` (213) and `TryLoadOrStoreLocked` (210) finish it.
- `LoadAndDelete` and `Delete` use `LoadAndDeleteRead`, then `LoadAndDeleteLocked` (261–270), which deletes from dirty and calls `missLocked`, then `EntryDelete` (284–294).
- `Range` runs `RangeRead`, then `RangeLocked` (the promotion, 301–310), then one `RangeIter` step per key (312–321). The callback `f` returns either "continue" or "stop".

A CAS retry loop on `p` is one step, because a failed CAS changes nothing before the loop reloads `p`. `p` holds the value its pointer points to.

### AbsMap and the refinement

`AbsMap` has these variables:
- `m`: the map itself, from keys to values.
- `apc`: each goroutine's phase: idle, pending or done.
- `aop`: the method each goroutine is running.
- `held`: the (key, value) pairs the method's key held while it ran.
- `wrote`: the method's single change, or nothing.
- `ares` and `avis`: the method's result and, for Range, the pairs it passed the callback.

It has three actions:
- `Call` starts a method.
- `Write` is the method's one atomic change of its own key: Store sets the key, LoadOrStore fills an absent key, LoadAndDelete empties a present one.
- `Return` ends the method with a result that `Explains` accepts.

`Explains` accepts a result if its method could have taken effect at some instant while it ran:
- a read returns a value its key held;
- a write returns what it changed;
- Range passes the callback only pairs the map held, and each key at most once.

`SyncMap` adds two history variables that the code does not have:
- `seen` records what every running method could observe.
- `effs` records the changes each method's own steps made to its key.

The refinement mapping `AM` maps the abstract variables as follows:
- `m` is `Content`, the logical map of spec section 3: read's entry for a key, else dirty's entry, with nil and expunged counting as absent.
- A goroutine is pending while its `pc` is neither idle nor done.
- `held` is `seen`, and `wrote` is `effs`.
- `ares` and `avis` are `res` and `visited` once the goroutine is done.

`ImplementsAbsMap` checks `AbsMap`'s specification under this mapping. A step of the code must therefore either leave the map, every phase and every record alone, or be one abstract step. So the property checks two things:
- Every method takes effect atomically.
- No step changes a key that the stepping method was not called on. This covers dirtyLocked's expunging, unexpunging and both promotions, none of which may lose a key or bring one back.

## 3. Runs

| Run | Config | Checks | Result |
|---|---|---|---|
| mutex_consistency | `MCMutex_consistency.cfg`: 3 goroutines, `ActiveSpin=1`, split release, symmetry | `TypeOK`, `NoThrow` (none of the three throws is reachable), `StarvationHasWaiter`, `StarvationEndsByHandoff` (only a hand-off switches starvation mode off), `ImplementsLocker` with the split release | pass, about 21k states |
| mutex_locker | `MCMutex_locker.cfg`: 3 goroutines, atomic release | `ImplementsLocker`: `Mutex` refines `Locker` under `LockerView`, so mutual exclusion holds | pass, about 20k states |
| mutex_progress | `MCMutex_progress.cfg`: 3 goroutines, split release, `FairSpec` | `Progress`: while a goroutine is in `Lock`, some goroutine eventually gets the mutex | pass, about 127k states, about 75 s |
| mutex_four | `MCMutex_four.cfg`: 4 goroutines, `ActiveSpin=1`, split release, symmetry | `WokenToken`: `mutexWoken` is a single token in Go 1.16 too | pass, about 950k states, about 1.5 min |
| mutex_starvation | `MCMutex_starvation.cfg`: no spinning, atomic release, `FairSpec` | `StarvingWaiterAcquires` | **violation** (finding below) |
| mutexv1_safety | `MCMutexV1_safety.cfg`: 4 goroutines, symmetry | `TypeOK`, `WokenToken`, `ImplementsLocker` | pass, about 80k states |
| mutexv1_progress | `MCMutexV1_progress.cfg`: 3 goroutines, `FairSpec` | `Progress` | pass, about 18k states |
| syncmap_load | `MCSyncMap_load.cfg`: 2 goroutines, 2 keys, 2 values, 5 entry addresses; Load, Store and LoadAndDelete | `TypeOK`, `ReadDirtyConsistent`, `ImplementsAbsMap` | pass, about 330k states, about 1.5 min |
| syncmap_loadorstore | `MCSyncMap_loadorstore.cfg`: the same bounds; Store, LoadOrStore and LoadAndDelete | `ReadDirtyConsistent`, `ImplementsAbsMap` | pass, about 570k states, about 2.5 min |
| syncmap_range | `MCSyncMap_range.cfg`: the same bounds; Store, LoadAndDelete and Range | `ImplementsAbsMap`, `RangeComplete` | pass, about 412k states, about 2.5 min |
| syncmap_three | `MCSyncMap_three.cfg`: 3 goroutines, 2 keys, 1 value; Store and LoadAndDelete | `ReadDirtyConsistent` | pass, about 646k states, about 1.75 min |

In `MutexV1`, `WokenToken` says that `mutexWoken` is a single token. At most one wake-up is in flight at any time: the unlocker that is about to release, a kept semaphore unit, or a woken goroutine that has not yet done its CAS. The flag is set exactly while one is in flight.

`Mutex` (Go 1.16) has its own `WokenToken`. It counts the wake-ups in flight (`WakeUpsInFlight`):
- a lockSlow that set or was given the flag (`awoke`) and has not yet done its CAS;
- an unlockSlow that set it and has not yet released its unit;
- while the mutex is not starving, a unit in `m.sema` or a woken goroutine that has not yet read the state.

A hand-off unit of starvation mode does not count: Unlock sets no flag for it, and the mode cannot end before the unit is taken. The property needs four goroutines to be tested: two spinners can race for the flag only while one goroutine holds the mutex and another waits.

Every property has a mutant in `PROJECT.json`. A mutant is a plausible bug in the mapped code, and TLC finds the property violated under the run's own configuration. The mutants are:
- a newcomer that grabs a starving mutex;
- a switch to starvation mode on an unlocked mutex;
- a waiter counted on a free mutex;
- an Unlock that ignores the woken flag;
- an Unlock that never wakes a single waiter;
- a woken goroutine that takes itself for the owner;
- a queueing goroutine that does not starve and switches starvation mode off;
- a spinner that claims `mutexWoken` although another goroutine is already woken;
- for sync.Map:
  - a locked path that skips the second look at `read`;
  - a `tryStore` that stores into an expunged entry;
  - a promotion that does not reset `misses`;
  - a `Range` that does not promote;
  - a `Range` that promotes without checking `amended` again;
  - an `unexpungeLocked` that does not put the entry back into dirty;
  - a `tryLoadOrStore` that reports a successful store as "loaded".

### Finding: the starvation bound does not hold (mutex_starvation)

`StarvingWaiterAcquires` states that a goroutine in `Lock` that has become starving eventually acquires the mutex. The property assumes that no goroutine loses CAS races forever, because that is not something starvation mode addresses. TLC finds it violated through this sequence:

1. A starving waiter's CAS sets `mutexStarving` (lines 127–139). The waiter has not yet reached `runtime_SemacquireMutex` (line 151).
2. The holder unlocks and hands off (line 248). The queue is empty, so the runtime keeps the unit.
3. A newcomer sees a starving mutex and queues (line 119). It calls semacquire first and takes the unit.
4. The newcomer sees `mutexStarving`, takes the hand-off, and, because it is not itself starving, clears starvation mode (line 169).
5. The cycle repeats.

This contradicts two statements:
- the spec's "Starvation bound" testable property;
- the comment at lines 242–247, which says ownership goes to the waiter at the front of the queue.

### Bounds

- **Goroutines.** Three goroutines suffice for most races: a holder, a waiter and a newcomer, or a spinner, an unlocker and a woken waiter. MutexV1's safety run and mutex_four use four: two waiters with one woken goroutine in flight, or two spinners racing for `mutexWoken` while one goroutine holds the mutex and one waits. A spinner that ignores a set flag is invisible with three goroutines.
- **Spinning.** `ActiveSpin = 1` is enough for the spinner to set `mutexWoken` and then take part in the token protocol. The code's own bound (`active_spin = 4`) only repeats the same step.
- **Waiter count.** It is bounded by the number of goroutines, which `TypeOK` checks.
- **sync.Map.**
  - Two goroutines are enough for every race between one fast path and one locked path.
  - Two keys let `dirtyLocked` copy one entry while the other is new.
  - Two values let a stale write differ from a current one.
  - Five entry addresses are enough. `TypeOK` checks that the pool of unreferenced addresses never runs out.
  - Each run uses a subset of the methods, so that each stays within a few minutes with the refinement check. Every pair of methods that write (Store, LoadOrStore, LoadAndDelete) runs together in at least one run, and so does each reader (Load, Range) with Store and with LoadAndDelete, the writer that deletes (deletes make `dirtyLocked` expunge).
  - A third goroutine, in syncmap_three, lets two lock-free CASes race one `dirtyLocked` copy. That run has one value, which is enough to check the structural invariant. The refinement check would take it past the time budget.
  - A `VIEW` drops the `p` of unreferenced entries. Such a `p` is written before it is read again, so the view merges only states that behave alike.
- **Symmetry.** It is used only in safety runs, where goroutines are interchangeable. Liveness runs do not use it.

### Fairness

`Fairness` is weak fairness on each goroutine's `Step`, which is every action except `Call`. The reasons:
- The Go scheduler is preemptive. A goroutine that can run eventually does, whether it is spinning, CASing, or woken by the semaphore.
- `Call` is not fair, because a goroutine need not ever lock.
- A parked goroutine has no enabled step, so fairness cannot make it progress by itself. Only a release wakes it.

Deadlock is checked in every run: an idle goroutine can always call `Lock`, or call another method of the Map.

## 4. What is not modelled, and the plan

- **CRC32 assembly.** It is pure computation with no shared state. It is out of scope.
- **Runtime internals.** The semaphore is reduced to its contract. Clocks are free booleans. `runtime_canSpin` is a bounded free choice. `race.*` calls only annotate the race detector.
- **Memory model.** Every atomic is sequentially consistent, which is what Go's `sync/atomic` guarantees.
- **Liveness of sync.Map.** Not checked. A goroutine waiting for `mu` can be overtaken forever under weak fairness, and, as the mutex_starvation run shows, not even the Mutex's starvation mode rules that out. Every other step is one iteration of a finite loop, so a liveness property there would only restate the model's shape.
- **Range's callback.** `f` may call the Map itself. The model abstracts it to "continue" or "stop". A call from `f` is not modelled apart from the calls of other goroutines. Range holds no lock and no state of the Map while `f` runs (mu is released at line 309, before the loop), so a call made from inside `f` has the same effect as a call by another goroutine at that point of the iteration. The runs with Range already interleave those calls with every step of the loop.
- **Requeue order of a woken waiter** (mutex.go 150). The model keeps `queueLifo`, but no property tells front from back insertion. It only matters for the starvation bound, which fails for another reason (the finding above).
- **SyncMap over the real Mutex.** The composition is not model-checked. Both `Mutex` and `MutexV1` implement `Locker` (the mutex_consistency and mutex_locker runs, with the split and the atomic release, and the mutexv1_safety run). `SyncMap` uses `mu` only through `Lock` and `Unlock`, and mu is modelled as an atomic `Locker`. So its properties carry over to the real mutexes by substitution. Checking the product directly would multiply the state space well past the budget.

What is left is out of the model checker's reach or not in the repository:
- the runtime semaphore and scheduler, which the models reduce to their contracts;
- a liveness guarantee for an individual waiter, which the code does not give (mutex_starvation);
- sync.Map instances with three goroutines under the refinement check, which take the run past its time budget. `syncmap_three` checks them against the invariants instead.
